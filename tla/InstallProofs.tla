--------------------------- MODULE InstallProofs ---------------------------
(***************************************************************************)
(* Proofs about what pgsync installs: the program (Updater), for any       *)
(* number of updates at a time, of downloads that are tried again, and of  *)
(* kills and refused moves; and the embedded tools (ToolCache), for any    *)
(* number of processes, files, calls, crashes, failures and damages.       *)
(***************************************************************************)
EXTENDS Updater, ToolCache, TLAPS

(***************************************************************************)
(* The program.                                                            *)
(***************************************************************************)

(* A script is that of an update that is through on Windows.  What an      *)
(* update has got is what was published where there are checksums, and it  *)
(* is in the candidate until it is moved.                                  *)
Carries(u) ==
  /\ script[u].at # "none" => At(u, "done") /\ release.windows
  /\ up[u].pc \in {"checksum", "write", "replace", "done"} => up[u].got # "none"
  /\ release.checksum /\ up[u].pc \in {"write", "replace", "done"} => up[u].got = "new"
  /\ At(u, "replace") \/ script[u].at \in {"away", "replace", "restore"} =>
       up[u].candidate = up[u].got
  /\ At(u, "failed") => up[u].candidate = "absent"

(* A script counts its tries, and restores only what was refused. *)
Scripted(u) ==
  /\ script[u].at \in {"none", "away"} => script[u].tries < Tries
  /\ script[u].at = "restore" => faults >= 1

Sole(u) == \A v \in Updates \ {u} : script[v].at = "none"

(* Where the two files are when there is but one script. *)
Stage(u) ==
  /\ script[u].at = "away" => target = "old" /\ backup = "absent"
  /\ script[u].at \in {"replace", "restore"} => target = "absent" /\ backup = "old"
  /\ script[u].at \in {"clean", "ended", "killed"} /\ target = "absent" => backup = "old"
  /\ script[u].at = "clean" => target # "absent"
  /\ script[u].at = "ended" /\ target = "absent" => faults >= 2

(* The program is where it was until a script starts, and gone without a   *)
(* fault only while a script is about to put the new one there.            *)
ProgramKept ==
  /\ (\A u \in Updates : script[u].at = "none") =>
       /\ target # "absent"
       /\ release.windows => target = "old" /\ backup = "absent"
  /\ \A u \in Updates : script[u].at # "none" /\ Sole(u) => Stage(u)
  /\ faults = 0 /\ target = "absent" => \E u \in Updates : script[u].at = "replace"

UInv ==
  /\ TypeOK
  /\ OnlyVerifiedInstalled
  /\ \A u \in Updates : Carries(u) /\ Scripted(u)
  /\ ProgramKept

-----------------------------------------------------------------------------
(* The steps, one by one. *)
LEMMA UpdateCases ==
  ASSUME [Next]_vars
  PROVE  \/ \E u \in Updates : Start(u)
         \/ \E u \in Updates : DownloadAsset(u) \/ RetryDownload(u) \/ WriteCandidate(u)
         \/ \E u \in Updates : DownloadChecksum(u) /\ ~Fail(u)
         \/ \E u \in Updates : Fail(u) /\ up[u].pc \in {"asset", "checksum", "write", "replace"}
         \/ \E u \in Updates : Replace(u) /\ release.windows
         \/ \E u \in Updates : Replace(u) /\ ~release.windows
         \/ \E u \in Updates : Killed(u)
         \/ \E u \in Updates : MoveAway(u)
         \/ \E u \in Updates : MoveAwayFails(u)
         \/ \E u \in Updates : MoveCandidate(u)
         \/ \E u \in Updates : MoveCandidateRefused(u)
         \/ \E u \in Updates : Restore(u)
         \/ \E u \in Updates : RestoreRefused(u)
         \/ \E u \in Updates : DeleteBackup(u)
         \/ \E u \in Updates : ScriptKilled(u)
         \/ UNCHANGED vars
  BY DEF Next, Install, Script, DownloadChecksum, DownloadFails, WriteFails, At

LEMMA InitUpdate == Init => UInv
<1> SUFFICES ASSUME Init PROVE UInv
  OBVIOUS
<1>1. TypeOK
  BY UpdaterAssumption, FaultsAssumption DEF Init, TypeOK
<1>2. OnlyVerifiedInstalled
  BY DEF Init, OnlyVerifiedInstalled
<1>3. \A u \in Updates : Carries(u) /\ Scripted(u)
  <2>1. ASSUME NEW u \in Updates
        PROVE  /\ up[u].pc = "idle" /\ script[u].at = "none" /\ script[u].tries = 0
    BY DEF Init
  <2>2. 0 < Tries
    BY UpdaterAssumption
  <2>3. QED BY <2>1, <2>2 DEF Carries, Scripted, At
<1>4. ProgramKept
  BY DEF Init, ProgramKept
<1>5. QED BY <1>1, <1>2, <1>3, <1>4 DEF UInv

Records ==
  [pc : {"idle", "asset", "checksum", "write", "replace", "done", "failed", "killed"},
   attempt : 1..Attempts, got : {"none", "new", "bad"},
   candidate : {"absent", "empty", "new", "bad"}]

Scripts ==
  [at : {"none", "away", "replace", "restore", "clean", "ended", "killed"}, tries : 0..Tries]

LEMMA Typed ==
  TypeOK <=>
    /\ release \in [windows : BOOLEAN, checksum : BOOLEAN]
    /\ {target, backup} \subseteq {"absent", "old", "new", "bad"} /\ faults \in 0..MaxFaults
    /\ up \in [Updates -> Records] /\ script \in [Updates -> Scripts]
  BY DEF TypeOK, Records, Scripts

(* An update that has got no script yet changes neither file nor script. *)
LEMMA Downloads ==
  ASSUME UInv, NEW u \in Updates, NEW record \in Records,
         up' = [up EXCEPT ![u] = record], UNCHANGED <<release, target, backup, script>>,
         faults' \in 0..MaxFaults, faults <= faults',
         up[u].pc # "done", record.pc # "done",
         record.pc \in {"checksum", "write", "replace"} => record.got # "none",
         release.checksum /\ record.pc \in {"write", "replace"} => record.got = "new",
         record.pc = "replace" => record.candidate = record.got,
         record.pc = "failed" => record.candidate = "absent"
  PROVE  UInv'
<1>1. /\ up \in [Updates -> Records] /\ TypeOK /\ OnlyVerifiedInstalled /\ ProgramKept
      /\ \A v \in Updates : Carries(v) /\ Scripted(v)
      /\ faults \in Nat /\ faults' \in Nat
  BY Typed, UpdaterAssumption DEF UInv
<1>2. up' \in [Updates -> Records] /\ up'[u] = record /\ \A v \in Updates \ {u} : up'[v] = up[v]
  BY <1>1
<1>3. TypeOK'
  BY <1>1, <1>2, Typed DEF TypeOK, Records
<1>4. ASSUME NEW v \in Updates PROVE Carries(v)' /\ Scripted(v)'
  <2>1. Scripted(v)'
    BY <1>1 DEF Scripted
  <2>2. CASE v = u
    <3>1. script[u].at = "none"
      BY <1>1 DEF Carries, At
    <3>2. QED BY <1>2, <2>1, <2>2, <3>1 DEF Carries, At
  <2>3. CASE v # u
    BY <1>1, <1>2, <2>1, <2>3 DEF Carries, At
  <2>4. QED BY <2>2, <2>3
<1>5. ProgramKept'
  BY <1>1 DEF ProgramKept, Sole, Stage
<1>6. OnlyVerifiedInstalled'
  BY <1>1 DEF OnlyVerifiedInstalled
<1>7. QED BY <1>3, <1>4, <1>5, <1>6 DEF UInv

(* A line of a script: the files go where the script says, and where no    *)
(* other script is that is where they are.                                 *)
LEMMA ScriptSteps ==
  ASSUME UInv, NEW u \in Updates, NEW line \in Scripts, NEW record \in Records,
         script' = [script EXCEPT ![u] = line], up' = [up EXCEPT ![u] = record],
         UNCHANGED release,
         {target', backup'} \subseteq {"absent", "old", "new", "bad"},
         OnlyVerifiedInstalled',
         faults' \in 0..MaxFaults, faults <= faults',
         script[u].at # "none", line.at # "none",
         record.pc = up[u].pc, record.got = up[u].got,
         line.at \in {"away", "replace", "restore"} =>
           record.candidate = up[u].candidate /\ script[u].at \in {"away", "replace"},
         line.at = "away" => line.tries < Tries,
         line.at = "restore" => faults' >= 1,
         Sole(u) /\ Stage(u) => Stage(u)',
         faults' = 0 /\ target' = "absent" => \E v \in Updates : script'[v].at = "replace"
  PROVE  UInv'
<1>1. /\ up \in [Updates -> Records] /\ script \in [Updates -> Scripts] /\ TypeOK
      /\ ProgramKept /\ \A v \in Updates : Carries(v) /\ Scripted(v)
      /\ faults \in Nat /\ faults' \in Nat
  BY Typed, UpdaterAssumption DEF UInv
<1>2. /\ up' \in [Updates -> Records] /\ up'[u] = record
      /\ script' \in [Updates -> Scripts] /\ script'[u] = line
      /\ \A v \in Updates \ {u} : up'[v] = up[v] /\ script'[v] = script[v]
  BY <1>1
<1>3. TypeOK'
  BY <1>1, <1>2, Typed DEF TypeOK, Records, Scripts
<1>4. ASSUME NEW v \in Updates PROVE Carries(v)' /\ Scripted(v)'
  <2>1. CASE v = u
    <3>1. up[u].pc = "done" /\ release.windows
      BY <1>1 DEF Carries, At
    <3>2. Carries(u)'
      BY <1>1, <1>2, <3>1 DEF Carries, At
    <3>3. Scripted(u)'
      BY <1>2 DEF Scripted
    <3>4. QED BY <2>1, <3>2, <3>3
  <2>2. CASE v # u
    BY <1>1, <1>2, <2>2 DEF Carries, Scripted, At
  <2>3. QED BY <2>1, <2>2
<1>5. ProgramKept'
  <2>1. \E v \in Updates : script'[v].at # "none"
    BY <1>2
  <2>2. ASSUME NEW v \in Updates, script'[v].at # "none", Sole(v)' PROVE Stage(v)'
    <3>1. v = u
      BY <1>2, <2>2 DEF Sole
    <3>2. Sole(u)
      BY <1>2, <2>2, <3>1 DEF Sole
    <3>3. Stage(u)
      BY <1>1, <3>2 DEF ProgramKept
    <3>4. QED BY <3>1, <3>2, <3>3
  <2>3. QED BY <2>1, <2>2 DEF ProgramKept
<1>6. QED BY <1>3, <1>4, <1>5 DEF UInv

(* On Unix the program is replaced at once, and there is no script.        *)
LEMMA Renames ==
  ASSUME UInv, NEW u \in Updates, Replace(u), ~release.windows
  PROVE  UInv'
<1>1. /\ up \in [Updates -> Records] /\ script \in [Updates -> Scripts] /\ TypeOK
      /\ OnlyVerifiedInstalled /\ ProgramKept /\ \A v \in Updates : Carries(v) /\ Scripted(v)
  BY Typed DEF UInv
<1>2. /\ target' = up[u].candidate /\ up' = [up EXCEPT ![u].pc = "done", ![u].candidate = "absent"]
      /\ UNCHANGED <<release, backup, faults, script>> /\ up[u].pc = "replace"
  BY DEF Replace, At
<1>3. \A v \in Updates : script[v].at = "none"
  BY <1>1 DEF Carries
<1>4. target' \in {"new", "bad"} /\ (release.checksum => target' = "new")
  <2>1. up[u].candidate = up[u].got /\ up[u].got # "none" /\ (release.checksum => up[u].got = "new")
    BY <1>1, <1>2 DEF Carries, At
  <2>2. up[u].got \in {"none", "new", "bad"}
    BY <1>1 DEF Records
  <2>3. QED BY <1>2, <2>1, <2>2
<1>5. TypeOK' /\ OnlyVerifiedInstalled'
  <2>1. up' \in [Updates -> Records]
    BY <1>1, <1>2 DEF Records
  <2>2. TypeOK'
    BY <1>1, <1>2, <1>4, <2>1, Typed DEF TypeOK, Records, Scripts
  <2>3. QED BY <1>1, <1>2, <1>4, <2>2 DEF OnlyVerifiedInstalled
<1>6. ASSUME NEW v \in Updates PROVE Carries(v)' /\ Scripted(v)'
  <2>1. Scripted(v)'
    BY <1>1, <1>2 DEF Scripted
  <2>2. CASE v = u
    <3>1. /\ up'[u].pc = "done" /\ up'[u].got = up[u].got
      BY <1>1, <1>2 DEF Records
    <3>2. QED BY <1>1, <1>2, <1>3, <2>1, <2>2, <3>1 DEF Carries, At
  <2>3. CASE v # u
    BY <1>1, <1>2, <2>1, <2>3 DEF Carries, At
  <2>4. QED BY <2>2, <2>3
<1>7. ProgramKept'
  <2>1. \A v \in Updates : script'[v].at = "none"
    BY <1>2, <1>3
  <2>2. target' # "absent" /\ release' = release
    BY <1>2, <1>4
  <2>3. ~release'.windows
    BY <2>2, Zenon
  <2>4. QED BY <2>1, <2>2, <2>3 DEF ProgramKept
<1>8. QED BY <1>5, <1>6, <1>7 DEF UInv

(* On Windows a script is started, which nothing has come before if it is  *)
(* the only one.                                                           *)
LEMMA StartsScript ==
  ASSUME UInv, NEW u \in Updates, Replace(u), release.windows
  PROVE  UInv'
<1>1. /\ up \in [Updates -> Records] /\ script \in [Updates -> Scripts] /\ TypeOK
      /\ OnlyVerifiedInstalled /\ ProgramKept /\ \A v \in Updates : Carries(v) /\ Scripted(v)
  BY Typed DEF UInv
<1>2. /\ script' = [script EXCEPT ![u].at = "away"] /\ up' = [up EXCEPT ![u].pc = "done"]
      /\ UNCHANGED <<release, target, backup, faults>> /\ up[u].pc = "replace"
  BY DEF Replace, At, Detached
<1>3. /\ script'[u].at = "away" /\ script'[u].tries = script[u].tries
      /\ up'[u].pc = "done" /\ up'[u].got = up[u].got /\ up'[u].candidate = up[u].candidate
      /\ \A v \in Updates \ {u} : up'[v] = up[v] /\ script'[v] = script[v]
      /\ script[u].at = "none"
  <2>1. script[u].at = "none"
    BY <1>1, <1>2 DEF Carries, At
  <2>2. QED BY <1>1, <1>2, <2>1 DEF Records, Scripts
<1>4. TypeOK'
  <2>1. up' \in [Updates -> Records] /\ script' \in [Updates -> Scripts]
    BY <1>1, <1>2 DEF Records, Scripts
  <2>2. QED BY <1>1, <1>2, <2>1, Typed DEF TypeOK, Records, Scripts
<1>5. OnlyVerifiedInstalled'
  BY <1>1, <1>2 DEF OnlyVerifiedInstalled
<1>6. ASSUME NEW v \in Updates PROVE Carries(v)' /\ Scripted(v)'
  <2>1. CASE v = u
    BY <1>1, <1>2, <1>3, <2>1 DEF Carries, Scripted, At
  <2>2. CASE v # u
    BY <1>1, <1>2, <1>3, <2>2 DEF Carries, Scripted, At
  <2>3. QED BY <2>1, <2>2
<1>7. ProgramKept'
  <2>1. ASSUME NEW v \in Updates, script'[v].at # "none", Sole(v)' PROVE Stage(v)'
    <3>1. v = u
      BY <1>3, <2>1 DEF Sole
    <3>2. \A w \in Updates : script[w].at = "none"
      BY <1>3, <2>1, <3>1 DEF Sole
    <3>3. target = "old" /\ backup = "absent"
      BY <1>1, <3>2 DEF ProgramKept
    <3>4. QED BY <1>2, <1>3, <3>1, <3>3 DEF Stage
  <2>2. faults' = 0 /\ target' = "absent" => \E v \in Updates : script'[v].at = "replace"
    <3>1. SUFFICES ASSUME faults = 0, target = "absent"
                   PROVE  \E v \in Updates : script'[v].at = "replace"
      BY <1>2
    <3>2. PICK v \in Updates : script[v].at = "replace"
      BY <1>1, <3>1 DEF ProgramKept
    <3>3. QED BY <1>3, <3>2
  <2>3. QED BY <1>3, <2>1, <2>2 DEF ProgramKept
<1>8. QED BY <1>4, <1>5, <1>6, <1>7 DEF UInv

(* Every step keeps the invariant. *)
LEMMA UpdateStep == UInv /\ [Next]_vars => UInv'
<1> SUFFICES ASSUME UInv, [Next]_vars PROVE UInv'
  OBVIOUS
<1>0. /\ up \in [Updates -> Records] /\ script \in [Updates -> Scripts] /\ TypeOK
      /\ OnlyVerifiedInstalled /\ ProgramKept /\ \A v \in Updates : Carries(v) /\ Scripted(v)
      /\ faults \in 0..MaxFaults /\ MaxFaults \in Nat /\ faults \in Nat
      /\ {target, backup} \subseteq {"absent", "old", "new", "bad"}
  BY Typed, FaultsAssumption DEF UInv
<1>a. UNCHANGED faults => faults' \in 0..MaxFaults /\ faults <= faults'
  BY <1>0
<1>b. 1 \in 1..Attempts
  BY UpdaterAssumption
<1>1. ASSUME NEW u \in Updates, Start(u) PROVE UInv'
  <2> DEFINE record == [up[u] EXCEPT !.pc = "asset", !.candidate = "empty"]
  <2>1. record \in Records /\ record.pc = "asset" /\ up[u].pc = "idle"
    BY <1>0, <1>1 DEF Records, Start, At
  <2>2. up' = [up EXCEPT ![u] = record]
    BY <1>0, <1>1 DEF Start
  <2> HIDE DEF record
  <2>3. UNCHANGED <<release, target, backup, script, faults>>
    BY <1>1 DEF Start
  <2>4. QED BY <1>a, <2>1, <2>2, <2>3, Downloads
<1>2. ASSUME NEW u \in Updates, DownloadAsset(u) PROVE UInv'
  <2>1. PICK got \in {"new", "bad"}, pc \in {"checksum", "write"} :
          /\ up' = [up EXCEPT ![u].pc = pc, ![u].got = got, ![u].attempt = 1]
          /\ release.checksum => pc = "checksum"
    BY <1>2 DEF DownloadAsset
  <2> DEFINE record == [up[u] EXCEPT !.pc = pc, !.got = got, !.attempt = 1]
  <2>2. record \in Records /\ record.got = got /\ record.pc = pc
    BY <1>0, <1>b DEF Records
  <2>3. up' = [up EXCEPT ![u] = record]
    BY <1>0, <2>1
  <2>4. up[u].pc = "asset" /\ UNCHANGED <<release, target, backup, script, faults>>
    BY <1>2 DEF DownloadAsset, At
  <2> HIDE DEF record
  <2>5. release.checksum /\ record.pc \in {"write", "replace"} => record.got = "new"
    BY <2>1, <2>2
  <2>6. /\ record.pc # "done" /\ record.pc # "replace" /\ record.pc # "failed"
        /\ record.got # "none"
    BY <2>2
  <2>7. QED BY <1>a, <2>2, <2>3, <2>4, <2>5, <2>6, Downloads
<1>3. ASSUME NEW u \in Updates, RetryDownload(u) PROVE UInv'
  <2> DEFINE record == [up[u] EXCEPT !.attempt = @ + 1]
  <2>1. /\ record \in Records /\ record.pc = up[u].pc /\ record.got = up[u].got
        /\ up[u].pc \in {"asset", "checksum"}
    BY <1>0, <1>3, UpdaterAssumption DEF Records, RetryDownload, MayRetry
  <2>2. up' = [up EXCEPT ![u] = record]
    BY <1>0, <1>3 DEF RetryDownload
  <2>3. record.pc = "checksum" => record.got # "none"
    BY <1>0, <2>1 DEF Carries
  <2>4. UNCHANGED <<release, target, backup, script, faults>>
    BY <1>3 DEF RetryDownload
  <2> HIDE DEF record
  <2>5. record.pc \notin {"write", "replace", "failed", "done"} /\ up[u].pc # "done"
    BY <2>1
  <2>6. QED BY <1>a, <2>1, <2>2, <2>3, <2>4, <2>5, Downloads
<1>4. ASSUME NEW u \in Updates, WriteCandidate(u) PROVE UInv'
  <2> DEFINE record == [up[u] EXCEPT !.pc = "replace", !.candidate = up[u].got]
  <2>1. up[u].pc = "write" /\ up[u].got # "none" /\ (release.checksum => up[u].got = "new")
    BY <1>0, <1>4 DEF Carries, WriteCandidate, At
  <2>2. /\ record \in Records /\ record.pc = "replace" /\ record.got = up[u].got
        /\ record.candidate = up[u].got
    BY <1>0, <2>1 DEF Records
  <2>3. up' = [up EXCEPT ![u] = record]
    BY <1>0, <1>4 DEF WriteCandidate, Extracted
  <2>4. UNCHANGED <<release, target, backup, script, faults>>
    BY <1>4 DEF WriteCandidate
  <2> HIDE DEF record
  <2>5. QED BY <1>a, <2>1, <2>2, <2>3, <2>4, Downloads
<1>5. ASSUME NEW u \in Updates, DownloadChecksum(u), ~Fail(u) PROVE UInv'
  <2>1. PICK sums \in {"published", "other"} :
          /\ verifyChecksum(up[u].got, sums)
          /\ up' = [up EXCEPT ![u].pc = "write", ![u].attempt = 1]
          /\ UNCHANGED <<release, target, backup, script, faults>>
    BY <1>5 DEF DownloadChecksum
  <2> DEFINE record == [up[u] EXCEPT !.pc = "write", !.attempt = 1]
  <2>2. record \in Records /\ record.pc = "write" /\ record.got = "new"
    <3>1. up[u].got = "new"
      BY <2>1 DEF verifyChecksum
    <3>2. QED BY <1>0, <1>b, <3>1 DEF Records
  <2>3. up' = [up EXCEPT ![u] = record]
    BY <1>0, <2>1
  <2>4. up[u].pc = "checksum" /\ UNCHANGED <<release, target, backup, script, faults>>
    BY <1>5, <2>1 DEF DownloadChecksum, At
  <2> HIDE DEF record
  <2>5. QED BY <1>a, <2>2, <2>3, <2>4, Downloads
<1>6. ASSUME NEW u \in Updates, Fail(u), up[u].pc \in {"asset", "checksum", "write", "replace"}
      PROVE  UInv'
  <2> DEFINE record == [up[u] EXCEPT !.pc = "failed", !.candidate = "absent"]
  <2>1. record \in Records /\ record.pc = "failed" /\ record.candidate = "absent"
    BY <1>0 DEF Records
  <2>2. up' = [up EXCEPT ![u] = record]
    BY <1>0, <1>6 DEF Fail, CleanedUp
  <2>3. UNCHANGED <<release, target, backup, script, faults>>
    BY <1>6 DEF Fail
  <2> HIDE DEF record
  <2>4. QED BY <1>a, <1>6, <2>1, <2>2, <2>3, Downloads
<1>7. ASSUME NEW u \in Updates, Killed(u) PROVE UInv'
  <2> DEFINE record == [up[u] EXCEPT !.pc = "killed"]
  <2>1. record \in Records /\ record.pc = "killed"
    BY <1>0 DEF Records
  <2>2. up' = [up EXCEPT ![u] = record] /\ up[u].pc # "done"
    BY <1>0, <1>7 DEF Killed, Working
  <2>3. faults' \in 0..MaxFaults /\ faults <= faults'
    BY <1>0, <1>7 DEF Killed, Fault
  <2>4. UNCHANGED <<release, target, backup, script>>
    BY <1>7 DEF Killed, Fault
  <2> HIDE DEF record
  <2>5. QED BY <2>1, <2>2, <2>3, <2>4, Downloads
<1>8. ASSUME NEW u \in Updates, MoveAway(u) PROVE UInv'
  <2> DEFINE line == [script[u] EXCEPT !.at = "replace"]
  <2>1. line \in Scripts /\ line.at = "replace" /\ script[u].at = "away"
    BY <1>0, <1>8 DEF Scripts, MoveAway, Line
  <2>2. script' = [script EXCEPT ![u] = line] /\ script'[u] = line
    BY <1>0, <1>8 DEF MoveAway, Goto, AfterAway
  <2>3. up' = [up EXCEPT ![u] = up[u]]
    BY <1>0, <1>8 DEF MoveAway
  <2>4. Stage(u) => Stage(u)'
    BY <1>8, <2>1, <2>2 DEF Stage, MoveAway
  <2>5. OnlyVerifiedInstalled'
    BY <1>0, <1>8 DEF OnlyVerifiedInstalled, MoveAway
  <2>6. UNCHANGED <<release, faults>> /\ {target', backup'} \subseteq {"absent", "old", "new", "bad"}
    BY <1>0, <1>8 DEF MoveAway
  <2>7. up[u] \in Records
    BY <1>0
  <2> HIDE DEF line
  <2>8. QED BY <1>a, <2>1, <2>2, <2>3, <2>4, <2>5, <2>6, <2>7, ScriptSteps
<1>9. ASSUME NEW u \in Updates, MoveAwayFails(u) PROVE UInv'
  <2> DEFINE line == [script[u] EXCEPT
                        !.tries = @ + 1,
                        !.at = IF script[u].tries + 1 = Tries THEN "ended" ELSE @]
  <2>1. script[u].at = "away" /\ script[u].tries < Tries
    BY <1>0, <1>9 DEF MoveAwayFails, Line, Scripted
  <2>2. /\ line \in Scripts
        /\ line.at = IF script[u].tries + 1 = Tries THEN "ended" ELSE "away"
        /\ line.tries = script[u].tries + 1
    <3>1. script[u].tries + 1 \in 0..Tries /\ script[u] \in Scripts
      BY <1>0, <2>1, UpdaterAssumption DEF Scripts
    <3>2. CASE script[u].tries + 1 = Tries
      BY <2>1, <3>1, <3>2 DEF Scripts
    <3>3. CASE script[u].tries + 1 # Tries
      BY <2>1, <3>1, <3>3 DEF Scripts
    <3>4. QED BY <3>2, <3>3
  <2>3. script' = [script EXCEPT ![u] = line] /\ script'[u] = line
    BY <1>0, <1>9 DEF MoveAwayFails
  <2>4. up' = [up EXCEPT ![u] = up[u]]
    BY <1>0, <1>9 DEF MoveAwayFails
  <2>5. line.at = "away" => line.tries < Tries
    BY <1>0, <2>1, <2>2, UpdaterAssumption DEF Scripts
  <2>6. line.at \in {"away", "ended"}
    BY <2>2
  <2> HIDE DEF line
  <2>7. Stage(u) => Stage(u)'
    BY <1>9, <2>1, <2>3, <2>6 DEF Stage, MoveAwayFails
  <2>8. faults' = 0 /\ target' = "absent" => \E v \in Updates : script'[v].at = "replace"
    <3>1. SUFFICES ASSUME faults = 0, target = "absent"
                   PROVE  \E v \in Updates : script'[v].at = "replace"
      BY <1>9 DEF MoveAwayFails
    <3>2. PICK v \in Updates : script[v].at = "replace"
      BY <1>0, <3>1 DEF ProgramKept
    <3>3. QED BY <1>0, <2>1, <2>3, <3>2
  <2>9. OnlyVerifiedInstalled'
    BY <1>0, <1>9 DEF OnlyVerifiedInstalled, MoveAwayFails
  <2>10. UNCHANGED <<release, target, backup, faults>> /\ up[u] \in Records
    BY <1>0, <1>9 DEF MoveAwayFails
  <2>11. {target', backup'} \subseteq {"absent", "old", "new", "bad"}
    BY <1>0, <2>10
  <2>12. QED
    BY <1>a, <2>1, <2>2, <2>3, <2>4, <2>5, <2>6, <2>7, <2>8, <2>9, <2>10, <2>11, ScriptSteps
<1>10. ASSUME NEW u \in Updates, MoveCandidate(u) PROVE UInv'
  <2> DEFINE line == [script[u] EXCEPT !.at = "clean"]
             record == [up[u] EXCEPT !.candidate = "absent"]
  <2>1. line \in Scripts /\ line.at = "clean" /\ script[u].at = "replace"
    BY <1>0, <1>10 DEF Scripts, MoveCandidate, Line
  <2>2. script' = [script EXCEPT ![u] = line] /\ script'[u] = line
    BY <1>0, <1>10 DEF MoveCandidate, Goto
  <2>3. /\ up' = [up EXCEPT ![u] = record] /\ record \in Records
        /\ record.pc = up[u].pc /\ record.got = up[u].got
    BY <1>0, <1>10 DEF MoveCandidate, Records
  <2>4. target' \in {"new", "bad"} /\ (release.checksum => target' = "new")
    <3>1. /\ up[u].candidate = up[u].got /\ up[u].got # "none"
          /\ release.checksum => up[u].got = "new"
      BY <1>0, <2>1 DEF Carries, At
    <3>2. up[u].got \in {"none", "new", "bad"}
      BY <1>0 DEF Records
    <3>3. QED BY <1>10, <3>1, <3>2 DEF MoveCandidate
  <2>5. Stage(u) => Stage(u)'
    BY <1>10, <2>1, <2>2, <2>4 DEF Stage, MoveCandidate
  <2>6. OnlyVerifiedInstalled'
    BY <1>0, <1>10, <2>4 DEF OnlyVerifiedInstalled, MoveCandidate
  <2>7. UNCHANGED <<release, faults>> /\ {target', backup'} \subseteq {"absent", "old", "new", "bad"}
    BY <1>0, <1>10, <2>4 DEF MoveCandidate
  <2> HIDE DEF line, record
  <2>8. QED BY <1>a, <2>1, <2>2, <2>3, <2>4, <2>5, <2>6, <2>7, ScriptSteps
<1>11. ASSUME NEW u \in Updates, MoveCandidateRefused(u) PROVE UInv'
  <2> DEFINE line == [script[u] EXCEPT !.at = "restore"]
  <2>1. line \in Scripts /\ line.at = "restore" /\ script[u].at = "replace"
    BY <1>0, <1>11 DEF Scripts, MoveCandidateRefused, Line
  <2>2. script' = [script EXCEPT ![u] = line] /\ script'[u] = line
    BY <1>0, <1>11 DEF MoveCandidateRefused, Goto, AfterRefusal
  <2>3. up' = [up EXCEPT ![u] = up[u]]
    BY <1>0, <1>11 DEF MoveCandidateRefused
  <2>4. faults' \in 0..MaxFaults /\ faults <= faults' /\ faults' >= 1 /\ faults' # 0
    BY <1>0, <1>11 DEF MoveCandidateRefused, Fault
  <2>5. Stage(u) => Stage(u)'
    BY <1>11, <2>1, <2>2 DEF Stage, MoveCandidateRefused
  <2>6. OnlyVerifiedInstalled'
    BY <1>0, <1>11 DEF OnlyVerifiedInstalled, MoveCandidateRefused
  <2> HIDE DEF line
  <2>7. QED BY <1>0, <1>11, <2>1, <2>2, <2>3, <2>4, <2>5, <2>6, ScriptSteps
            DEF MoveCandidateRefused
<1>12. ASSUME NEW u \in Updates, Restore(u) \/ RestoreRefused(u) PROVE UInv'
  <2> DEFINE line == [script[u] EXCEPT !.at = "ended"]
  <2>1. line \in Scripts /\ line.at = "ended" /\ script[u].at = "restore" /\ faults >= 1
    BY <1>0, <1>12 DEF Scripts, Restore, RestoreRefused, Line, Scripted
  <2>2. script' = [script EXCEPT ![u] = line] /\ script'[u] = line
    BY <1>0, <1>12 DEF Restore, RestoreRefused, Goto
  <2>3. up' = [up EXCEPT ![u] = up[u]] /\ UNCHANGED release
    BY <1>0, <1>12 DEF Restore, RestoreRefused
  <2>4. faults' \in 0..MaxFaults /\ faults <= faults' /\ faults' # 0
    BY <1>0, <1>12, <2>1 DEF Restore, RestoreRefused, Fault
  <2>5. Stage(u) => Stage(u)'
    <3>1. CASE Restore(u)
      BY <2>1, <2>2, <3>1 DEF Stage, Restore
    <3>2. CASE RestoreRefused(u)
      <4>1. faults' >= 2 /\ UNCHANGED <<target, backup>>
        BY <1>0, <2>1, <3>2 DEF RestoreRefused, Fault
      <4>2. QED BY <2>1, <2>2, <4>1 DEF Stage
    <3>3. QED BY <1>12, <3>1, <3>2
  <2>6. OnlyVerifiedInstalled' /\ {target', backup'} \subseteq {"absent", "old", "new", "bad"}
    BY <1>0, <1>12 DEF OnlyVerifiedInstalled, Restore, RestoreRefused
  <2> HIDE DEF line
  <2>7. QED BY <1>0, <2>1, <2>2, <2>3, <2>4, <2>5, <2>6, ScriptSteps
<1>13. ASSUME NEW u \in Updates, DeleteBackup(u) PROVE UInv'
  <2> DEFINE line == [script[u] EXCEPT !.at = "ended"]
  <2>1. line \in Scripts /\ line.at = "ended" /\ script[u].at = "clean"
    BY <1>0, <1>13 DEF Scripts, DeleteBackup, Line
  <2>2. script' = [script EXCEPT ![u] = line] /\ script'[u] = line
    BY <1>0, <1>13 DEF DeleteBackup, Goto
  <2>3. up' = [up EXCEPT ![u] = up[u]]
    BY <1>0, <1>13 DEF DeleteBackup
  <2>4. Stage(u) => Stage(u)'
    BY <1>13, <2>1, <2>2 DEF Stage, DeleteBackup
  <2>5. faults' = 0 /\ target' = "absent" => \E v \in Updates : script'[v].at = "replace"
    <3>1. SUFFICES ASSUME faults = 0, target = "absent"
                   PROVE  \E v \in Updates : script'[v].at = "replace"
      BY <1>13 DEF DeleteBackup
    <3>2. PICK v \in Updates : script[v].at = "replace"
      BY <1>0, <3>1 DEF ProgramKept
    <3>3. QED BY <1>0, <2>1, <2>2, <3>2
  <2>6. OnlyVerifiedInstalled'
    BY <1>0, <1>13 DEF OnlyVerifiedInstalled, DeleteBackup
  <2>7. UNCHANGED <<release, faults>> /\ {target', backup'} \subseteq {"absent", "old", "new", "bad"}
    BY <1>0, <1>13 DEF DeleteBackup
  <2>8. up[u] \in Records
    BY <1>0
  <2> HIDE DEF line
  <2>9. QED BY <1>a, <2>1, <2>2, <2>3, <2>4, <2>5, <2>6, <2>7, <2>8, ScriptSteps
<1>14. ASSUME NEW u \in Updates, ScriptKilled(u) PROVE UInv'
  <2> DEFINE line == [script[u] EXCEPT !.at = "killed"]
  <2>1. /\ line \in Scripts /\ line.at = "killed"
        /\ script[u].at \in {"away", "replace", "restore", "clean"}
    BY <1>0, <1>14 DEF Scripts, ScriptKilled
  <2>2. script' = [script EXCEPT ![u] = line] /\ script'[u] = line
    BY <1>0, <1>14 DEF ScriptKilled, Goto
  <2>3. up' = [up EXCEPT ![u] = up[u]]
    BY <1>0, <1>14 DEF ScriptKilled
  <2>4. faults' \in 0..MaxFaults /\ faults <= faults' /\ faults' # 0
    BY <1>0, <1>14 DEF ScriptKilled, Fault
  <2>5. Stage(u) => Stage(u)'
    BY <1>14, <2>1, <2>2 DEF Stage, ScriptKilled
  <2>6. OnlyVerifiedInstalled'
    BY <1>0, <1>14 DEF OnlyVerifiedInstalled, ScriptKilled
  <2> HIDE DEF line
  <2>7. QED BY <1>0, <1>14, <2>1, <2>2, <2>3, <2>4, <2>5, <2>6, ScriptSteps DEF ScriptKilled
<1>15. CASE UNCHANGED vars
  <2>1. UNCHANGED <<release, target, backup, up, script, faults>>
    BY <1>15 DEF vars
  <2>2. TypeOK' /\ OnlyVerifiedInstalled'
    BY <1>0, <2>1 DEF TypeOK, OnlyVerifiedInstalled
  <2>3. \A v \in Updates : Carries(v)' /\ Scripted(v)'
    BY <1>0, <2>1 DEF Carries, Scripted, At
  <2>4. ProgramKept'
    BY <1>0, <2>1 DEF ProgramKept, Sole, Stage
  <2>5. QED BY <2>2, <2>3, <2>4 DEF UInv
<1>16. QED
  BY UpdateCases, <1>1, <1>2, <1>3, <1>4, <1>5, <1>6, <1>7, <1>8, <1>9, <1>10, <1>11, <1>12,
     <1>13, <1>14, <1>15, Renames, StartsScript

LEMMA UpdateInvariance == Spec => []UInv
  BY InitUpdate, UpdateStep, PTL DEF Spec

(* An update that reports an error has changed nothing, the old program is *)
(* in the backup while there is none, and when all is over there is one    *)
(* although a move was refused (Install, updater.go:161-221, and the       *)
(* script it leaves behind on Windows, 230-291).                           *)
THEOREM UpdateKeepsProgram == Spec => []Inv
<1>1. UInv => Inv
  <2> SUFFICES ASSUME UInv PROVE Inv
    OBVIOUS
  <2>1. TypeOK /\ ProgramKept /\ \A u \in Updates : Carries(u) /\ Scripted(u)
    BY DEF UInv
  <2>2. FailedLeavesNothing
    BY <2>1 DEF FailedLeavesNothing, Carries, At
  <2>3. OneScript => \/ \A u \in Updates : script[u].at = "none"
                     \/ \E u \in Updates : script[u].at # "none" /\ Sole(u) /\ Stage(u)
    BY <2>1 DEF OneScript, Sole, ProgramKept
  <2>4. BackupWhileAbsent
    <3>1. SUFFICES ASSUME OneScript, target = "absent" PROVE backup = "old"
      BY DEF BackupWhileAbsent
    <3>2. PICK u \in Updates : script[u].at # "none" /\ Stage(u)
      BY <2>1, <2>3, <3>1 DEF ProgramKept
    <3>3. script[u].at \in {"away", "replace", "restore", "clean", "ended", "killed"}
      BY <2>1, <3>2 DEF TypeOK
    <3>4. QED BY <3>1, <3>2, <3>3 DEF Stage
  <2>5. RefusalCostsNothing
    <3>1. SUFFICES ASSUME Over, faults = 0 \/ (faults = 1 /\ OneScript),
                          \A u \in Updates : script[u].at # "killed", target = "absent"
                   PROVE  FALSE
      BY DEF RefusalCostsNothing
    <3>2. \A u \in Updates : script[u].at \in {"none", "ended"}
      BY <3>1 DEF Over
    <3>3. CASE faults = 0
      BY <2>1, <3>1, <3>2, <3>3 DEF ProgramKept
    <3>4. CASE faults = 1 /\ OneScript
      <4>1. PICK u \in Updates : script[u].at # "none" /\ Stage(u)
        BY <2>1, <2>3, <3>1, <3>4 DEF ProgramKept
      <4>2. faults >= 2
        BY <3>1, <3>2, <4>1 DEF Stage
      <4>3. QED BY <3>4, <4>2
    <3>5. QED BY <3>1, <3>3, <3>4
  <2>6. QED BY <2>1, <2>2, <2>4, <2>5 DEF Inv
<1>2. QED BY <1>1, UpdateInvariance, PTL

(* With a checksum file nothing else than what was published is ever the   *)
(* program or its backup, however many updates run at a time               *)
(* (verifyChecksum, updater.go:394-407).                                   *)
THEOREM UpdateInstallsVerified == Spec => []OnlyVerifiedInstalled
<1>1. UInv => OnlyVerifiedInstalled
  BY DEF UInv
<1>2. QED BY <1>1, UpdateInvariance, PTL

(***************************************************************************)
(* The tools.                                                              *)
(***************************************************************************)

(* A directory that has or had the final name: its process is past it.     *)
Past(d) ==
  \/ d[2] < proc[d[1]].calls
  \/ d[2] = proc[d[1]].calls /\ proc[d[1]].pc \in {"idle", "ready"}

(* What a process keeps for itself: a call, what it has written, and its   *)
(* temporary directory until it is renamed or removed.                     *)
Private(p) ==
  /\ ~In(p, "idle") => proc[p].calls >= 1
  /\ In(p, "mark") => dir[Mine(p)] = Written
  /\ In(p, "activate") => dir[Mine(p)] = Complete
  /\ Mine(p) \in temps =>
       proc[p].pc \in {"write", "mark", "activate", "revalidate", "crashed", "idle"}

(* Nobody writes in a directory that has had the final name. *)
Activated ==
  /\ final # None => Past(final)
  /\ \A p \in Procs : proc[p].open # None => Past(proc[p].open)
  /\ \A p \in Procs : In(p, "removing") => proc[p].open # None
  /\ \A d \in temps : d[2] <= proc[d[1]].calls

(* Without a fault, what is missing is being made, or is being removed by  *)
(* somebody who will make it.                                              *)
Repaired ==
  faults = 0 =>
    /\ final = None /\ (\E p \in Procs : In(p, "ready")) =>
         \E p \in Procs : proc[p].pc \in {"mkdir", "write", "mark", "activate"}
    /\ final # None /\ dir[final] # Complete =>
         \E p \in Procs : In(p, "removing") /\ proc[p].open = final

Race ==
  /\ \E p, q \in Procs : Procs = {p, q}
  /\ faults = 0 /\ \A p \in Procs : proc[p].calls <= 1

(* Of two that race, the one that removes a cache removes the other's,     *)
(* which has what it wants, and one that has lost finds a cache.           *)
Raced ==
  Race => \A p \in Procs :
    /\ In(p, "removing") => proc[p].open = final
    /\ In(p, "revalidate") => final # None
    /\ ~In(p, "failed")

CacheIndInv == CacheTypeOK /\ (\A p \in Procs : Private(p)) /\ Activated /\ Repaired /\ Raced

-----------------------------------------------------------------------------
(* The steps, one by one, by what they do to a process and to what it      *)
(* shares with the others.                                                 *)
Others(p) == \A q \in Procs \ {p} : proc'[q] = proc[q]
Turns(p, place) ==
  /\ proc'[p].pc = place /\ proc'[p].calls = proc[p].calls /\ proc'[p].open = proc[p].open
  /\ Others(p)
Still == UNCHANGED <<dir, final, temps, faults>>
DirsBut(e) == \A d \in Dirs \ {e} : dir'[d] = dir[d]
Cleaned(p) == temps' = temps \ {Mine(p)} /\ DirsBut(Mine(p)) /\ UNCHANGED final

ProcType == [pc : Places, calls : 0..MaxCalls, seen : SUBSET Entries, open : Dirs \cup {None}]
DirType == [Entries -> {"absent", "payload", "damaged"}]

LEMMA DirTypes == Empty \in DirType /\ Complete \in DirType /\ Written \in DirType
BY DEF Empty, Complete, Written, DirType, Entries, Marker

LEMMA MineIsDir ==
  ASSUME CacheTypeOK, NEW p \in Procs, proc[p].calls >= 1
  PROVE  Mine(p) \in Dirs
BY CacheAssumption DEF CacheTypeOK, Mine, Dirs

LEMMA ContinueTurns ==
  ASSUME CacheTypeOK, NEW p \in Procs, NEW place \in Places, Continue(p, place)
  PROVE  Turns(p, place) /\ proc' \in [Procs -> ProcType]
BY DEF CacheTypeOK, Continue, Turns, Others, ProcType

LEMMA CleanUpCleans ==
  ASSUME CacheTypeOK, NEW p \in Procs, CleanUp(p), UNCHANGED final
  PROVE  /\ Cleaned(p)
         /\ dir' \in [Dirs -> DirType] /\ temps' \subseteq Dirs /\ final' \notin temps'
BY DirTypes DEF CacheTypeOK, CleanUp, Cleaned, DirsBut, DirType

(* What each step does, under a name for the way it ends. *)
Locates(p) ==
  /\ In(p, "idle") /\ proc'[p].pc = "validate" /\ proc'[p].calls = proc[p].calls + 1
  /\ proc'[p].open = None /\ Others(p) /\ Still
Returns(p) ==
  /\ proc[p].pc \in {"ready", "crashed", "failed"} /\ Turns(p, "idle") /\ Still
Reads(p) ==
  /\ proc[p].pc \in {"validate", "revalidate"} /\ Turns(p, proc[p].pc) /\ Still
Rejects(p) ==
  /\ In(p, "validate") /\ Turns(p, "remove") /\ Still
Accepts(p) ==
  /\ proc[p].pc \in {"validate", "revalidate"} /\ final # None
  /\ Turns(p, "ready") /\ Cleaned(p) /\ UNCHANGED faults
Loses(p) ==
  /\ In(p, "revalidate") /\ (final # None => dir[final] # Complete)
  /\ Turns(p, "failed") /\ Cleaned(p) /\ UNCHANGED faults
Opens(p) ==
  /\ In(p, "remove") /\ proc'[p].pc = (IF final = None THEN "mkdir" ELSE "removing")
  /\ proc'[p].calls = proc[p].calls /\ proc'[p].open = final /\ Others(p) /\ Still
Unlinks(p) ==
  /\ In(p, "removing") /\ DirsBut(proc[p].open) /\ UNCHANGED <<final, temps, proc, faults>>
Removes(p) ==
  /\ In(p, "removing") /\ dir[proc[p].open] = Empty /\ final' = None
  /\ Turns(p, "mkdir") /\ UNCHANGED <<dir, temps, faults>>
FindsAnother(p) ==
  /\ In(p, "removing") /\ dir[proc[p].open] = Empty /\ final # None /\ dir[final] # Empty
  /\ Turns(p, "failed") /\ Still
Temp(p) ==
  /\ In(p, "mkdir") /\ temps' = temps \cup {Mine(p)}
  /\ Turns(p, "write") /\ UNCHANGED <<dir, final, faults>>
Writes(p) ==
  /\ In(p, "write") /\ DirsBut(Mine(p)) /\ (proc[p].calls >= 1 => dir'[Mine(p)] = Written)
  /\ Turns(p, "mark") /\ UNCHANGED <<final, temps, faults>>
Marks(p) ==
  /\ In(p, "mark") /\ DirsBut(Mine(p)) /\ (proc[p].calls >= 1 /\ dir[Mine(p)] = Written => dir'[Mine(p)] = Complete)
  /\ Turns(p, "activate") /\ UNCHANGED <<final, temps, faults>>
Activates(p) ==
  /\ In(p, "activate") /\ final' = Mine(p) /\ temps' = temps \ {Mine(p)}
  /\ Turns(p, "ready") /\ UNCHANGED <<dir, faults>>
LosesRace(p) ==
  /\ In(p, "activate") /\ final # None /\ Turns(p, "revalidate") /\ Still
Breaks(p) ==
  /\ Busy(p) /\ faults' > 0 /\ Turns(p, "failed") /\ Cleaned(p)
Dies(p) ==
  /\ Busy(p) /\ faults' > 0 /\ Turns(p, "crashed") /\ UNCHANGED <<dir, final, temps>>
Damages ==
  /\ final # None /\ DirsBut(final) /\ faults' > 0 /\ UNCHANGED <<final, temps, proc>>

ProcessMoves(p) ==
  \/ Locates(p) \/ Returns(p) \/ Reads(p) \/ Rejects(p)
  \/ Accepts(p) \/ Loses(p) \/ Opens(p) \/ Unlinks(p)
  \/ Removes(p) \/ FindsAnother(p) \/ Temp(p) \/ Writes(p)
  \/ Marks(p) \/ Activates(p) \/ LosesRace(p) \/ Breaks(p)
  \/ Dies(p)

LEMMA CacheCases ==
  ASSUME CacheTypeOK, [CacheNext]_cacheVars
  PROVE  UNCHANGED cacheVars \/ (\E p \in Procs : ProcessMoves(p)) \/ Damages
<1> USE DEF ProcessMoves
<1>1. ASSUME NEW p \in Procs, Locate(p)
      PROVE  Locates(p)
  BY <1>1 DEF Locate, Locates, In, Others, Still, CacheTypeOK
<1>2. ASSUME NEW p \in Procs, SetUseSystem(p) \/ Restart(p)
      PROVE  Returns(p)
  <2>1. Continue(p, "idle") /\ proc[p].pc \in {"ready", "crashed", "failed"} /\ Still
    BY <1>2 DEF SetUseSystem, Restart, In, Still
  <2> QED  BY <2>1, ContinueTurns DEF Returns, Places
<1>3. ASSUME NEW p \in Procs, NEW e \in Entries, Validate(p, e)
      PROVE  Reads(p) \/ Accepts(p)
  <2>1. CASE proc[p].seen \cup {e} = Entries
    <3>1. /\ proc[p].pc \in {"validate", "revalidate"} /\ final # None
          /\ CleanUp(p) /\ Continue(p, "ready") /\ UNCHANGED <<final, faults>>
      BY <1>3, <2>1 DEF Validate, Matches
    <3> QED  BY <3>1, ContinueTurns, CleanUpCleans DEF Accepts, Places
  <2>2. CASE proc[p].seen \cup {e} # Entries
    BY <1>3, <2>2 DEF Validate, Reads, Turns, Others, Still, CacheTypeOK
  <2> QED  BY <2>1, <2>2
<1>4. ASSUME NEW p \in Procs, NEW e \in Entries, Invalid(p, e)
      PROVE  Rejects(p) \/ Loses(p)
  <2>1. CASE In(p, "validate")
    <3>1. Continue(p, "remove") /\ Still
      BY <1>4, <2>1 DEF Invalid, Still
    <3> QED  BY <2>1, <3>1, ContinueTurns DEF Rejects, Places
  <2>2. CASE ~In(p, "validate")
    <3>1. /\ In(p, "revalidate") /\ ~Matches(e) /\ CleanUp(p) /\ Continue(p, "failed")
          /\ UNCHANGED <<final, faults>>
      BY <1>4, <2>2 DEF Invalid, In
    <3>2. final # None => dir[final] # Complete
      BY <3>1 DEF Matches, Complete
    <3> QED  BY <3>1, <3>2, ContinueTurns, CleanUpCleans DEF Loses, Places
  <2> QED  BY <2>1, <2>2
<1>5. ASSUME NEW p \in Procs, OpenOld(p)
      PROVE  Opens(p)
  BY <1>5 DEF OpenOld, Opens, In, Others, Still, CacheTypeOK
<1>6. ASSUME NEW p \in Procs, NEW e \in Entries, Unlink(p, e)
      PROVE  Unlinks(p)
  BY <1>6 DEF Unlink, Unlinks, DirsBut, CacheTypeOK
<1>7. ASSUME NEW p \in Procs, RemoveDir(p)
      PROVE  Removes(p) \/ FindsAnother(p)
  <2>1. CASE final = None \/ dir[final] = Empty
    <3>1. /\ In(p, "removing") /\ dir[proc[p].open] = Empty /\ final' = None
          /\ Continue(p, "mkdir") /\ UNCHANGED <<dir, temps, faults>>
      BY <1>7, <2>1 DEF RemoveDir
    <3> QED  BY <3>1, ContinueTurns DEF Removes, Places
  <2>2. CASE final # None /\ dir[final] # Empty
    <3>1. In(p, "removing") /\ dir[proc[p].open] = Empty /\ Continue(p, "failed") /\ Still
      BY <1>7, <2>2 DEF RemoveDir, Still
    <3> QED  BY <2>2, <3>1, ContinueTurns DEF FindsAnother, Places
  <2> QED  BY <2>1, <2>2
<1>8. ASSUME NEW p \in Procs, MakeTemp(p)
      PROVE  Temp(p)
  <2>1. Continue(p, "write")
    BY <1>8 DEF MakeTemp
  <2> QED  BY <1>8, <2>1, ContinueTurns DEF MakeTemp, Temp, Places
<1>9. ASSUME NEW p \in Procs, WriteFiles(p)
      PROVE  Writes(p)
  <2>1. Continue(p, "mark") /\ dir' = [dir EXCEPT ![Mine(p)] = Written]
    BY <1>9 DEF WriteFiles, AfterFiles
  <2>2. DirsBut(Mine(p)) /\ (proc[p].calls >= 1 => dir'[Mine(p)] = Written)
    BY <2>1, MineIsDir DEF DirsBut, CacheTypeOK
  <2> QED  BY <1>9, <2>1, <2>2, ContinueTurns DEF WriteFiles, Writes, Places
<1>10. ASSUME NEW p \in Procs, WriteMarker(p)
       PROVE  Marks(p)
  <2>1. Continue(p, "activate") /\ dir' = [dir EXCEPT ![Mine(p)][Marker] = "payload"]
    BY <1>10 DEF WriteMarker
  <2>2. DirsBut(Mine(p))
    BY <2>1 DEF DirsBut, CacheTypeOK
  <2>3. proc[p].calls >= 1 /\ dir[Mine(p)] = Written => dir'[Mine(p)] = Complete
    BY <2>1, MineIsDir DEF Written, Complete, Entries, Marker, CacheTypeOK
  <2> QED  BY <1>10, <2>1, <2>2, <2>3, ContinueTurns DEF WriteMarker, Marks, Places
<1>11. ASSUME NEW p \in Procs, Activate(p)
       PROVE  Activates(p)
  <2>1. Continue(p, "ready")
    BY <1>11 DEF Activate
  <2> QED  BY <1>11, <2>1, ContinueTurns DEF Activate, Activates, Renamed, Places
<1>12. ASSUME NEW p \in Procs, ActivateFails(p)
       PROVE  LosesRace(p)
  <2>1. Continue(p, "revalidate")
    BY <1>12 DEF ActivateFails, AfterLostRace
  <2> QED  BY <1>12, <2>1, ContinueTurns DEF ActivateFails, LosesRace, Still, Places
<1>13. ASSUME NEW p \in Procs, Fails(p)
       PROVE  Breaks(p)
  <2>1. Continue(p, "failed") /\ CleanUp(p) /\ UNCHANGED final
    BY <1>13 DEF Fails
  <2>2. Busy(p) /\ faults' > 0
    BY <1>13 DEF Fails, Busy, Fault, CacheTypeOK
  <2> QED  BY <2>1, <2>2, ContinueTurns, CleanUpCleans DEF Breaks, Places
<1>14. ASSUME NEW p \in Procs, Crash(p)
       PROVE  Dies(p)
  <2>1. Continue(p, "crashed") /\ Busy(p) /\ UNCHANGED <<dir, final, temps>>
    BY <1>14 DEF Crash
  <2>2. faults' > 0
    BY <1>14 DEF Crash, Fault, CacheTypeOK
  <2> QED  BY <2>1, <2>2, ContinueTurns DEF Dies, Places
<1>15. ASSUME NEW e \in Entries, Damage(e)
       PROVE  Damages
  BY <1>15 DEF Damage, Damages, DirsBut, Fault, CacheTypeOK
<1> QED
  BY <1>1, <1>2, <1>3, <1>4, <1>5, <1>6, <1>7, <1>8, <1>9, <1>10, <1>11, <1>12, <1>13, <1>14, <1>15
    DEF CacheNext, Call

-----------------------------------------------------------------------------
LEMMA CacheTypesStep ==
  ASSUME CacheIndInv, [CacheNext]_cacheVars
  PROVE  CacheTypeOK'
<1> USE DEF CacheIndInv
<1>1. ASSUME NEW p \in Procs, proc[p].calls >= 1
      PROVE  Mine(p) \in Dirs /\ Mine(p)[1] = p /\ Mine(p)[2] = proc[p].calls
  BY <1>1, MineIsDir DEF Mine
<1>2. ASSUME NEW p \in Procs, Busy(p)
      PROVE  proc[p].calls >= 1 /\ Mine(p) # final
  <2>1. proc[p].calls >= 1
    BY <1>2 DEF Private, Busy, In
  <2>2. final = Mine(p) => Past(Mine(p))
    BY <1>1, <2>1 DEF Activated, None, Dirs
  <2>3. ~Past(Mine(p))
    BY <1>1, <1>2, <2>1 DEF Past, Busy, CacheTypeOK
  <2> QED  BY <2>1, <2>2, <2>3
<1>3. ASSUME NEW p \in Procs, NEW place \in Places, Continue(p, place)
      PROVE  proc' \in [Procs -> ProcType]
  BY <1>3, ContinueTurns
<1>4. ASSUME NEW p \in Procs, CleanUp(p), UNCHANGED final
      PROVE  dir' \in [Dirs -> DirType] /\ temps' \subseteq Dirs /\ final' \notin temps'
  BY <1>4, CleanUpCleans
<1>5. ASSUME Fault
      PROVE  faults' \in 0..MaxFaults
  BY <1>5, FaultsAssumption DEF Fault, CacheTypeOK
<1>6. CASE UNCHANGED cacheVars
  BY <1>6 DEF cacheVars, CacheTypeOK
<1>7. ASSUME NEW p \in Procs, Locate(p)
      PROVE  CacheTypeOK'
  BY <1>7, CacheAssumption DEF Locate, CacheTypeOK, Places
<1>8. ASSUME NEW p \in Procs, SetUseSystem(p) \/ Restart(p)
      PROVE  CacheTypeOK'
  BY <1>3, <1>8 DEF SetUseSystem, Restart, CacheTypeOK, Places, ProcType
<1>9. ASSUME NEW p \in Procs, NEW e \in Entries, Validate(p, e)
      PROVE  CacheTypeOK'
  <2>1. CASE proc[p].seen \cup {e} = Entries
    BY <1>3, <1>4, <1>9, <2>1 DEF Validate, CacheTypeOK, Places, ProcType, DirType
  <2>2. CASE proc[p].seen \cup {e} # Entries
    BY <1>9, <2>2 DEF Validate, CacheTypeOK
  <2> QED  BY <2>1, <2>2
<1>10. ASSUME NEW p \in Procs, NEW e \in Entries, Invalid(p, e)
       PROVE  CacheTypeOK'
  <2>1. CASE In(p, "validate")
    BY <1>3, <1>10, <2>1 DEF Invalid, CacheTypeOK, Places, ProcType
  <2>2. CASE ~In(p, "validate")
    BY <1>3, <1>4, <1>10, <2>2 DEF Invalid, CacheTypeOK, Places, ProcType, DirType
  <2> QED  BY <2>1, <2>2
<1>11. ASSUME NEW p \in Procs, OpenOld(p)
       PROVE  CacheTypeOK'
  <2>1. proc' = [proc EXCEPT ![p] =
          [@ EXCEPT !.pc = IF final = None THEN "mkdir" ELSE "removing", !.open = final]]
    BY <1>11 DEF OpenOld, CacheTypeOK
  <2>2. (IF final = None THEN "mkdir" ELSE "removing") \in Places
    BY DEF Places
  <2>3. proc' \in [Procs -> ProcType]
    BY <2>1, <2>2 DEF CacheTypeOK, ProcType
  <2> QED  BY <1>11, <2>3 DEF OpenOld, CacheTypeOK, ProcType
<1>12. ASSUME NEW p \in Procs, NEW e \in Entries, Unlink(p, e)
       PROVE  CacheTypeOK'
  <2>1. proc[p].open \in Dirs
    BY <1>12 DEF Unlink, Activated, CacheTypeOK
  <2> QED  BY <1>12, <2>1 DEF Unlink, CacheTypeOK
<1>13. ASSUME NEW p \in Procs, RemoveDir(p)
       PROVE  CacheTypeOK'
  <2>1. None \notin temps
    BY DEF CacheTypeOK, Dirs, None
  <2> QED  BY <1>3, <1>13, <2>1 DEF RemoveDir, CacheTypeOK, Places, ProcType
<1>14. ASSUME NEW p \in Procs, MakeTemp(p)
       PROVE  CacheTypeOK'
  <2>1. Mine(p) \in Dirs /\ Mine(p) # final
    BY <1>1, <1>2, <1>14 DEF MakeTemp, Busy, In
  <2> QED  BY <1>3, <1>14, <2>1 DEF MakeTemp, CacheTypeOK, Places, ProcType
<1>15. ASSUME NEW p \in Procs, WriteFiles(p)
       PROVE  CacheTypeOK'
  BY <1>3, <1>15, DirTypes DEF WriteFiles, AfterFiles, CacheTypeOK, Places, ProcType, DirType
<1>16. ASSUME NEW p \in Procs, WriteMarker(p)
       PROVE  CacheTypeOK'
  BY <1>3, <1>16 DEF WriteMarker, CacheTypeOK, Places, ProcType
<1>17. ASSUME NEW p \in Procs, Activate(p)
       PROVE  CacheTypeOK'
  <2>1. Mine(p) \in Dirs
    BY <1>1, <1>2, <1>17 DEF Activate, Busy, In
  <2> QED  BY <1>3, <1>17, <2>1 DEF Activate, Renamed, CacheTypeOK, Places, ProcType
<1>18. ASSUME NEW p \in Procs, ActivateFails(p)
       PROVE  CacheTypeOK'
  BY <1>3, <1>18 DEF ActivateFails, AfterLostRace, CacheTypeOK, Places, ProcType
<1>19. ASSUME NEW p \in Procs, Fails(p)
       PROVE  CacheTypeOK'
  BY <1>3, <1>4, <1>5, <1>19 DEF Fails, CacheTypeOK, Places, ProcType, DirType
<1>20. ASSUME NEW p \in Procs, Crash(p)
       PROVE  CacheTypeOK'
  BY <1>3, <1>5, <1>20 DEF Crash, CacheTypeOK, Places, ProcType
<1>21. ASSUME NEW e \in Entries, Damage(e)
       PROVE  CacheTypeOK'
  BY <1>5, <1>21 DEF Damage, CacheTypeOK
<1> QED
  BY <1>6, <1>7, <1>8, <1>9, <1>10, <1>11, <1>12, <1>13, <1>14, <1>15, <1>16, <1>17, <1>18,
     <1>19, <1>20, <1>21 DEF CacheNext, Call

(* A process never gets back to a directory that it has activated, or left *)
(* behind in an earlier call.                                              *)
LEMMA PastStep ==
  ASSUME CacheIndInv, [CacheNext]_cacheVars, NEW d \in Dirs
  PROVE  /\ Past(d) => Past(d)'
         /\ d[2] <= proc[d[1]].calls => d[2] <= proc'[d[1]].calls
<1> USE DEF CacheIndInv, ProcessMoves, Turns, Others, In
<1>1. d[1] \in Procs /\ d[2] \in Nat /\ d[2] >= 1 /\ proc[d[1]].calls \in Nat
  BY CacheAssumption DEF Dirs, CacheTypeOK
<1>2. CASE UNCHANGED cacheVars \/ Damages
  BY <1>2 DEF cacheVars, Damages, Past
<1>3. ASSUME NEW p \in Procs, ProcessMoves(p)
      PROVE  /\ Past(d) => Past(d)'
             /\ d[2] <= proc[d[1]].calls => d[2] <= proc'[d[1]].calls
  <2>1. CASE d[1] # p
    <3>1. proc'[d[1]] = proc[d[1]]
      BY <1>1, <1>3, <2>1 DEF Locates, Returns, Reads, Rejects, Accepts, Loses, Opens, Unlinks,
         Removes, FindsAnother, Temp, Writes, Marks, Activates, LosesRace, Breaks, Dies
    <3> QED  BY <3>1 DEF Past
  <2>2. CASE d[1] = p /\ Locates(p)
    BY <1>1, <2>2 DEF Locates, Past
  <2>3. CASE d[1] = p /\ ~Locates(p)
    <3>1. /\ proc'[p].calls = proc[p].calls
          /\ proc[p].pc \in {"idle", "ready"} => proc'[p].pc \in {"idle", "ready"}
      BY <1>3, <2>3 DEF Returns, Reads, Rejects, Accepts, Loses, Opens, Unlinks,
         Removes, FindsAnother, Temp, Writes, Marks, Activates, LosesRace, Breaks, Dies, Busy
    <3> QED  BY <2>3, <3>1 DEF Past
  <2> QED  BY <2>1, <2>2, <2>3
<1> QED  BY <1>2, <1>3, CacheCases

(* A process at work is not past its directory, so nobody else writes in   *)
(* it, and it does not write in one that is activated.                     *)
LEMMA BusyIsApart ==
  ASSUME CacheIndInv, NEW p \in Procs, Busy(p)
  PROVE  /\ proc[p].calls >= 1 /\ Mine(p) \in Dirs /\ ~Past(Mine(p)) /\ Mine(p) # final
         /\ \A q \in Procs : Mine(p) # proc[q].open
         /\ \A q \in Procs \ {p} : Mine(q) # Mine(p)
<1> USE DEF CacheIndInv
<1>1. proc[p].calls >= 1
  BY DEF Private, Busy, In
<1>2. Mine(p) \in Dirs
  BY <1>1, MineIsDir
<1>3. ~Past(Mine(p))
  BY <1>1, <1>2 DEF Past, Busy, Mine, CacheTypeOK
<1>4. Mine(p) # None
  BY <1>2 DEF Dirs, None
<1> QED  BY <1>1, <1>2, <1>3, <1>4 DEF Activated, Mine

LEMMA PrivateStep ==
  ASSUME CacheIndInv, [CacheNext]_cacheVars, NEW q \in Procs
  PROVE  Private(q)'
<1> USE DEF CacheIndInv, ProcessMoves, Turns, Others, In, Still, Cleaned,
         Locates, Returns, Reads, Rejects, Accepts, Loses, Opens, Unlinks, Removes,
         FindsAnother, Temp, Writes, Marks, Activates, LosesRace, Breaks, Dies
<1>1. CASE UNCHANGED cacheVars
  BY <1>1 DEF cacheVars, Private, Mine, Written, Complete
<1>2. CASE Damages
  <2>1. Busy(q) => dir'[Mine(q)] = dir[Mine(q)]
    BY <1>2, BusyIsApart DEF Damages, DirsBut
  <2> QED  BY <1>2, <2>1 DEF Damages, Private, Mine, Busy
<1>3. ASSUME NEW p \in Procs, ProcessMoves(p), p # q
      PROVE  Private(q)'
  <2>1. proc'[q] = proc[q]
    BY <1>3
  <2>2. Mine(q)' = Mine(q)
    BY <2>1 DEF Mine
  <2>3. Mine(q) \in temps' => Mine(q) \in temps
    BY <1>3 DEF Mine
  <2>4. Busy(q) => dir'[Mine(q)] = dir[Mine(q)]
    BY <1>3, BusyIsApart DEF DirsBut
  <2> QED  BY <2>1, <2>2, <2>3, <2>4 DEF Private, Busy
<1>4. ASSUME ProcessMoves(q)
      PROVE  Private(q)'
  <2>1. CASE Locates(q)
    <3>1. Mine(q)' \notin temps
      BY <2>1 DEF Mine, Activated, CacheTypeOK
    <3> QED  BY <2>1, <3>1 DEF Private, CacheTypeOK
  <2>2. CASE ~Locates(q)
    <3>1. Mine(q)' = Mine(q)
      BY <1>4, <2>2 DEF Mine
    <3>2. CASE Returns(q) \/ Reads(q) \/ Rejects(q) \/ Opens(q) \/ FindsAnother(q) \/ LosesRace(q)
      BY <3>1, <3>2 DEF Private
    <3>3. CASE Accepts(q) \/ Loses(q) \/ Breaks(q)
      BY <3>1, <3>3, BusyIsApart DEF Private, Busy
    <3>4. CASE Unlinks(q) \/ Removes(q) \/ Temp(q)
      BY <3>1, <3>4, BusyIsApart DEF Private, Busy
    <3>5. CASE Writes(q) \/ Marks(q) \/ Activates(q) \/ Dies(q)
      BY <3>1, <3>5, BusyIsApart DEF Private, Busy, Written, Complete
    <3> QED  BY <1>4, <2>2, <3>2, <3>3, <3>4, <3>5
  <2> QED  BY <2>1, <2>2
<1> QED  BY <1>1, <1>2, <1>3, <1>4, CacheCases

LEMMA ActivatedStep ==
  ASSUME CacheIndInv, [CacheNext]_cacheVars
  PROVE  Activated'
<1> USE DEF CacheIndInv, ProcessMoves, Turns, Others, In, Still, Cleaned,
         Locates, Returns, Reads, Rejects, Accepts, Loses, Opens, Unlinks, Removes,
         FindsAnother, Temp, Writes, Marks, Activates, LosesRace, Breaks, Dies
<1>1. final' # None => Past(final)'
  <2>1. CASE final' = final
    BY <2>1, PastStep DEF Activated, CacheTypeOK
  <2>2. ASSUME NEW p \in Procs, Activates(p)
        PROVE  Past(final)'
    BY <2>2 DEF Past, Mine
  <2>3. CASE \E p \in Procs : Removes(p)
    BY <2>3
  <2>4. final' = final \/ \E p \in Procs : Removes(p) \/ Activates(p)
    BY CacheCases DEF cacheVars, Damages
  <2> QED  BY <2>1, <2>2, <2>3, <2>4
<1>2. ASSUME NEW q \in Procs
      PROVE  /\ proc'[q].open # None => Past(proc[q].open)'
             /\ In(q, "removing")' => proc'[q].open # None
  <2>1. \/ proc'[q].open = proc[q].open /\ (proc'[q].pc = "removing" => proc[q].pc = "removing")
        \/ proc'[q].open = None /\ proc'[q].pc # "removing"
        \/ proc'[q].open = final /\ (proc'[q].pc = "removing" => final # None)
    BY CacheCases DEF cacheVars, Damages
  <2> QED  BY <2>1, PastStep DEF Activated, CacheTypeOK
<1>3. ASSUME NEW d \in temps'
      PROVE  d[2] <= proc'[d[1]].calls
  <2>1. d \in temps \/ \E p \in Procs : Temp(p) /\ d = Mine(p)
    BY <1>3, CacheCases DEF cacheVars, Damages
  <2>2. CASE d \in temps
    BY <2>2, PastStep DEF Activated, CacheTypeOK
  <2>3. ASSUME NEW p \in Procs, Temp(p), d = Mine(p)
        PROVE  d[2] <= proc'[d[1]].calls
    BY <2>3 DEF Mine, CacheTypeOK
  <2> QED  BY <2>1, <2>2, <2>3
<1> QED  BY <1>1, <1>2, <1>3 DEF Activated

LEMMA FaultsGrow ==
  ASSUME CacheIndInv, [CacheNext]_cacheVars, faults' = 0
  PROVE  /\ faults = 0 /\ ~Damages
         /\ \A p \in Procs : ~Breaks(p) /\ ~Dies(p)
<1>1. faults = faults' \/ faults' > 0
  BY CacheCases DEF CacheIndInv, ProcessMoves, cacheVars, Still, Damages,
       Locates, Returns, Reads, Rejects, Accepts, Loses, Opens, Unlinks, Removes,
       FindsAnother, Temp, Writes, Marks, Activates, LosesRace, Breaks, Dies
<1> QED  BY <1>1 DEF Breaks, Dies, Damages

LEMMA RepairedStep ==
  ASSUME CacheIndInv, [CacheNext]_cacheVars
  PROVE  Repaired'
<1> USE DEF CacheIndInv, ProcessMoves, Turns, Others, In, Still, Cleaned,
         Locates, Returns, Reads, Rejects, Accepts, Loses, Opens, Unlinks, Removes,
         FindsAnother, Temp, Writes, Marks, Activates, LosesRace, Breaks, Dies
<1> SUFFICES ASSUME faults' = 0
             PROVE  /\ final' = None /\ (\E p \in Procs : proc'[p].pc = "ready") =>
                         \E p \in Procs : proc'[p].pc \in {"mkdir", "write", "mark", "activate"}
                    /\ final' # None /\ dir'[final'] # Complete =>
                         \E p \in Procs : proc'[p].pc = "removing" /\ proc'[p].open = final'
  BY DEF Repaired, Complete
<1>1. faults = 0 /\ ~Damages /\ \A p \in Procs : ~Breaks(p) /\ ~Dies(p)
  BY FaultsGrow
<1>2. ASSUME NEW p \in Procs, Activates(p)
      PROVE  final' # None /\ dir'[final'] = Complete
  <2>1. Mine(p) \in Dirs
    BY <1>2, BusyIsApart DEF Busy
  <2> QED  BY <1>2, <2>1 DEF Private, Dirs, None
<1>3. (\E p \in Procs : Removes(p) \/ Activates(p)) \/ final' = final
  BY CacheCases DEF cacheVars, Damages
<1>4. ASSUME final' = None, NEW r \in Procs, proc'[r].pc = "ready"
      PROVE  \E p \in Procs : proc'[p].pc \in {"mkdir", "write", "mark", "activate"}
  <2>1. CASE \E p \in Procs : Removes(p)
    BY <2>1
  <2>2. CASE final = None
    <3>1. proc[r].pc = "ready"
      BY <1>1, <1>2, <1>4, <2>2, CacheCases DEF cacheVars
    <3>2. PICK p \in Procs : proc[p].pc \in {"mkdir", "write", "mark", "activate"}
      BY <1>1, <2>2, <3>1 DEF Repaired
    <3>3. proc'[p].pc \in {"mkdir", "write", "mark", "activate"}
      BY <1>1, <1>2, <1>4, <2>2, <3>2, CacheCases DEF cacheVars
    <3> QED  BY <3>3
  <2> QED  BY <1>2, <1>3, <1>4, <2>1, <2>2
<1>5. ASSUME final' # None, dir'[final'] # Complete
      PROVE  \E p \in Procs : proc'[p].pc = "removing" /\ proc'[p].open = final'
  <2>1. final' = final
    BY <1>2, <1>3, <1>5
  <2>2. final \in Dirs
    BY <1>5, <2>1 DEF CacheTypeOK
  <2>3. CASE \E p \in Procs : Unlinks(p) /\ proc[p].open = final
    BY <2>1, <2>3
  <2>4. CASE dir'[final] = dir[final]
    <3>1. PICK p \in Procs : proc[p].pc = "removing" /\ proc[p].open = final
      BY <1>1, <1>5, <2>1, <2>4 DEF Repaired
    <3>2. proc'[p].pc = "removing" /\ proc'[p].open = final
      BY <1>1, <1>5, <2>1, <3>1, CacheCases DEF cacheVars
    <3> QED  BY <2>1, <3>2
  <2>5. dir'[final] = dir[final] \/ \E p \in Procs : Unlinks(p) /\ proc[p].open = final
    <3>1. ASSUME NEW p \in Procs, ProcessMoves(p)
          PROVE  dir'[final] = dir[final] \/ (Unlinks(p) /\ proc[p].open = final)
      BY <1>1, <2>2, <3>1, BusyIsApart DEF Busy, DirsBut
    <3> QED  BY <1>1, <3>1, CacheCases DEF cacheVars
  <2> QED  BY <2>3, <2>4, <2>5
<1> QED  BY <1>4, <1>5

(* Of two that race, the one that removes a cache is alone: the other has  *)
(* returned from its only call.                                            *)
LEMMA RemoverIsAlone ==
  ASSUME CacheIndInv, Race, NEW p \in Procs, In(p, "removing"), NEW q \in Procs \ {p}
  PROVE  proc[q].pc \in {"idle", "ready"} /\ proc[q].calls = 1
<1> USE DEF CacheIndInv
<1>1. final = proc[p].open /\ final # None
  BY DEF Raced, Activated
<1>2. final \in Dirs /\ Past(final)
  BY <1>1 DEF Activated, CacheTypeOK
<1>3. /\ final[1] \in Procs /\ final[2] \in Nat /\ final[2] >= 1
      /\ proc[final[1]].calls \in Nat /\ proc[final[1]].calls <= 1
  BY <1>2, CacheAssumption DEF Dirs, Race, CacheTypeOK
<1>4. proc[final[1]].calls = 1 /\ proc[final[1]].pc \in {"idle", "ready"}
  BY <1>2, <1>3 DEF Past
<1>5. final[1] # p
  BY <1>4 DEF In
<1>6. final[1] = q
  BY <1>3, <1>5 DEF Race
<1> QED  BY <1>4, <1>6

LEMMA RacedStep ==
  ASSUME CacheIndInv, [CacheNext]_cacheVars
  PROVE  Raced'
<1> USE DEF CacheIndInv, ProcessMoves, Turns, Others, In, Still, Cleaned,
         Locates, Returns, Reads, Rejects, Accepts, Loses, Opens, Unlinks, Removes,
         FindsAnother, Temp, Writes, Marks, Activates, LosesRace, Breaks, Dies
<1> SUFFICES ASSUME Race', NEW p \in Procs
             PROVE  /\ proc'[p].pc = "removing" => proc'[p].open = final'
                    /\ proc'[p].pc = "revalidate" => final' # None
                    /\ proc'[p].pc # "failed"
  BY DEF Raced
<1>1. faults = 0 /\ ~Damages /\ \A q \in Procs : ~Breaks(q) /\ ~Dies(q)
  BY FaultsGrow DEF Race
<1>2. Race
  <2>1. \A q \in Procs : proc[q].calls <= proc'[q].calls /\ proc[q].calls \in Nat /\ proc'[q].calls \in Nat
    BY CacheCases, CacheTypesStep, CacheAssumption DEF CacheTypeOK, cacheVars, Damages
  <2> QED  BY <1>1, <2>1 DEF Race
<1>3. ASSUME NEW q \in Procs, Locates(q)
      PROVE  proc[q].calls = 0
  BY <1>3 DEF Race, CacheTypeOK
<1>4. ASSUME NEW q \in Procs, NEW r \in Procs, r # q, proc[q].pc = "removing"
      PROVE  proc[r].pc \in {"idle", "ready"} /\ ~Locates(r)
  BY <1>2, <1>3, <1>4, RemoverIsAlone
<1>5. proc'[p].pc = "removing" => proc'[p].open = final'
  <2>1. CASE proc[p].pc = "removing"
    <3>1. proc[p].open = final
      BY <1>2, <2>1 DEF Raced
    <3>2. ASSUME NEW q \in Procs, q # p, ProcessMoves(q)
          PROVE  final' = final /\ proc'[p] = proc[p]
      BY <1>4, <2>1, <3>2 DEF Busy
    <3>3. ASSUME ProcessMoves(p), proc'[p].pc = "removing"
          PROVE  final' = final /\ proc'[p].open = proc[p].open
      BY <1>1, <2>1, <3>3
    <3> QED  BY <1>1, <3>1, <3>2, <3>3, CacheCases DEF cacheVars
  <2>2. CASE proc[p].pc # "removing"
    BY <1>1, <2>2, CacheCases DEF cacheVars
  <2> QED  BY <2>1, <2>2
<1>6. proc'[p].pc = "revalidate" => final' # None
  <2>1. ASSUME NEW q \in Procs, Removes(q)
        PROVE  proc'[p].pc # "revalidate"
    BY <1>4, <2>1
  <2>2. ASSUME NEW q \in Procs, Activates(q)
        PROVE  final' # None
    BY <2>2, BusyIsApart DEF Busy, Dirs, None
  <2>3. ASSUME proc'[p].pc = "revalidate"
        PROVE  final # None
    BY <1>1, <1>2, <2>3, CacheCases DEF Raced, cacheVars
  <2>4. (\E q \in Procs : Removes(q) \/ Activates(q)) \/ final' = final
    BY CacheCases DEF cacheVars, Damages
  <2> QED  BY <2>1, <2>2, <2>3, <2>4
<1>7. proc'[p].pc # "failed"
  <2>1. ~Loses(p)
    <3>1. ASSUME Loses(p)
          PROVE  FALSE
      <4>1. proc[p].pc = "revalidate" /\ final # None /\ dir[final] # Complete
        BY <1>2, <3>1 DEF Raced
      <4>2. PICK q \in Procs : proc[q].pc = "removing"
        BY <1>1, <4>1 DEF Repaired
      <4> QED  BY <1>4, <4>1, <4>2
    <3> QED  BY <3>1
  <2>2. ~FindsAnother(p)
    BY <1>2 DEF Raced
  <2>3. proc[p].pc # "failed"
    BY <1>2 DEF Raced
  <2> QED  BY <1>1, <2>1, <2>2, <2>3, CacheCases DEF cacheVars
<1> QED  BY <1>5, <1>6, <1>7

LEMMA CacheInvariance == CacheSpec => []CacheIndInv
<1>1. CacheInit => CacheIndInv
  <2> SUFFICES ASSUME CacheInit
               PROVE  CacheIndInv
    OBVIOUS
  <2>1. CacheTypeOK
    BY DirTypes, FaultsAssumption, CacheAssumption DEF CacheInit, CacheTypeOK, Places, DirType
  <2>2. \A p \in Procs : proc[p].pc = "idle" /\ proc[p].open = None
    BY DEF CacheInit
  <2> QED
    BY <2>1, <2>2 DEF CacheInit, CacheIndInv, Private, Activated, Repaired, Raced, In, Mine
<1>2. CacheIndInv /\ [CacheNext]_cacheVars => CacheIndInv'
  BY CacheTypesStep, PrivateStep, ActivatedStep, RepairedStep, RacedStep DEF CacheIndInv
<1> QED  BY <1>1, <1>2, PTL DEF CacheSpec

(* Two processes that race for the cache are both served, a call that has  *)
(* returned leaves nothing behind, and no interleaving of any number of    *)
(* calls leaves half a cache (CacheInv, of Ensure, extract.go:53-124).     *)
THEOREM CacheIsWhole == CacheSpec => []CacheInv
<1>1. CacheIndInv => CacheInv
  <2> SUFFICES ASSUME CacheIndInv
               PROVE  CacheInv
    OBVIOUS
  <2> USE DEF CacheIndInv
  <2>1. BothServed
    BY DEF BothServed, Raced, Race
  <2>2. TempsCleaned
    BY DEF TempsCleaned, Private, In
  <2>3. NoPartialState
    <3>1. SUFFICES ASSUME faults = 0, \A p \in Procs : ~Busy(p), \E p \in Procs : In(p, "ready")
                   PROVE  Usable
      BY DEF NoPartialState
    <3>2. final # None /\ dir[final] = Complete
      BY <3>1 DEF Repaired, Busy, In
    <3> QED  BY <3>2 DEF Usable, Complete
  <2> QED  BY <2>1, <2>2, <2>3 DEF CacheInv
<1> QED  BY <1>1, CacheInvariance, PTL

(* Whatever fails, crashes or is damaged, a directory gets the final name  *)
(* only when all its files and its marker have been written (the rename of *)
(* Ensure, extract.go:115).                                                *)
THEOREM CacheActivatesWhole == CacheSpec => OnlyCompleteActivated
<1>1. CacheIndInv /\ [CacheNext]_cacheVars =>
        [final' # final /\ final' # None => dir[final'] = Complete]_cacheVars
  <2> SUFFICES ASSUME CacheIndInv, [CacheNext]_cacheVars, final' # final, final' # None
               PROVE  dir[final'] = Complete
    OBVIOUS
  <2>1. PICK p \in Procs : Activates(p)
    BY CacheCases DEF CacheIndInv, ProcessMoves, cacheVars, Damages, Still, Cleaned, Turns,
       Locates, Returns, Reads, Rejects, Accepts, Loses, Opens, Unlinks, Removes,
       FindsAnother, Temp, Writes, Marks, Activates, LosesRace, Breaks, Dies
  <2> QED  BY <2>1 DEF CacheIndInv, Activates, Private
<1> QED  BY <1>1, CacheInvariance, PTL DEF CacheSpec, OnlyCompleteActivated
=============================================================================
