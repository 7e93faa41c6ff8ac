------------------------------ MODULE Updater ------------------------------
(***************************************************************************)
(* The self-update: runUpdate of internal/cli/update.go and Client.Install *)
(* of internal/updater/updater.go, with the script that replaces the       *)
(* program on Windows while pgsync exits.  Several updates may run at a    *)
(* time, each with a candidate and a script of its own; the program and    *)
(* its backup are shared.                                                  *)
(*                                                                         *)
(* A file is "old" or "new" when it holds a whole program, "bad" when it   *)
(* holds something else, "absent" when it does not exist.                  *)
(***************************************************************************)
EXTENDS Faults

CONSTANTS
  Updates,      \* the runs of pgsync update
  Attempts,     \* downloadAttempts (3 in the code)
  Tries         \* how often the script tries to move the program (120)

ASSUME UpdaterAssumption ==
  Attempts \in Nat \ {0} /\ Tries \in Nat \ {0}

VARIABLES
  release,     \* windows, checksum (checksums.txt is published)
  target,      \* the program
  backup,      \* the program with the suffix .old
  up,          \* of each update: pc, attempt, got (the asset's bytes), candidate (its file)
  script       \* of each update: the line its script is at, tries

vars == <<release, target, backup, up, script, faults>>

TypeOK ==
  /\ release \in [windows : BOOLEAN, checksum : BOOLEAN]
  /\ {target, backup} \subseteq {"absent", "old", "new", "bad"} /\ faults \in 0..MaxFaults
  /\ up \in [Updates ->
       [pc : {"idle", "asset", "checksum", "write", "replace", "done", "failed", "killed"},
        attempt : 1..Attempts, got : {"none", "new", "bad"},
        candidate : {"absent", "empty", "new", "bad"}]]
  /\ script \in [Updates ->
       [at : {"none", "away", "replace", "restore", "clean", "ended", "killed"}, tries : 0..Tries]]

Init ==
  /\ release \in [windows : BOOLEAN, checksum : BOOLEAN]
  /\ target = "old" /\ backup = "absent" /\ faults = 0
  /\ up = [u \in Updates |-> [pc |-> "idle", attempt |-> 1, got |-> "none", candidate |-> "absent"]]
  /\ script = [u \in Updates |-> [at |-> "none", tries |-> 0]]

At(u, place) == up[u].pc = place
Working(u) == up[u].pc \in {"asset", "checksum", "write", "replace"}

(* Mutant: the candidate of a failed update stays. *)
LeftThere(u) == up[u].candidate

(* The deferred cleanup. *)
CleanedUp(u) == "absent"

Fail(u) ==
  /\ up' = [up EXCEPT ![u].pc = "failed", ![u].candidate = CleanedUp(u)]
  /\ UNCHANGED <<release, target, backup, script, faults>>

-----------------------------------------------------------------------------
(* Check finds a newer version, the user confirms, CreateTemp.             *)
Start(u) ==
  /\ At(u, "idle") /\ target = "old"
  /\ up' = [up EXCEPT ![u].pc = "asset", ![u].candidate = "empty"]
  /\ UNCHANGED <<release, target, backup, script, faults>>

(* Mutant: a checksum file without a line for the asset is good enough.    *)
Verified(got, sums) == sums = "published" => got = "new"

(* verifyChecksum finds the line of the asset, and it is the asset's.      *)
verifyChecksum(got, sums) == sums = "published" /\ got = "new"

(* What arrives may be something else: a proxy's page, a broken upload.    *)
(* Without checksums.txt it is taken as it is.                             *)
DownloadAsset(u) ==
  /\ At(u, "asset")
  /\ \E got \in {"new", "bad"} :
       up' = [up EXCEPT ![u].pc = IF release.checksum THEN "checksum" ELSE "write",
                        ![u].got = got, ![u].attempt = 1]
  /\ UNCHANGED <<release, target, backup, script, faults>>

DownloadChecksum(u) ==
  /\ At(u, "checksum")
  /\ \E sums \in {"published", "other"} :
       IF verifyChecksum(up[u].got, sums)
       THEN /\ up' = [up EXCEPT ![u].pc = "write", ![u].attempt = 1]
            /\ UNCHANGED <<release, target, backup, script, faults>>
       ELSE Fail(u)

MayRetry(u) == up[u].attempt < Attempts

(* A retryable error: the connection, a body that ends early, a busy       *)
(* server.                                                                 *)
RetryDownload(u) ==
  /\ up[u].pc \in {"asset", "checksum"} /\ MayRetry(u)
  /\ up' = [up EXCEPT ![u].attempt = @ + 1]
  /\ UNCHANGED <<release, target, backup, script, faults>>

(* The last attempt, another error, or the end of the context while it     *)
(* waits for the next attempt.                                             *)
DownloadFails(u) == up[u].pc \in {"asset", "checksum"} /\ Fail(u)

(* extractBinary takes the program out of an archive, whatever program it  *)
(* is, or a bare program as it is; what is no archive, or has no program,  *)
(* it refuses: WriteFails.                                                 *)
Extracted(u) == up[u].got

WriteCandidate(u) ==
  /\ At(u, "write")
  /\ up' = [up EXCEPT ![u].pc = "replace", ![u].candidate = Extracted(u)]
  /\ UNCHANGED <<release, target, backup, script, faults>>

WriteFails(u) == up[u].pc \in {"write", "replace"} /\ Fail(u)

(* Mutant: the script ends with the pgsync that started it. *)
NotDetached == "killed"

Detached == "away"

(* replaceExecutable renames on Unix; on Windows it only starts the script.*)
Replace(u) ==
  /\ At(u, "replace")
  /\ IF release.windows
     THEN /\ script' = [script EXCEPT ![u].at = Detached]
          /\ up' = [up EXCEPT ![u].pc = "done"]
          /\ UNCHANGED target
     ELSE /\ target' = up[u].candidate
          /\ up' = [up EXCEPT ![u].pc = "done", ![u].candidate = "absent"]
          /\ UNCHANGED script
  /\ UNCHANGED <<release, backup, faults>>

Killed(u) ==
  /\ Working(u) /\ Fault
  /\ up' = [up EXCEPT ![u].pc = "killed"]
  /\ UNCHANGED <<release, target, backup, script>>

-----------------------------------------------------------------------------
(* windowsReplaceScript *)
Line(u, place) == script[u].at = place
Goto(u, place) == script' = [script EXCEPT ![u].at = place]

AfterAway == "replace"

MoveAway(u) ==
  /\ Line(u, "away") /\ target # "absent"
  /\ backup' = target /\ target' = "absent"
  /\ Goto(u, AfterAway)
  /\ UNCHANGED <<release, up, faults>>

(* There is nothing to move, or a pgsync that still runs holds the file.   *)
MoveAwayFails(u) ==
  /\ Line(u, "away")
  /\ target = "absent" \/ \E v \in Updates : Working(v)
  /\ script' = [script EXCEPT ![u].tries = @ + 1,
                              ![u].at = IF script[u].tries + 1 = Tries THEN "ended" ELSE @]
  /\ UNCHANGED <<release, target, backup, up, faults>>

MoveCandidate(u) ==
  /\ Line(u, "replace")
  /\ target' = up[u].candidate
  /\ up' = [up EXCEPT ![u].candidate = "absent"]
  /\ Goto(u, "clean")
  /\ UNCHANGED <<release, backup, faults>>

(* Mutant: the script ends without putting the old program back. *)
NoRestore == "ended"

AfterRefusal == "restore"

MoveCandidateRefused(u) ==
  /\ Line(u, "replace") /\ Fault
  /\ Goto(u, AfterRefusal)
  /\ UNCHANGED <<release, target, backup, up>>

Restore(u) ==
  /\ Line(u, "restore")
  /\ IF backup = "absent" THEN UNCHANGED <<target, backup>>
     ELSE target' = backup /\ backup' = "absent"
  /\ Goto(u, "ended")
  /\ UNCHANGED <<release, up, faults>>

RestoreRefused(u) ==
  /\ Line(u, "restore") /\ Fault
  /\ Goto(u, "ended")
  /\ UNCHANGED <<release, target, backup, up>>

DeleteBackup(u) ==
  /\ Line(u, "clean")
  /\ backup' = "absent"
  /\ Goto(u, "ended")
  /\ UNCHANGED <<release, target, up, faults>>

ScriptKilled(u) ==
  /\ script[u].at \in {"away", "replace", "restore", "clean"} /\ Fault
  /\ Goto(u, "killed")
  /\ UNCHANGED <<release, target, backup, up>>

Install(u) ==
  \/ DownloadAsset(u) \/ DownloadChecksum(u) \/ RetryDownload(u) \/ DownloadFails(u)
  \/ WriteCandidate(u) \/ WriteFails(u) \/ Replace(u)

Script(u) ==
  \/ MoveAway(u) \/ MoveAwayFails(u) \/ MoveCandidate(u) \/ Restore(u) \/ DeleteBackup(u)

Next ==
  \E u \in Updates :
    \/ Start(u) \/ Install(u) \/ Killed(u)
    \/ Script(u) \/ MoveCandidateRefused(u) \/ RestoreRefused(u) \/ ScriptKilled(u)

Spec == Init /\ [][Next]_vars
FairSpec == Spec /\ \A u \in Updates : WF_vars(Install(u)) /\ WF_vars(Script(u))

-----------------------------------------------------------------------------
Over == \A u \in Updates : ~Working(u) /\ script[u].at \in {"none", "ended", "killed"}

(* A release with checksums never installs anything else. *)
OnlyVerifiedInstalled == release.checksum => target # "bad" /\ backup # "bad"

(* An update that reports an error has changed nothing and left nothing.   *)
FailedLeavesNothing ==
  \A u \in Updates : At(u, "failed") => up[u].candidate = "absent" /\ script[u].at = "none"

OneScript == \A u, v \in Updates : u # v => script[u].at = "none" \/ script[v].at = "none"

(* Between the two moves of a script, and after whatever ends it there,    *)
(* the old program is in the backup.  (Two scripts share one backup: with  *)
(* both at work the first may delete the backup of the second.)            *)
BackupWhileAbsent == OneScript /\ target = "absent" => backup = "old"

(* When all is over there is a program, although one move of a script was  *)
(* refused, or two scripts were at work.                                   *)
RefusalCostsNothing ==
  Over /\ (faults = 0 \/ (faults = 1 /\ OneScript)) /\ (\A u \in Updates : script[u].at # "killed")
    => target # "absent"

(* An update that fails has changed nothing, one that is under way can     *)
(* always be taken back, and in the end there is a program.                *)
Inv == TypeOK /\ FailedLeavesNothing /\ BackupWhileAbsent /\ RefusalCostsNothing

(* An update that reports success arrives, also when the script has still  *)
(* to do it, unless a pgsync that went on running kept the old program.    *)
SuccessArrives ==
  \A u \in Updates : At(u, "done") ~>
    target \in {"new", "bad"} \/ faults > 0 \/ script[u].tries = Tries
=============================================================================
