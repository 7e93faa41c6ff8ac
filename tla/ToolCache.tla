----------------------------- MODULE ToolCache -----------------------------
(***************************************************************************)
(* The cache of the embedded PostgreSQL tools: Extractor.Ensure of         *)
(* internal/engine/pgtools/extract.go, called by SelectingLocator          *)
(* (locate.go), in any number of pgsync processes that share one cache     *)
(* directory and take no lock.                                             *)
(*                                                                         *)
(* The directory named after the hash of the payload is looked up by name  *)
(* at every file system call, so it may be another one at the next.  A     *)
(* directory is written under a temporary name by one process and gets the *)
(* final name by a rename; what happens below the temporary name is seen   *)
(* by nobody else.                                                         *)
(***************************************************************************)
EXTENDS Faults

CONSTANTS
  Procs,       \* the processes
  Files,       \* the files of the payload, pg_dump and pg_restore among them
  MaxCalls     \* bound on the calls of Ensure of a process

ASSUME CacheAssumption == MaxCalls \in Nat

Marker == ".installed"
Entries == Files \cup {Marker}
None == <<>>
Dirs == Procs \X (1..MaxCalls)

VARIABLES
  dir,     \* what is in each directory: "absent", "payload", "damaged"
  final,   \* the directory that has the final name, or None
  temps,   \* the directories that have a temporary name
  proc     \* of each process: pc, the calls made, the files validated (seen)
           \* and the directory that RemoveAll has open (open)

cacheVars == <<dir, final, temps, proc, faults>>

Empty == [e \in Entries |-> "absent"]
Complete == [e \in Entries |-> "payload"]

Places == {"idle", "validate", "remove", "removing", "mkdir", "write", "mark", "activate",
           "revalidate", "ready", "failed", "crashed"}

CacheTypeOK ==
  /\ dir \in [Dirs -> [Entries -> {"absent", "payload", "damaged"}]]
  /\ final \in Dirs \cup {None} /\ temps \subseteq Dirs /\ faults \in 0..MaxFaults
  /\ final \notin temps
  /\ proc \in [Procs -> [pc : Places, calls : 0..MaxCalls, seen : SUBSET Entries,
                         open : Dirs \cup {None}]]

CacheInit ==
  /\ dir = [d \in Dirs |-> Empty] /\ final = None /\ temps = {} /\ faults = 0
  /\ proc = [p \in Procs |-> [pc |-> "idle", calls |-> 0, seen |-> {}, open |-> None]]

Mine(p) == <<p, proc[p].calls>>
In(p, place) == proc[p].pc = place
Continue(p, place) == proc' = [proc EXCEPT ![p].pc = place, ![p].seen = {}]

(* The deferred removal of the temporary directory. *)
CleanUp(p) ==
  /\ temps' = temps \ {Mine(p)}
  /\ dir' = IF Mine(p) \in temps THEN [dir EXCEPT ![Mine(p)] = Empty] ELSE dir

-----------------------------------------------------------------------------
(* SelectingLocator.ensure: the first call extracts, and its paths are     *)
(* kept until the mode is changed, which makes the next call extract.      *)
Locate(p) ==
  /\ In(p, "idle") /\ proc[p].calls < MaxCalls
  /\ proc' = [proc EXCEPT ![p].pc = "validate", ![p].calls = @ + 1, ![p].seen = {}, ![p].open = None]
  /\ UNCHANGED <<dir, final, temps, faults>>

SetUseSystem(p) ==
  /\ In(p, "ready") /\ proc[p].calls < MaxCalls
  /\ Continue(p, "idle")
  /\ UNCHANGED <<dir, final, temps, faults>>

(* Mutant: the files are not compared with the payload. *)
Exists(e) == final # None /\ dir[final][e] # "absent"

(* The marker decodes, the file has the hash of the payload. *)
Matches(e) == final # None /\ dir[final][e] = "payload"

(* validateInstall reads the marker and then the files, one by one.        *)
Validate(p, e) ==
  /\ proc[p].pc \in {"validate", "revalidate"}
  /\ IF proc[p].seen = {} THEN e = Marker ELSE e \in Files \ proc[p].seen
  /\ Matches(e)
  /\ IF proc[p].seen \cup {e} = Entries
     THEN CleanUp(p) /\ Continue(p, "ready")
     ELSE /\ proc' = [proc EXCEPT ![p].seen = @ \cup {e}]
          /\ UNCHANGED <<dir, temps>>
  /\ UNCHANGED <<final, faults>>

(* The first call of it goes on to extract, the second one gives up.       *)
Invalid(p, e) ==
  /\ proc[p].pc \in {"validate", "revalidate"}
  /\ IF proc[p].seen = {} THEN e = Marker ELSE e \in Files \ proc[p].seen
  /\ ~Matches(e)
  /\ IF In(p, "validate")
     THEN Continue(p, "remove") /\ UNCHANGED <<dir, temps>>
     ELSE CleanUp(p) /\ Continue(p, "failed")
  /\ UNCHANGED <<final, faults>>

(* os.RemoveAll opens the directory, unlinks its entries, and removes what *)
(* has the name by then.                                                   *)
OpenOld(p) ==
  /\ In(p, "remove")
  /\ proc' = [proc EXCEPT ![p].pc = IF final = None THEN "mkdir" ELSE "removing", ![p].open = final]
  /\ UNCHANGED <<dir, final, temps, faults>>

Unlink(p, e) ==
  /\ In(p, "removing") /\ dir[proc[p].open][e] # "absent"
  /\ dir' = [dir EXCEPT ![proc[p].open][e] = "absent"]
  /\ UNCHANGED <<final, temps, proc, faults>>

RemoveDir(p) ==
  /\ In(p, "removing") /\ dir[proc[p].open] = Empty
  /\ IF final = None \/ dir[final] = Empty
     THEN final' = None /\ Continue(p, "mkdir")
     ELSE final' = final /\ Continue(p, "failed")
  /\ UNCHANGED <<dir, temps, faults>>

MakeTemp(p) ==
  /\ In(p, "mkdir")
  /\ temps' = temps \cup {Mine(p)}
  /\ Continue(p, "write")
  /\ UNCHANGED <<dir, final, faults>>

(* Mutant: the error of a file that could not be written is dropped. *)
Incomplete == [e \in Entries |-> "absent"]

(* What writeFiles leaves; codesign, on darwin, answers "is already        *)
(* signed" and changes nothing.                                            *)
Written == [Complete EXCEPT ![Marker] = "absent"]

(* Mutant: the directory is renamed before its marker is written. *)
RenameFirst == "activate"

(* The marker is written before the rename. *)
AfterFiles == "mark"

WriteFiles(p) ==
  /\ In(p, "write")
  /\ dir' = [dir EXCEPT ![Mine(p)] = Written]
  /\ Continue(p, AfterFiles)
  /\ UNCHANGED <<final, temps, faults>>

WriteMarker(p) ==
  /\ In(p, "mark")
  /\ dir' = [dir EXCEPT ![Mine(p)][Marker] = "payload"]
  /\ Continue(p, "activate")
  /\ UNCHANGED <<final, temps, faults>>

Renamed(p) == temps \ {Mine(p)}

(* Where there is a directory with entries the rename fails; over an empty *)
(* one it succeeds on Unix and fails on Windows.                           *)
Activate(p) ==
  /\ In(p, "activate")
  /\ final # None => dir[final] = Empty
  /\ final' = Mine(p) /\ temps' = Renamed(p)
  /\ Continue(p, "ready")
  /\ UNCHANGED <<dir, faults>>

(* Mutant: a lost race is an error. *)
GiveUp == "failed"

AfterLostRace == "revalidate"

ActivateFails(p) ==
  /\ In(p, "activate") /\ final # None
  /\ Continue(p, AfterLostRace)
  /\ UNCHANGED <<dir, final, temps, faults>>

-----------------------------------------------------------------------------
Busy(p) == ~(proc[p].pc \in {"idle", "ready", "failed", "crashed"})

(* Any of the calls fails: RemoveAll, MkdirTemp, a write, codesign.        *)
Fails(p) ==
  /\ proc[p].pc \in {"remove", "removing", "mkdir", "write", "mark", "activate"}
  /\ In(p, "activate") => final = None
  /\ Fault
  /\ CleanUp(p) /\ Continue(p, "failed")
  /\ UNCHANGED final

Crash(p) ==
  /\ Busy(p) /\ Fault
  /\ Continue(p, "crashed")
  /\ UNCHANGED <<dir, final, temps>>

(* The command is run again. *)
Restart(p) ==
  /\ proc[p].pc \in {"crashed", "failed"} /\ proc[p].calls < MaxCalls
  /\ Continue(p, "idle")
  /\ UNCHANGED <<dir, final, temps, faults>>

(* A power loss, a virus scanner, the user. *)
Damage(e) ==
  /\ final # None /\ dir[final][e] # "absent" /\ Fault
  /\ \E v \in {"absent", "damaged"} : dir' = [dir EXCEPT ![final][e] = v]
  /\ UNCHANGED <<final, temps, proc>>

Call(p) ==
  \/ \E e \in Entries : Validate(p, e) \/ Invalid(p, e) \/ Unlink(p, e)
  \/ OpenOld(p) \/ RemoveDir(p) \/ MakeTemp(p) \/ WriteFiles(p) \/ WriteMarker(p)
  \/ Activate(p) \/ ActivateFails(p)

CacheNext ==
  \/ \E p \in Procs : Locate(p) \/ SetUseSystem(p) \/ Call(p) \/ Fails(p) \/ Crash(p) \/ Restart(p)
  \/ \E e \in Entries : Damage(e)

CacheSpec == CacheInit /\ [][CacheNext]_cacheVars

(* A call that does not fail goes on. *)
FairCache == CacheSpec /\ \A p \in Procs : WF_cacheVars(Call(p))

-----------------------------------------------------------------------------
(* pg_dump and pg_restore can be run from the final directory.             *)
Usable == final # None /\ \A e \in Entries : dir[final][e] = "payload"

(* A directory gets the final name only when it is complete: whatever is   *)
(* missing later was removed or damaged.                                   *)
OnlyCompleteActivated ==
  [][final' # final /\ final' # None => dir[final'] = Complete]_cacheVars

(* "Concurrent extraction: two goroutines for same hash do not leave       *)
(* partial state": when all calls have returned and nothing has failed,    *)
(* the cache is usable if any call succeeded.                              *)
NoPartialState ==
  faults = 0 /\ (\A p \in Procs : ~Busy(p)) /\ (\E p \in Procs : In(p, "ready")) => Usable

(* Two processes that find no cache and race for it both get their tools.  *)
(* (A third one may remove the cache of the first while the second         *)
(* validates it, and then the second fails.)                               *)
BothServed ==
  /\ \E p, q \in Procs : Procs = {p, q}
  /\ faults = 0 /\ \A p \in Procs : proc[p].calls <= 1
  => \A p \in Procs : ~In(p, "failed")

(* A call that has returned leaves no temporary directory behind. *)
TempsCleaned ==
  \A p \in Procs : proc[p].pc \in {"ready", "failed"} => Mine(p) \notin temps

(* Processes that race for the cache neither fail, nor leave directories,  *)
(* nor a cache that is not usable.                                         *)
CacheInv == CacheTypeOK /\ BothServed /\ TempsCleaned /\ NoPartialState

(* Whatever crashes, failures and damages have left, a call that has the   *)
(* cache to itself repairs it.                                             *)
Alone(p) ==
  /\ In(p, "validate") /\ proc[p].seen = {}
  /\ \A q \in Procs \ {p} : ~Busy(q) /\ proc[q].calls = MaxCalls
  /\ faults = MaxFaults
LoneCallHeals == \A p \in Procs : Alone(p) ~> In(p, "ready") /\ Usable
=============================================================================
