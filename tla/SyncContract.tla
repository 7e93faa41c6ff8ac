---------------------------- MODULE SyncContract ----------------------------
(***************************************************************************)
(* What a user of pgsync is promised about one target database over any    *)
(* number of runs: a run that reports no error leaves a complete copy, a   *)
(* dry run leaves the database alone, a failed run may leave anything and  *)
(* may be started again.                                                   *)
(***************************************************************************)
EXTENDS NativeCommon

VARIABLES
  dryRun,   \* the run only plans
  target,   \* "untouched", "partial" or "complete"
  report    \* "running", what the run reported, or "crashed"

contractVars == <<dryRun, target, report>>

ContractInit ==
  /\ dryRun \in BOOLEAN
  /\ target = "untouched"
  /\ report = "running"

(* The old database goes, or part of the new one comes. *)
Rebuild ==
  /\ report = "running" /\ ~dryRun
  /\ target' = "partial"
  /\ UNCHANGED <<dryRun, report>>

(* The last missing part arrives. *)
Complete ==
  /\ report = "running" /\ target = "partial"
  /\ target' = "complete"
  /\ UNCHANGED <<dryRun, report>>

Report(e) ==
  /\ report = "running"
  /\ e \in Outcomes \cup {"crashed"}
  /\ e = "nil" => target = (IF dryRun THEN "untouched" ELSE "complete")
  /\ report' = e
  /\ UNCHANGED <<dryRun, target>>

Restart ==
  /\ report \notin {"running", "nil"}
  /\ report' = "running"
  /\ UNCHANGED <<dryRun, target>>

ContractNext ==
  \/ Rebuild \/ Complete
  \/ \E e \in Outcomes \cup {"crashed"} : Report(e)
  \/ Restart

ContractSpec == ContractInit /\ [][ContractNext]_contractVars
=============================================================================
