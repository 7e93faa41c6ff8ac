------------------------------- MODULE SyncRun ------------------------------
(***************************************************************************)
(* The run of a plan: internal/engine/native/native.go, Execute and the    *)
(* ten stages of executeStages, with what each stage does to the target    *)
(* database (target.go, extensions.go, schema.go, sequences.go) and with   *)
(* the deferred releases.                                                  *)
(*                                                                         *)
(* The target database outlives a run: a run that fails, is cancelled or   *)
(* crashes leaves it as it is, and the user may run the command again.     *)
(* MaxFaults bounds the injected failures (failed statements and commands, *)
(* cancellations, crashes, foreign sessions) over all runs.                *)
(***************************************************************************)
EXTENDS NativeCommon

CONSTANTS
  Tables,          \* the tables of the plan
  Seqs,            \* its sequences
  MaxFaults,       \* bound on the injected failures
  RemoteIsLocal    \* remote and local are one server

ASSUME SyncAssumption ==
  /\ MaxFaults \in Nat
  /\ RemoteIsLocal \in BOOLEAN

VARIABLES
  \* the servers
  source,       \* the source database: "intact" or "dropped"
  extensions,   \* the target server has the extensions the schema needs
  db,           \* the target database: "original", "absent", "dropped", "created"
  schema,       \* its schema: "none", "preData", "somePostData", "postData"
  committed,    \* its tables whose rows are committed
  repaired,     \* its sequences set to their column's maximum
  sessions,     \* other clients are connected to it
  \* the run
  dryRun,       \* plan.DryRun
  ctxDone,      \* r.ctx is cancelled
  at,           \* the stage, or "start", "unwind", "finished"
  step,         \* where in the stage
  open,         \* connections and files of the run that exist
  deferred,     \* those that executeStages has deferred the release of
  stages,       \* r.result.Stages: the stages that are done
  ret,          \* what CopyTables returned
  err,          \* the error of executeStages
  outcome,      \* what Execute returned, "running" or "crashed"
  faults        \* failures injected so far

targetVars == <<db, schema, committed, repaired>>
serverVars == <<source, extensions, sessions>>
runVars    == <<dryRun, ctxDone, at, step, open, deferred, stages, ret, err, outcome>>
vars == <<targetVars, serverVars, runVars, faults>>

(* executeStages, in order: the stage that follows each stage. *)
Following ==
  [snapshot        |-> "dumpPreData",
   dumpPreData     |-> "checkExtensions",
   checkExtensions |-> "resetTarget",
   resetTarget     |-> "connectTarget",
   connectTarget   |-> "applyPreData",
   applyPreData    |-> "copyTables",
   copyTables      |-> "dumpPostData",
   dumpPostData    |-> "applyPostData",
   applyPostData   |-> "repairSequences",
   repairSequences |-> "unwind"]

Stages == {"snapshot", "dumpPreData", "checkExtensions", "resetTarget", "connectTarget",
           "applyPreData", "copyTables", "dumpPostData", "applyPostData", "repairSequences"}

Resources == {"snapshot", "target", "archive"}

ServerTypes ==
  /\ source \in {"intact", "dropped"}
  /\ extensions \in BOOLEAN
  /\ db \in {"original", "absent", "dropped", "created"}
  /\ schema \in {"none", "preData", "somePostData", "postData"}
  /\ committed \subseteq Tables
  /\ repaired \subseteq Seqs
  /\ sessions \in BOOLEAN

RunTypes ==
  /\ dryRun \in BOOLEAN
  /\ ctxDone \in BOOLEAN
  /\ at \in Stages \cup {"start", "unwind", "finished"}
  /\ step \in {"enter", "run", "export", "terminate", "drop", "create", "dump"}
  /\ stages \subseteq Stages
  /\ ret \in Outcomes \cup {"running"}
  /\ err \in Outcomes
  /\ outcome \in Outcomes \cup {"running", "crashed"}

ResourceTypes ==
  /\ open \subseteq Resources
  /\ deferred \subseteq Resources
  /\ at = "finished" <=> outcome # "running"

TypeOK == ServerTypes /\ RunTypes /\ ResourceTypes /\ faults \in 0..MaxFaults

Init ==
  /\ source = "intact"
  /\ extensions \in BOOLEAN
  /\ db \in {"original", "absent"}
  /\ schema = "none" /\ committed = {} /\ repaired = {}
  /\ sessions \in BOOLEAN
  /\ sessions => db = "original"
  /\ dryRun \in BOOLEAN
  /\ ctxDone = FALSE
  /\ at = "start" /\ step = "enter"
  /\ open = {} /\ deferred = {} /\ stages = {}
  /\ ret = "running" /\ err = "nil" /\ outcome = "running"
  /\ faults = 0

Present == db \in {"original", "created"}

-----------------------------------------------------------------------------
(* The environment. *)

Fault == faults < MaxFaults /\ faults' = faults + 1

CancelRun ==
  /\ outcome = "running" /\ ~ctxDone
  /\ Fault
  /\ ctxDone' = TRUE
  /\ UNCHANGED <<targetVars, serverVars, dryRun, at, step, open, deferred, stages, ret, err,
                 outcome>>

(* Another client opens a session on the target database. *)
ForeignSession ==
  /\ Present /\ ~sessions
  /\ Fault
  /\ sessions' = TRUE
  /\ UNCHANGED <<targetVars, source, extensions, runVars>>

(* The process dies.  Its connections close, so the servers roll back what *)
(* was not committed; the archive of a crashed run stays in the temporary  *)
(* directory.                                                              *)
Crash ==
  /\ outcome = "running"
  /\ Fault
  /\ outcome' = "crashed" /\ at' = "finished"
  /\ open' = {} /\ deferred' = {}
  /\ UNCHANGED <<targetVars, serverVars, dryRun, ctxDone, step, stages, ret, err>>

(* The user runs the same command again. *)
Rerun ==
  /\ outcome \notin {"running", "nil"}
  /\ ctxDone' = FALSE
  /\ at' = "start" /\ step' = "enter"
  /\ open' = {} /\ deferred' = {} /\ stages' = {}
  /\ ret' = "running" /\ err' = "nil" /\ outcome' = "running"
  /\ UNCHANGED <<targetVars, serverVars, dryRun, faults>>

-----------------------------------------------------------------------------
(* execute and runVoidStage *)

Start ==
  /\ at = "start"
  /\ IF dryRun
     THEN at' = "finished" /\ outcome' = "nil"
     ELSE at' = "snapshot" /\ UNCHANGED outcome
  /\ UNCHANGED <<targetVars, serverVars, dryRun, ctxDone, step, open, deferred, stages, ret, err,
                 faults>>

(* Mutant: the stage leaves the context to its statements. *)
Unchecked == FALSE

(* runVoidStage looks at the context first and returns its error. *)
ContextErr == ctxDone

Enter ==
  /\ at \in Stages /\ step = "enter"
  /\ IF ContextErr
     THEN at' = "unwind" /\ err' = "ctx" /\ UNCHANGED step
     ELSE step' = "run" /\ UNCHANGED <<at, err>>
  /\ UNCHANGED <<targetVars, serverVars, dryRun, ctxDone, open, deferred, stages, ret, outcome,
                 faults>>

Running(stage, st) == at = stage /\ step = st

(* The function of the stage returns nil: the stage is recorded, the       *)
(* release of res is deferred, and the next stage is entered.              *)
StageDone(res) ==
  /\ at' = Following[at]
  /\ step' = "enter"
  /\ stages' = stages \cup {at}
  /\ deferred' = deferred \cup res
  /\ UNCHANGED <<dryRun, ctxDone, err, outcome, faults>>

StageError(e) ==
  /\ at' = "unwind"
  /\ step' = "enter"
  /\ err' = e
  /\ UNCHANGED <<dryRun, ctxDone, deferred, stages, outcome>>

(* It returns an error: its own failure or that of the done context.       *)
StageFails ==
  \/ Fault /\ StageError("fault")
  \/ ctxDone /\ UNCHANGED faults /\ StageError("ctx")

(* The server's own rules refuse the statement. *)
Refused == StageError("fault") /\ UNCHANGED faults

(* It goes on with its next statement. *)
Proceed(st) ==
  /\ step' = st
  /\ UNCHANGED <<dryRun, ctxDone, at, deferred, stages, err, outcome, faults>>

-----------------------------------------------------------------------------
(* The stages before the reset. *)

(* openSnapshot: connect, then ExportSnapshot on that connection, which is *)
(* closed when the export fails.                                           *)
ConnectSnapshot ==
  /\ Running("snapshot", "run")
  /\ \/ Proceed("export") /\ open' = open \cup {"snapshot"}
     \/ StageFails /\ UNCHANGED open
  /\ UNCHANGED <<targetVars, serverVars, ret>>

(* Mutant: the connection is left open. *)
OpenWithSnapshot == open

OpenAfterExport == open
OpenAfterFailedExport == open \ {"snapshot"}

ExportSnapshot ==
  /\ Running("snapshot", "export")
  /\ \/ StageDone({"snapshot"}) /\ open' = OpenAfterExport
     \/ StageFails /\ open' = OpenAfterFailedExport
  /\ UNCHANGED <<targetVars, serverVars, ret>>

DumpPreData ==
  /\ Running("dumpPreData", "run")
  /\ StageDone({}) \/ StageFails
  /\ UNCHANGED <<targetVars, serverVars, open, ret>>

(* Mutant: the check passes whatever the server answers. *)
NoneMissing == TRUE

(* CheckPreData asks the target server, through its maintenance database,  *)
(* for the extensions the pre-data needs.                                  *)
ExtensionsAvailable == extensions

CheckExtensions ==
  /\ Running("checkExtensions", "run")
  /\ \/ ExtensionsAvailable /\ StageDone({})
     \/ ~ExtensionsAvailable /\ Refused
     \/ StageFails
  /\ UNCHANGED <<targetVars, serverVars, open, ret>>

-----------------------------------------------------------------------------
(* ResetDatabase: three statements on the maintenance database. *)

ConnectMaintenance ==
  /\ Running("resetTarget", "run")
  /\ Proceed("terminate") \/ StageFails
  /\ UNCHANGED <<targetVars, serverVars, open, ret>>

TerminateSessions ==
  /\ Running("resetTarget", "terminate")
  /\ \/ sessions' = FALSE /\ Proceed("drop")
     \/ sessions' = FALSE /\ StageFails
     \/ UNCHANGED sessions /\ StageFails
  /\ UNCHANGED <<targetVars, source, extensions, open, ret>>

(* Mutant: DROP DATABASE without IF EXISTS. *)
DropsPresentOnly == Present /\ ~sessions

(* DROP DATABASE IF EXISTS is refused while a session is open. *)
DropAccepted == ~sessions

(* On one and the same server the database it drops is the source. *)
Dropped ==
  /\ db' = IF Present THEN "dropped" ELSE db
  /\ schema' = "none" /\ committed' = {} /\ repaired' = {}
  /\ source' = IF RemoteIsLocal THEN "dropped" ELSE source

(* The statement is done, done with its answer lost, or not done. *)
DropDatabase ==
  /\ Running("resetTarget", "drop")
  /\ \/ DropAccepted /\ Dropped /\ Proceed("create")
     \/ DropAccepted /\ Dropped /\ StageFails
     \/ StageFails /\ UNCHANGED <<targetVars, source>>
     \/ ~DropAccepted /\ Refused /\ UNCHANGED <<targetVars, source>>
  /\ UNCHANGED <<extensions, sessions, open, ret>>

(* CREATE DATABASE; the deferred close of the connection may still fail    *)
(* the stage.                                                              *)
CreateDatabase ==
  /\ Running("resetTarget", "create")
  /\ \/ StageDone({}) /\ db' = "created"
     \/ StageFails /\ db' \in {db, "created"}
  /\ UNCHANGED <<schema, committed, repaired, serverVars, open, ret>>

-----------------------------------------------------------------------------
(* The stages after the reset. *)

ConnectTarget ==
  /\ Running("connectTarget", "run")
  /\ \/ StageDone({"target"}) /\ open' = open \cup {"target"}
     \/ StageFails /\ UNCHANGED open
  /\ UNCHANGED <<targetVars, serverVars, ret>>

(* One simple-protocol query, so the server applies all of it or nothing;  *)
(* a failure may be that of the answer.                                    *)
ApplyPreData ==
  /\ Running("applyPreData", "run")
  /\ \/ StageDone({}) /\ schema' = "preData"
     \/ StageFails /\ schema' \in {schema, "preData"}
  /\ UNCHANGED <<db, committed, repaired, serverVars, open, ret>>

(* CopyTables, as CopyContract has it: see CopyPool. *)
Copy == INSTANCE CopyContract WITH Items <- Tables, SilentAbort <- TRUE

CopyTable(t) ==
  /\ Running("copyTables", "run")
  /\ Copy!CommitItem(t)
  /\ UNCHANGED <<db, schema, repaired, serverVars, dryRun, at, step, open, deferred, stages, err,
                 outcome, faults>>

CopyTablesReturns ==
  /\ Running("copyTables", "run")
  /\ \E e \in Outcomes :
       /\ Copy!Return(e)
       /\ \/ e = "nil" /\ StageDone({})
          \/ e # "nil" /\ StageFails /\ err' = e
  /\ UNCHANGED <<targetVars, serverVars, open>>

(* DumpArchive: the temporary file, then pg_dump into it; a failed dump    *)
(* removes the file.                                                       *)
CreateArchive ==
  /\ Running("dumpPostData", "run")
  /\ \/ Proceed("dump") /\ open' = open \cup {"archive"}
     \/ StageFails /\ UNCHANGED open
  /\ UNCHANGED <<targetVars, serverVars, ret>>

DumpArchive ==
  /\ Running("dumpPostData", "dump")
  /\ \/ StageDone({"archive"}) /\ UNCHANGED open
     \/ StageFails /\ open' = open \ {"archive"}
  /\ UNCHANGED <<targetVars, serverVars, ret>>

(* pg_restore --exit-on-error: every item it got to is committed. *)
ApplyPostData ==
  /\ Running("applyPostData", "run")
  /\ \/ StageDone({}) /\ schema' = "postData"
     \/ StageFails /\ schema' \in {schema, "somePostData", "postData"}
  /\ UNCHANGED <<db, committed, repaired, serverVars, open, ret>>

(* RepairSequences: one setval per sequence, up to the first error, which  *)
(* may be that of a lost answer.                                           *)
RepairSequence(s) ==
  /\ Running("repairSequences", "run")
  /\ s \in Seqs \ repaired
  /\ repaired' = repaired \cup {s}
  /\ UNCHANGED <<db, schema, committed, serverVars, runVars, faults>>

(* Mutant: a failed setval ends the loop without an error. *)
LoopEnded == TRUE

AllRepaired == repaired = Seqs

RepairSequencesReturns ==
  /\ Running("repairSequences", "run")
  /\ \/ AllRepaired /\ StageDone({})
     \/ Seqs # {} /\ StageFails
  /\ UNCHANGED <<targetVars, serverVars, open, ret>>

-----------------------------------------------------------------------------
(* The deferred calls of executeStages, last registered first: remove the  *)
(* archive, close the target, close the snapshot.  A close that fails is   *)
(* joined to the error.                                                    *)
ReleaseOrder == <<"archive", "target", "snapshot">>

Release(i) ==
  /\ at = "unwind"
  /\ ReleaseOrder[i] \in deferred
  /\ \A j \in 1..(i - 1) : ReleaseOrder[j] \notin deferred
  /\ deferred' = deferred \ {ReleaseOrder[i]}
  /\ open' = open \ {ReleaseOrder[i]}
  /\ \/ UNCHANGED <<err, faults>>
     \/ ReleaseOrder[i] # "archive" /\ Fault /\ err' = Join(err, "fault")
  /\ UNCHANGED <<targetVars, serverVars, dryRun, ctxDone, at, step, stages, ret, outcome>>

StagesError == err

(* finishSuccess or finishFailure *)
Finish ==
  /\ at = "unwind" /\ deferred = {}
  /\ at' = "finished"
  /\ outcome' = StagesError
  /\ UNCHANGED <<targetVars, serverVars, dryRun, ctxDone, step, open, deferred, stages, ret, err,
                 faults>>

-----------------------------------------------------------------------------
Engine ==
  \/ Start
  \/ Enter
  \/ ConnectSnapshot \/ ExportSnapshot \/ DumpPreData \/ CheckExtensions
  \/ ConnectMaintenance \/ TerminateSessions \/ DropDatabase \/ CreateDatabase
  \/ ConnectTarget \/ ApplyPreData
  \/ (\E t \in Tables : CopyTable(t)) \/ CopyTablesReturns
  \/ CreateArchive \/ DumpArchive \/ ApplyPostData
  \/ (\E s \in Seqs : RepairSequence(s)) \/ RepairSequencesReturns
  \/ (\E i \in 1..3 : Release(i)) \/ Finish

Succeeded == outcome = "nil" /\ UNCHANGED vars

Next == CancelRun \/ ForeignSession \/ Crash \/ Rerun \/ Engine \/ Succeeded

Spec == Init /\ [][Next]_vars

(* Statements and child processes eventually return, and a user whose run  *)
(* failed keeps trying.                                                    *)
FairSpec == Spec /\ WF_vars(Engine) /\ WF_vars(Rerun)

-----------------------------------------------------------------------------
Touched == db = "created" \/ db = "dropped"

IsComplete ==
  /\ db = "created" /\ schema = "postData"
  /\ committed = Tables /\ repaired = Seqs

(* A run that reports success has built the whole target: a cancellation   *)
(* that CopyTables swallows is caught before the run ends.                 *)
SuccessMeansComplete == outcome = "nil" /\ ~dryRun => IsComplete

(* Constraints are created over all the rows, and a sequence is set to the *)
(* maximum of a column that has all of them.                               *)
PhasesInOrder ==
  /\ schema \in {"somePostData", "postData"} => committed = Tables
  /\ repaired # {} => committed = Tables /\ schema = "postData"

(* A target server that lacks an extension, or a dry run, never costs the  *)
(* user the old database.                                                  *)
PreflightSparesTarget == [][~extensions \/ dryRun => UNCHANGED targetVars]_vars

(* Rows are committed only while the snapshot they were read at is open.   *)
RowsUnderSnapshot ==
  [][committed' \ committed # {} => "snapshot" \in open]_vars

(* However a run ends, short of a crash, its connections and its archive   *)
(* are released.                                                           *)
ReleasesEverything == outcome \in Outcomes => open = {}

(* "retry sync to rebuild target": whatever a failed run leaves behind, a  *)
(* later run that nothing disturbs builds the whole target.                *)
RetryRebuilds == extensions /\ ~dryRun ~> IsComplete /\ outcome = "nil"

(* The design's section 10: a sync whose target is its source is refused.  *)
SourceIntact == source = "intact"

-----------------------------------------------------------------------------
(* The inductive invariant behind these properties, in named parts. *)

AfterReset == {"connectTarget", "applyPreData", "copyTables", "dumpPostData", "applyPostData",
               "repairSequences"}

Fresh == schema = "none" /\ committed = {} /\ repaired = {}

(* Where the run is decides what the target is.  Only the stage check can  *)
(* tell a copy that its caller cancelled from a whole one.                 *)
TargetByStage ==
  /\ at \in AfterReset => db = "created"
  /\ Running("resetTarget", "create") \/ at \in {"connectTarget", "applyPreData"} => Fresh
  /\ at \in {"copyTables", "dumpPostData", "applyPostData"} =>
       schema = "preData" /\ repaired = {}
  /\ at = "dumpPostData" => committed = Tables \/ (step = "enter" /\ ctxDone)
  /\ at = "applyPostData" => committed = Tables
  /\ at = "repairSequences" => committed = Tables /\ schema = "postData"
  /\ at = "unwind" /\ err = "nil" => IsComplete

(* Every open resource has its release deferred, or is the one the stage   *)
(* is still setting up; the snapshot is open from its export on.           *)
OpenByStage ==
  /\ \A r \in open :
       \/ r \in deferred
       \/ r = "snapshot" /\ Running("snapshot", "export")
       \/ r = "archive" /\ Running("dumpPostData", "dump")
  /\ Running("snapshot", "export") \/ at \in Stages \ {"snapshot"} => "snapshot" \in open
  /\ at \in {"start", "finished"} => open = {}
  /\ at \in {"start", "finished"} => deferred = {}
  /\ at = "start" => step = "enter"

(* The stages that destroy come after the checks. *)
ChecksFirst ==
  /\ at \in Stages \/ Touched => ~dryRun
  /\ at \in AfterReset \cup {"resetTarget"} \/ Touched => extensions

IInv ==
  /\ TypeOK /\ TargetByStage /\ OpenByStage /\ ChecksFirst
  /\ PhasesInOrder /\ SuccessMeansComplete

-----------------------------------------------------------------------------
(* The run keeps the contract its user relies on. *)
TargetState ==
  IF ~Touched THEN "untouched" ELSE IF IsComplete THEN "complete" ELSE "partial"

Contract == INSTANCE SyncContract WITH target <- TargetState, report <- outcome

KeepsContract == Contract!ContractSpec
=============================================================================
