------------------------- MODULE SharedTargetProofs -------------------------
(***************************************************************************)
(* Proofs about SharedTarget for any number of runs, any tables and any    *)
(* number of migrations and writes.                                        *)
(***************************************************************************)
EXTENDS SharedTarget, TLAPS

(* A session is open only on a database that exists. *)
SessionsNeedDatabase == sessions # {} => exists

BeforeCopy == {"idle", "planned", "snapshot", "dumped", "terminated", "dropped", "created",
               "connected", "failed"}

(* A run counts what it has done, and goes on when all of it is done. *)
Progress(r) ==
  /\ run[r].at \in BeforeCopy => run[r].committed = {} /\ run[r].restored = {}
  /\ run[r].at \in {"archived", "restoring", "restored", "done"} =>
       run[r].committed = run[r].plan
  /\ run[r].at = "copying" => run[r].restored = {}
  /\ run[r].at \in {"restored", "done"} => run[r].restored = run[r].postData

(* While the connection of connectTarget is open, nothing of what its run  *)
(* has put into the target is gone.                                        *)
Kept(r) ==
  Alive(r, "target") =>
    /\ \A t \in run[r].committed :
         columns[t] # 0 /\ \E c \in copied : c.run = r /\ c.table = t
    /\ run[r].restored \subseteq keys

TInv ==
  /\ TypeOK
  /\ SessionsNeedDatabase
  /\ \A r \in Runs : Progress(r) /\ Kept(r)

-----------------------------------------------------------------------------
(* The largest of a set that has one. *)
LEMMA MaxIsMember ==
  ASSUME NEW S \in SUBSET Int, NEW w \in S, \A v \in S : w >= v
  PROVE  Max(S) \in S
  BY DEF Max

LEMMA RowsAreNumbers ==
  ASSUME TypeOK, NEW t \in Tables
  PROVE  RowsIn(t) \in SUBSET Int
  BY DEF TypeOK, RowsIn

(* What there is at the start is well typed. *)
LEMMA InitTypes == Init => TypeOK
<1> SUFFICES ASSUME Init PROVE TypeOK
  OBVIOUS
<1> USE SharedAssumption DEF Init, NewDatabase
<1>1. NoTable \in SourceTables
  BY DEF NoTable, SourceTables
<1>2. source \in [Tables -> SourceTables]
  <2>1. PICK beginning \in Beginnings :
          source = [t \in Tables |-> IF t \in beginning
                                     THEN [columns |-> 1, file |-> 1, rows |-> InitialRows[t]]
                                     ELSE NoTable]
    OBVIOUS
  <2>2. \A t \in Tables : [columns |-> 1, file |-> 1, rows |-> InitialRows[t]] \in SourceTables
    BY DEF SourceTables
  <2>3. QED BY <1>1, <2>1, <2>2
<1>3. run \in [Runs -> RunRecord]
  BY <1>1 DEF RunRecord, NoRun, Stages
<1>4. columns \in [Tables -> Nat] /\ next \in [Tables -> Int]
  BY DEF FirstValue
<1>5. QED
  BY <1>2, <1>3, <1>4 DEF TypeOK

(* A migration leaves a table or none. *)
LEMMA MigratedTypes ==
  ASSUME TypeOK, NEW t \in Tables, NEW table \in SourceTables, Migrated(t, table)
  PROVE  TypeOK' /\ UNCHANGED <<exists, contents, sessions, run>>
  BY DEF TypeOK, Migrated, contents

(* The clients of the source change nothing of the target and of the runs. *)
LEMMA SourceStep ==
  ASSUME TypeOK, NEW t \in Tables, Migrate(t) \/ Write(t)
  PROVE  TypeOK' /\ UNCHANGED <<exists, contents, sessions, run>>
<1>0. source[t] \in SourceTables /\ migrations + 1 \in Nat
  BY DEF TypeOK
<1>1. CASE CreateTable(t)
  <2>1. [columns |-> migrations + 1, file |-> migrations + 1, rows |-> {}] \in SourceTables
    BY <1>0 DEF SourceTables
  <2>2. QED BY <1>1, <2>1, MigratedTypes DEF CreateTable
<1>2. CASE DropTable(t)
  <2>1. NoTable \in SourceTables
    BY DEF NoTable, SourceTables
  <2>2. QED BY <1>2, <2>1, MigratedTypes DEF DropTable
<1>3. CASE AlterTable(t)
  <2>1. [source[t] EXCEPT !.columns = migrations + 1] \in SourceTables
    BY <1>0 DEF SourceTables
  <2>2. QED BY <1>3, <2>1, MigratedTypes DEF AlterTable
<1>4. CASE RewriteTable(t)
  <2>1. PICK rows \in {{}, source[t].rows} :
          Migrated(t, [source[t] EXCEPT !.file = migrations + 1, !.rows = rows])
    BY <1>4 DEF RewriteTable
  <2>2. [source[t] EXCEPT !.file = migrations + 1, !.rows = rows] \in SourceTables
    BY <1>0 DEF SourceTables
  <2>3. QED BY <2>1, <2>2, MigratedTypes
<1>5. CASE Write(t)
  <2>1. PICK v \in Values :
          source' = [source EXCEPT ![t].rows = IF v \in @ THEN @ \ {v} ELSE @ \cup {v}]
    BY <1>5 DEF Write
  <2>2. v \in Int
    BY SharedAssumption
  <2>3. source' \in [Tables -> SourceTables]
    BY <2>1, <2>2 DEF TypeOK, SourceTables
  <2>4. QED BY <1>5, <2>3 DEF Write, TypeOK, contents
<1>6. QED
  BY <1>1, <1>2, <1>3, <1>4, <1>5 DEF Migrate

-----------------------------------------------------------------------------
(* The steps of a run, one by one. *)
LEMMA StepCases ==
  ASSUME [Next]_vars
  PROVE  \/ \E t \in Tables : Migrate(t) \/ Write(t)
         \/ \E r \in Runs : Plan(r) \/ ExportSnapshot(r) \/ DumpPreData(r)
         \/ \E r \in Runs : TerminateSessions(r)
         \/ \E r \in Runs : DropDatabase(r)
         \/ \E r \in Runs : CreateDatabase(r)
         \/ \E r \in Runs : ConnectTarget(r)
         \/ \E r \in Runs : ApplyPreData(r)
         \/ \E r \in Runs, t \in Tables : OpenTarget(r, t)
         \/ \E r \in Runs, t \in Tables : CommitTable(r, t)
         \/ \E r \in Runs : DumpPostData(r) \/ RestoreStarts(r) \/ RestoreReturns(r)
         \/ \E r \in Runs, t \in Tables : AddKey(r, t)
         \/ \E r \in Runs, t \in Tables : RepairSequence(r, t)
         \/ \E r \in Runs : Finish(r)
         \/ \E r \in Runs : Fail(r) \/ SessionEnds(r)
         \/ UNCHANGED vars
  BY DEF Next, Engine, Ended

LEMMA SessionTypes ==
  ASSUME NEW r \in Runs, NEW use \in Uses
  PROVE  Session(r, use) \in [run : Runs, use : Uses]
  BY DEF Session

(* A run that goes on leaves the others where they are. *)
LEMMA BecomesRecord ==
  ASSUME TypeOK, NEW r \in Runs, NEW record \in RunRecord, Becomes(r, record)
  PROVE  run' \in [Runs -> RunRecord] /\ run'[r] = record /\ \A q \in Runs \ {r} : run'[q] = run[q]
  BY DEF TypeOK, Becomes

(* The records the steps of a run leave. *)
LEMMA NextStage ==
  ASSUME TypeOK, NEW r \in Runs
  PROVE  /\ \A stage \in Stages : [run[r] EXCEPT !.at = stage] \in RunRecord
         /\ \A stage \in Stages : [NoRun EXCEPT !.at = stage] \in RunRecord
<1>1. run[r] \in RunRecord
  BY DEF TypeOK
<1>2. NoTable \in SourceTables
  BY DEF NoTable, SourceTables
<1>3. NoRun \in RunRecord
  BY <1>2 DEF NoRun, RunRecord, Stages
<1>4. QED
  BY <1>1, <1>3 DEF RunRecord

LEMMA SourceSeen ==
  ASSUME TypeOK, NEW r \in Runs, NEW T \in SUBSET Tables, NEW preData \in [Tables -> Nat]
  PROVE  /\ [run[r] EXCEPT !.at = "planned", !.plan = T, !.sequences = T \cap Serial,
                           !.since = migrations] \in RunRecord
         /\ [run[r] EXCEPT !.at = "snapshot", !.snapshot = source] \in RunRecord
         /\ [run[r] EXCEPT !.at = "dumped", !.preData = preData] \in RunRecord
         /\ [run[r] EXCEPT !.at = "archived", !.postData = T \cap Keyed] \in RunRecord
<1>1. run[r] \in RunRecord /\ migrations \in Nat /\ source \in [Tables -> SourceTables]
  BY DEF TypeOK
<1>2. QED BY <1>1 DEF RunRecord, Stages

LEMMA TableDone ==
  ASSUME TypeOK, NEW r \in Runs, NEW t \in Tables
  PROVE  /\ [run[r] EXCEPT !.copying = @ \cup {t}] \in RunRecord
         /\ [run[r] EXCEPT !.copying = @ \ {t}, !.committed = @ \cup {t}] \in RunRecord
         /\ [run[r] EXCEPT !.restored = @ \cup {t}] \in RunRecord
         /\ [run[r] EXCEPT !.repaired = @ \cup {t}] \in RunRecord
<1>1. run[r] \in RunRecord
  BY DEF TypeOK
<1>2. QED BY <1>1 DEF RunRecord

(* Every step keeps the types. *)
LEMMA TypesStep == TypeOK /\ [Next]_vars => TypeOK'
<1> SUFFICES ASSUME TypeOK, [Next]_vars PROVE TypeOK'
  OBVIOUS
<1> USE DEF sourceVars, contents
<1>0. PresentTables \in SUBSET Tables /\ [t \in Tables |-> source[t].columns] \in [Tables -> Nat]
  BY DEF TypeOK, SourceTables, PresentTables
<1>1. ASSUME NEW t \in Tables, Migrate(t) \/ Write(t) PROVE TypeOK'
  BY <1>1, SourceStep
<1>2. ASSUME NEW r \in Runs, Plan(r) \/ ExportSnapshot(r) \/ DumpPreData(r) PROVE TypeOK'
  <2>1. run' \in [Runs -> RunRecord]
    <3>1. CASE Plan(r)
      BY <1>0, <3>1, SourceSeen, BecomesRecord DEF Plan
    <3>2. CASE ExportSnapshot(r)
      BY <1>0, <3>2, SourceSeen, BecomesRecord DEF ExportSnapshot
    <3>3. CASE DumpPreData(r)
      BY <1>0, <3>3, SourceSeen, BecomesRecord DEF DumpPreData
    <3>4. QED BY <1>2, <3>1, <3>2, <3>3
  <2>2. QED BY <1>2, <2>1 DEF Plan, ExportSnapshot, DumpPreData, TypeOK
<1>3. ASSUME NEW r \in Runs, TerminateSessions(r) PROVE TypeOK'
  <2>1. ASSUME NEW q \in Runs PROVE run'[q] \in RunRecord
    <3>1. run[q] \in RunRecord
      BY DEF TypeOK
    <3>2. \A b \in BOOLEAN : [run[q] EXCEPT !.at = "terminated", !.alone = b] \in RunRecord
      BY <3>1 DEF RunRecord, Stages
    <3>3. [run[q] EXCEPT !.alone = FALSE] \in RunRecord
      BY <3>1 DEF RunRecord
    <3>4. \/ \E b \in BOOLEAN : run'[q] = [run[q] EXCEPT !.at = "terminated", !.alone = b]
          \/ run'[q] = [run[q] EXCEPT !.alone = FALSE]
          \/ run'[q] = run[q]
      BY <1>3, <2>1 DEF TerminateSessions
    <3>5. QED BY <3>1, <3>2, <3>3, <3>4
  <2>2. run' \in [Runs -> RunRecord]
    BY <1>3, <2>1 DEF TerminateSessions
  <2>3. QED BY <1>3, <2>2 DEF TerminateSessions, TypeOK
<1>4. ASSUME NEW r \in Runs, DropDatabase(r) PROVE TypeOK'
  <2>1. run' \in [Runs -> RunRecord]
    BY <1>4, NextStage, BecomesRecord DEF DropDatabase, Stages
  <2>2. columns' \in [Tables -> Nat] /\ next' \in [Tables -> Int]
    BY <1>4 DEF DropDatabase, FirstValue
  <2>3. exists' \in BOOLEAN /\ copied' = {} /\ keys' = {}
    BY <1>4 DEF DropDatabase
  <2>4. QED BY <1>4, <2>1, <2>2, <2>3 DEF DropDatabase, TypeOK
<1>5. ASSUME NEW r \in Runs, CreateDatabase(r) PROVE TypeOK'
  <2>1. run' \in [Runs -> RunRecord]
    BY <1>5, NextStage, BecomesRecord DEF CreateDatabase, Stages
  <2>2. QED BY <1>5, <2>1 DEF CreateDatabase, TypeOK
<1>6. ASSUME NEW r \in Runs, ConnectTarget(r) PROVE TypeOK'
  <2>1. run' \in [Runs -> RunRecord]
    BY <1>6, NextStage, BecomesRecord DEF ConnectTarget, Stages
  <2>2. Session(r, "target") \in [run : Runs, use : Uses]
    BY SessionTypes DEF Uses
  <2>3. QED BY <1>6, <2>1, <2>2 DEF ConnectTarget, Connect, TypeOK
<1>7. ASSUME NEW r \in Runs, ApplyPreData(r) PROVE TypeOK'
  <2>1. run' \in [Runs -> RunRecord]
    BY <1>7, NextStage, BecomesRecord DEF ApplyPreData, Stages
  <2>2. run[r].preData \in [Tables -> Nat]
    BY DEF TypeOK, RunRecord
  <2>3. QED BY <1>7, <2>1, <2>2 DEF ApplyPreData, TypeOK
<1>8. ASSUME NEW r \in Runs, NEW t \in Tables, OpenTarget(r, t) PROVE TypeOK'
  <2>1. run' \in [Runs -> RunRecord]
    BY <1>8, TableDone, BecomesRecord DEF OpenTarget
  <2>2. Session(r, t) \in [run : Runs, use : Uses]
    BY SessionTypes DEF Uses
  <2>3. QED BY <1>8, <2>1, <2>2 DEF OpenTarget, Connect, TypeOK
<1>9. ASSUME NEW r \in Runs, NEW t \in Tables, CommitTable(r, t) PROVE TypeOK'
  <2>1. run' \in [Runs -> RunRecord]
    BY <1>9, TableDone, BecomesRecord DEF CommitTable
  <2>2. SourceRows(r, t) \in SUBSET Int
    BY DEF SourceRows, TypeOK, RunRecord, SourceTables
  <2>3. QED BY <1>9, <2>1, <2>2 DEF CommitTable, Close, TypeOK
<1>10. ASSUME NEW r \in Runs, DumpPostData(r) \/ RestoreStarts(r) \/ RestoreReturns(r) PROVE TypeOK'
  <2>1. run' \in [Runs -> RunRecord]
    BY <1>0, <1>10, SourceSeen, NextStage, BecomesRecord DEF DumpPostData, RestoreStarts,
                                                             RestoreReturns, Stages
  <2>2. Session(r, "restore") \in [run : Runs, use : Uses]
    BY SessionTypes DEF Uses
  <2>3. QED BY <1>10, <2>1, <2>2 DEF DumpPostData, RestoreStarts, RestoreReturns, Connect,
                                     Close, TypeOK
<1>11. ASSUME NEW r \in Runs, NEW t \in Tables, AddKey(r, t) PROVE TypeOK'
  <2>1. run' \in [Runs -> RunRecord]
    BY <1>11, TableDone, BecomesRecord DEF AddKey, TypeOK
  <2>2. QED BY <1>11, <2>1 DEF AddKey, TypeOK
<1>12. ASSUME NEW r \in Runs, NEW t \in Tables, RepairSequence(r, t) PROVE TypeOK'
  <2>1. SetvalMax(RowsIn(t)) \in Int
    <3>1. CASE RowsIn(t) = {}
      BY <3>1 DEF SetvalMax, FirstValue
    <3>2. CASE RowsIn(t) # {}
      <4>1. PICK w \in RowsIn(t) : \A v \in RowsIn(t) : w >= v
        BY <1>12, <3>2 DEF RepairSequence
      <4>2. Max(RowsIn(t)) \in Int
        BY <4>1, RowsAreNumbers, MaxIsMember
      <4>3. QED BY <3>2, <4>2 DEF SetvalMax
    <3>3. QED BY <3>1, <3>2
  <2>2. run' \in [Runs -> RunRecord]
    BY <1>12, TableDone, BecomesRecord DEF RepairSequence
  <2>3. QED BY <1>12, <2>1, <2>2 DEF RepairSequence, TypeOK
<1>13. ASSUME NEW r \in Runs, Finish(r) PROVE TypeOK'
  <2>1. run' \in [Runs -> RunRecord]
    BY <1>13, NextStage, BecomesRecord DEF Finish, Stages
  <2>2. QED BY <1>13, <2>1 DEF Finish, Close, TypeOK
<1>14. ASSUME NEW r \in Runs, Fail(r) \/ SessionEnds(r) PROVE TypeOK'
  <2>1. CASE Fail(r)
    <3>1. run' \in [Runs -> RunRecord]
      BY <2>1, NextStage, BecomesRecord DEF Fail, Stages
    <3>2. QED BY <2>1, <3>1 DEF Fail, SessionsOf, TypeOK
  <2>2. CASE SessionEnds(r)
    BY <2>2 DEF SessionEnds, SessionsOf, TypeOK
  <2>3. QED BY <1>14, <2>1, <2>2
<1>15. CASE UNCHANGED vars
  BY <1>15 DEF vars, TypeOK
<1>16. QED
  BY StepCases, <1>1, <1>2, <1>3, <1>4, <1>5, <1>6, <1>7, <1>8, <1>9, <1>10, <1>11, <1>12, <1>13,
     <1>14, <1>15

-----------------------------------------------------------------------------
(* A run has nothing on the target when it starts. *)
LEMMA InitKept == Init => TInv
<1> SUFFICES ASSUME Init PROVE TInv
  OBVIOUS
<1>1. TypeOK
  BY InitTypes
<1>2. SessionsNeedDatabase
  BY DEF Init, SessionsNeedDatabase
<1>3. ASSUME NEW r \in Runs PROVE Progress(r) /\ Kept(r)
  <2>1. run[r] = NoRun /\ sessions = {}
    BY DEF Init
  <2>2. QED BY <2>1 DEF Progress, Kept, Alive, NoRun, BeforeCopy
<1>4. QED BY <1>1, <1>2, <1>3 DEF TInv

(* The target only grows, and q opens no session. *)
Grows ==
  /\ \A t \in Tables : columns[t] # 0 => columns'[t] # 0
  /\ copied \subseteq copied' /\ keys \subseteq keys'

(* A step of another run that only adds to the target takes nothing. *)
LEMMA OthersKept ==
  ASSUME TInv, Grows, NEW q \in Runs, run'[q] = run[q], Alive(q, "target")' => Alive(q, "target")
  PROVE  Progress(q)' /\ Kept(q)'
<1>1. Progress(q) /\ Kept(q) /\ run[q] \in RunRecord
  BY DEF TInv, TypeOK
<1>2. run[q].committed \subseteq Tables
  BY <1>1 DEF RunRecord
<1>3. Progress(q)'
  BY <1>1 DEF Progress
<1>4. Kept(q)'
  BY <1>1, <1>2 DEF Kept, Grows
<1>5. QED BY <1>3, <1>4

(* A run that only moves on keeps what it has.                             *)
LEMMA MovesOn ==
  ASSUME TInv, Grows, NEW q \in Runs, NEW stage \in Stages,
         run'[q].committed = run[q].committed, run'[q].restored = run[q].restored,
         run'[q].at = stage,
         run'[q].plan = run[q].plan \/ stage \in BeforeCopy,
         run'[q].postData = run[q].postData \/ stage \notin {"restored", "done"},
         stage \in BeforeCopy => run[q].at \in BeforeCopy,
         stage = "copying" => run[q].at \in BeforeCopy \cup {"copying"},
         stage \in {"archived", "restoring", "restored", "done"} =>
           run[q].committed = run[q].plan,
         stage \in {"restored", "done"} => run[q].restored = run[q].postData,
         \/ Alive(q, "target")' => Alive(q, "target")
         \/ stage \in BeforeCopy
  PROVE  Progress(q)' /\ Kept(q)'
<1>1. Progress(q) /\ Kept(q) /\ run[q] \in RunRecord
  BY DEF TInv, TypeOK
<1>2. run[q].committed \subseteq Tables
  BY <1>1 DEF RunRecord
<1>3. Progress(q)'
  BY <1>1 DEF Progress, BeforeCopy
<1>4. Kept(q)'
  <2>1. CASE Alive(q, "target")' => Alive(q, "target")
    BY <1>1, <1>2, <2>1 DEF Kept, Grows
  <2>2. CASE stage \in BeforeCopy
    BY <1>1, <2>2 DEF Kept, Progress
  <2>3. QED BY <2>1, <2>2
<1>5. QED BY <1>3, <1>4

(* A session of another use or of another run is another session. *)
LEMMA OtherSession ==
  ASSUME NEW q, NEW r, NEW use, q # r \/ use # "target"
  PROVE  Session(q, "target") # Session(r, use)
  BY DEF Session

(* The database is there as long as a session is. *)
LEMMA SessionsStep == TInv /\ [Next]_vars => SessionsNeedDatabase'
<1> SUFFICES ASSUME TInv, [Next]_vars PROVE SessionsNeedDatabase'
  OBVIOUS
<1> USE DEF TInv, SessionsNeedDatabase, contents
<1>1. ASSUME NEW r \in Runs, TerminateSessions(r) PROVE SessionsNeedDatabase'
  BY <1>1 DEF TerminateSessions
<1>2. ASSUME NEW r \in Runs, DropDatabase(r) PROVE SessionsNeedDatabase'
  BY <1>2 DEF DropDatabase
<1>3. ASSUME NEW r \in Runs, CreateDatabase(r) PROVE SessionsNeedDatabase'
  BY <1>3 DEF CreateDatabase
<1>4. ASSUME NEW r \in Runs, ConnectTarget(r) \/ ApplyPreData(r) PROVE SessionsNeedDatabase'
  BY <1>4 DEF ConnectTarget, ApplyPreData, Connect
<1>5. ASSUME NEW r \in Runs, NEW t \in Tables,
             OpenTarget(r, t) \/ CommitTable(r, t) \/ AddKey(r, t) \/ RepairSequence(r, t)
      PROVE  SessionsNeedDatabase'
  BY <1>5 DEF OpenTarget, CommitTable, AddKey, RepairSequence, Connect, Close
<1>6. ASSUME NEW r \in Runs, DumpPostData(r) \/ RestoreStarts(r) \/ RestoreReturns(r) \/ Finish(r)
      PROVE  SessionsNeedDatabase'
  BY <1>6 DEF DumpPostData, RestoreStarts, RestoreReturns, Finish, Connect, Close
<1>7. ASSUME NEW r \in Runs, Fail(r) \/ SessionEnds(r) PROVE SessionsNeedDatabase'
  BY <1>7 DEF Fail, SessionEnds
<1>8. ASSUME NEW r \in Runs, Plan(r) \/ ExportSnapshot(r) \/ DumpPreData(r)
      PROVE  SessionsNeedDatabase'
  BY <1>8 DEF Plan, ExportSnapshot, DumpPreData
<1>9. ASSUME NEW t \in Tables, Migrate(t) \/ Write(t) PROVE SessionsNeedDatabase'
  BY <1>9, SourceStep
<1>10. CASE UNCHANGED vars
  BY <1>10 DEF vars
<1>11. QED
  BY StepCases, <1>1, <1>2, <1>3, <1>4, <1>5, <1>6, <1>7, <1>8, <1>9, <1>10

(* A run that moves on takes nothing from the others either. *)
LEMMA RunMoves ==
  ASSUME TInv, Grows, NEW q \in Runs, NEW r \in Runs, NEW record, Becomes(r, record),
         record.at \in Stages,
         record.committed = run[r].committed, record.restored = run[r].restored,
         record.plan = run[r].plan \/ record.at \in BeforeCopy,
         record.postData = run[r].postData \/ record.at \notin {"restored", "done"},
         record.at \in BeforeCopy => run[r].at \in BeforeCopy,
         record.at = "copying" => run[r].at \in BeforeCopy \cup {"copying"},
         record.at \in {"archived", "restoring", "restored", "done"} =>
           run[r].committed = run[r].plan,
         record.at \in {"restored", "done"} => run[r].restored = run[r].postData,
         \A p \in Runs : Alive(p, "target")' =>
           Alive(p, "target") \/ (p = r /\ record.at \in BeforeCopy)
  PROVE  Progress(q)' /\ Kept(q)'
<1>1. run' = [run EXCEPT ![r] = record] /\ run \in [Runs -> RunRecord]
  BY DEF Becomes, TInv, TypeOK
<1>2. CASE q = r
  BY <1>1, <1>2, MovesOn
<1>3. CASE q # r
  BY <1>1, <1>3, OthersKept
<1>4. QED BY <1>2, <1>3

(* Another session of a run is not that of connectTarget. *)
LEMMA TargetAlive ==
  ASSUME NEW p \in Runs, NEW r \in Runs, NEW use \in {"restore"} \cup Tables
  PROVE  /\ Connect(r, use) => (Alive(p, "target")' => Alive(p, "target"))
         /\ Close(r, use) => (Alive(p, "target")' => Alive(p, "target"))
<1>1. use # "target"
  BY SharedAssumption
<1>2. QED BY <1>1, OtherSession DEF Connect, Close, Alive

(* Every step keeps the invariant, one step of the run r at a time.        *)
LEMMA KeptStep == TInv /\ [Next]_vars => \A q \in Runs : Progress(q)' /\ Kept(q)'
<1> SUFFICES ASSUME TInv, [Next]_vars, NEW q \in Runs PROVE Progress(q)' /\ Kept(q)'
  OBVIOUS
<1> USE DEF contents
<1>a. run \in [Runs -> RunRecord]
  BY DEF TInv, TypeOK
<1>b. \A r \in Runs : run[r] \in RunRecord /\ Progress(r) /\ Kept(r)
  BY DEF TInv, TypeOK
<1>1. ASSUME NEW t \in Tables, Migrate(t) \/ Write(t) PROVE Progress(q)' /\ Kept(q)'
  <2>1. UNCHANGED <<exists, contents, sessions, run>>
    BY <1>1, SourceStep DEF TInv
  <2>2. QED BY <2>1, OthersKept DEF Grows, Alive
<1>2. ASSUME NEW r \in Runs, Plan(r) \/ ExportSnapshot(r) \/ DumpPreData(r)
      PROVE  Progress(q)' /\ Kept(q)'
  <2>1. Grows /\ \A p \in Runs : Alive(p, "target")' => Alive(p, "target")
    BY <1>2 DEF Plan, ExportSnapshot, DumpPreData, Grows, Alive
  <2>2. CASE Plan(r)
    BY <1>b, <2>1, <2>2, RunMoves DEF Plan, At, RunRecord, BeforeCopy, Stages
  <2>3. CASE ExportSnapshot(r)
    BY <1>b, <2>1, <2>3, RunMoves DEF ExportSnapshot, At, RunRecord, BeforeCopy, Stages
  <2>4. CASE DumpPreData(r)
    BY <1>b, <2>1, <2>4, RunMoves DEF DumpPreData, At, RunRecord, BeforeCopy, Stages
  <2>5. QED BY <1>2, <2>2, <2>3, <2>4
<1>3. ASSUME NEW r \in Runs, TerminateSessions(r) PROVE Progress(q)' /\ Kept(q)'
  <2>1. Kept(q)'
    BY <1>3 DEF TerminateSessions, Kept, Alive
  <2>2. /\ run'[q].committed = run[q].committed /\ run'[q].restored = run[q].restored
        /\ run'[q].plan = run[q].plan /\ run'[q].postData = run[q].postData
        /\ \/ run'[q].at = run[q].at
           \/ run[q].at = "dumped" /\ run'[q].at = "terminated"
    BY <1>b, <1>3 DEF TerminateSessions, At, RunRecord
  <2>3. Progress(q)'
    BY <1>b, <2>2 DEF Progress, BeforeCopy
  <2>4. QED BY <2>1, <2>3
<1>4. ASSUME NEW r \in Runs, DropDatabase(r) PROVE Progress(q)' /\ Kept(q)'
  <2>1. Kept(q)'
    BY <1>4 DEF DropDatabase, Kept, Alive
  <2>2. Progress(q)'
    <3>1. CASE q = r
      <4>1. run'[q] = [run[q] EXCEPT !.at = "dropped"] /\ run[q].at = "terminated"
        BY <1>a, <1>4, <3>1 DEF DropDatabase, Becomes, At
      <4>2. QED BY <1>b, <4>1 DEF Progress, BeforeCopy, RunRecord
    <3>2. CASE q # r
      BY <1>a, <1>b, <1>4, <3>2 DEF DropDatabase, Becomes, Progress
    <3>3. QED BY <3>1, <3>2
  <2>3. QED BY <2>1, <2>2
<1>5. ASSUME NEW r \in Runs, CreateDatabase(r) PROVE Progress(q)' /\ Kept(q)'
  <2>1. Grows /\ \A p \in Runs : Alive(p, "target")' => Alive(p, "target")
    BY <1>5 DEF CreateDatabase, Grows, Alive
  <2>2. QED BY <1>b, <1>5, <2>1, RunMoves DEF CreateDatabase, At, RunRecord, BeforeCopy, Stages
<1>6. ASSUME NEW r \in Runs, ConnectTarget(r) PROVE Progress(q)' /\ Kept(q)'
  <2>1. Grows /\ \A p \in Runs : Alive(p, "target")' => Alive(p, "target") \/ p = r
    BY <1>6 DEF ConnectTarget, Connect, Grows, Alive, Session
  <2>2. QED BY <1>b, <1>6, <2>1, RunMoves DEF ConnectTarget, At, RunRecord, BeforeCopy, Stages
<1>7. ASSUME NEW r \in Runs, ApplyPreData(r) PROVE Progress(q)' /\ Kept(q)'
  <2>1. Grows /\ \A p \in Runs : Alive(p, "target")' => Alive(p, "target")
    BY <1>7 DEF ApplyPreData, Grows, Alive
  <2>2. QED BY <1>b, <1>7, <2>1, RunMoves DEF ApplyPreData, At, RunRecord, BeforeCopy, Stages
<1>8. ASSUME NEW r \in Runs, NEW t \in Tables, OpenTarget(r, t) PROVE Progress(q)' /\ Kept(q)'
  <2>1. Grows /\ \A p \in Runs : Alive(p, "target")' => Alive(p, "target")
    BY <1>8, TargetAlive DEF OpenTarget, Grows
  <2>2. QED BY <1>b, <1>8, <2>1, RunMoves DEF OpenTarget, At, RunRecord, BeforeCopy, Stages
<1>9. ASSUME NEW r \in Runs, NEW t \in Tables, CommitTable(r, t) PROVE Progress(q)' /\ Kept(q)'
  <2>1. Grows /\ (Alive(q, "target")' => Alive(q, "target"))
    BY <1>9, TargetAlive DEF CommitTable, Grows
  <2>2. CASE q # r
    <3>1. run'[q] = run[q]
      BY <1>a, <1>9, <2>2 DEF CommitTable, Becomes
    <3>2. QED BY <2>1, <3>1, OthersKept
  <2>3. CASE q = r
    <3>1. /\ run'[q].committed = run[q].committed \cup {t} /\ run'[q].restored = run[q].restored
          /\ run'[q].at = "copying" /\ run[q].at = "copying"
      BY <1>a, <1>b, <1>9, <2>3 DEF CommitTable, Becomes, At, RunRecord
    <3>2. Progress(q)'
      BY <1>b, <3>1 DEF Progress, BeforeCopy
    <3>3. columns'[t] # 0 /\ \E c \in copied' : c.run = q /\ c.table = t
      <4>1. [run |-> r, table |-> t, rows |-> SourceRows(r, t)] \in copied'
        BY <1>9 DEF CommitTable
      <4>2. columns'[t] # 0
        BY <1>9 DEF CommitTable, Present
      <4>3. QED BY <2>3, <4>1, <4>2
    <3>4. run[q].committed \subseteq Tables
      BY <1>b DEF RunRecord
    <3>5. Kept(q)'
      BY <1>b, <2>1, <3>1, <3>3, <3>4 DEF Kept, Grows
    <3>6. QED BY <3>2, <3>5
  <2>4. QED BY <2>2, <2>3
<1>10. ASSUME NEW r \in Runs, DumpPostData(r) \/ RestoreStarts(r) \/ RestoreReturns(r)
       PROVE  Progress(q)' /\ Kept(q)'
  <2>1. Grows /\ \A p \in Runs : Alive(p, "target")' => Alive(p, "target")
    BY <1>10, TargetAlive DEF DumpPostData, RestoreStarts, RestoreReturns, Grows, Alive
  <2>2. CASE DumpPostData(r)
    BY <1>b, <2>1, <2>2, RunMoves DEF DumpPostData, At, RunRecord, BeforeCopy, Stages
  <2>3. CASE RestoreStarts(r)
    BY <1>b, <2>1, <2>3, RunMoves DEF RestoreStarts, At, RunRecord, BeforeCopy, Stages, Progress
  <2>4. CASE RestoreReturns(r)
    BY <1>b, <2>1, <2>4, RunMoves DEF RestoreReturns, At, RunRecord, BeforeCopy, Stages, Progress
  <2>5. QED BY <1>10, <2>2, <2>3, <2>4
<1>11. ASSUME NEW r \in Runs, NEW t \in Tables, AddKey(r, t) PROVE Progress(q)' /\ Kept(q)'
  <2>1. Grows /\ UNCHANGED sessions
    BY <1>11 DEF AddKey, Grows
  <2>2. CASE run'[q] = run[q]
    BY <2>1, <2>2, OthersKept DEF Alive
  <2>3. CASE q = r /\ At(r, "restoring") /\ Becomes(r, [run[r] EXCEPT !.restored = @ \cup {t}])
    <3>1. /\ run'[q].committed = run[q].committed /\ run'[q].restored = run[q].restored \cup {t}
          /\ run'[q].plan = run[q].plan /\ run'[q].at = "restoring" /\ run[q].at = "restoring"
      BY <1>a, <1>b, <2>3 DEF Becomes, At, RunRecord
    <3>2. Progress(q)'
      BY <1>b, <3>1 DEF Progress, BeforeCopy
    <3>3. t \in keys' /\ keys \subseteq keys' /\ columns' = columns /\ copied' = copied
      BY <1>11 DEF AddKey
    <3>4. Kept(q)'
      BY <1>b, <2>1, <3>1, <3>3 DEF Kept, Alive
    <3>5. QED BY <3>2, <3>4
  <2>4. QED BY <1>a, <1>11, <2>2, <2>3 DEF AddKey, Becomes
<1>12. ASSUME NEW r \in Runs, NEW t \in Tables, RepairSequence(r, t) PROVE Progress(q)' /\ Kept(q)'
  <2>1. Grows /\ \A p \in Runs : Alive(p, "target")' => Alive(p, "target")
    BY <1>12 DEF RepairSequence, Grows, Alive
  <2>2. QED BY <1>b, <1>12, <2>1, RunMoves
            DEF RepairSequence, At, RunRecord, BeforeCopy, Stages, Progress
<1>13. ASSUME NEW r \in Runs, Finish(r) PROVE Progress(q)' /\ Kept(q)'
  <2>1. Grows /\ \A p \in Runs : Alive(p, "target")' => Alive(p, "target")
    BY <1>13 DEF Finish, Grows, Close, Alive
  <2>2. QED BY <1>b, <1>13, <2>1, RunMoves DEF Finish, At, RunRecord, BeforeCopy, Stages, Progress
<1>14. ASSUME NEW r \in Runs, Fail(r) \/ SessionEnds(r) PROVE Progress(q)' /\ Kept(q)'
  <2>1. Grows /\ \A p \in Runs : Alive(p, "target")' => Alive(p, "target")
    BY <1>14 DEF Fail, SessionEnds, SessionsOf, Grows, Alive
  <2>2. CASE run'[q] = run[q]
    BY <2>1, <2>2, OthersKept
  <2>3. CASE run'[q] = [NoRun EXCEPT !.at = "failed"]
    BY <2>3 DEF NoRun, Progress, Kept, BeforeCopy
  <2>4. QED BY <1>a, <1>14, <2>2, <2>3 DEF Fail, SessionEnds, Becomes
<1>15. CASE UNCHANGED vars
  BY <1>15, OthersKept DEF vars, Grows, Alive
<1>16. QED
  BY StepCases, <1>1, <1>2, <1>3, <1>4, <1>5, <1>6, <1>7, <1>8, <1>9, <1>10, <1>11, <1>12, <1>13,
     <1>14, <1>15

(* The invariant holds throughout. *)
LEMMA TargetInvariance == Spec => []TInv
<1>1. TInv /\ [Next]_vars => TInv'
  BY TypesStep, SessionsStep, KeptStep DEF TInv
<1>2. QED BY <1>1, InitKept, PTL DEF Spec

-----------------------------------------------------------------------------
(* The state of the runs, of the source and of the target is well typed,   *)
(* whatever migrations and other runs come between (native.go:321-373).    *)
THEOREM TargetTypes == Spec => []TypeOK
<1>1. TInv => TypeOK
  BY DEF TInv
<1>2. QED BY <1>1, TargetInvariance, PTL

(* As long as the connection of connectTarget is open, no other run has    *)
(* taken away what its run has committed (native.go:342-350,               *)
(* target.go:106-117).                                                     *)
THEOREM ConnectionKeepsRows == Spec => [](\A r \in Runs : Kept(r))
<1>1. TInv => \A r \in Runs : Kept(r)
  BY DEF TInv
<1>2. QED BY <1>1, TargetInvariance, PTL

(* A repair finds all rows and keys of its own run: no run repairs the     *)
(* sequences of a database that another run has put in the place of its    *)
(* own (native.go:370-372, sequences.go:25-34).                            *)
THEOREM RunRepairsOwnRows == Spec => RepairsOwnRows
<1>1. ASSUME TInv, NEW r \in Runs, NEW t \in Tables, RepairSequence(r, t) PROVE HasAllOf(r)
  <2>1. Alive(r, "target") /\ run[r].at = "restored"
    BY <1>1 DEF RepairSequence, TargetConnection, At
  <2>2. run[r].committed = run[r].plan /\ run[r].restored = run[r].postData
    BY <1>1, <2>1 DEF TInv, Progress
  <2>3. QED BY <1>1, <2>1, <2>2 DEF TInv, Kept, HasAllOf
<1>2. TInv => [\A r \in Runs, t \in Tables : RepairSequence(r, t) => HasAllOf(r)]_vars
  BY <1>1
<1>3. QED BY <1>2, TargetInvariance, PTL DEF RepairsOwnRows
-----------------------------------------------------------------------------
(* A run that nobody joined on the target.  From here on the target is     *)
(* looked at under TInv.                                                   *)

(* Columns and files have the numbers of migrations, 0 only without table. *)
SourceNumbered ==
  \A t \in Tables :
    /\ source[t].file <= migrations
    /\ source[t].columns = 0 <=> source[t].file = 0

(* What a run knows of the source is of some migration before, and what    *)
(* its plan lacks was made after it planned.                               *)
Seen(r) ==
  /\ run[r].since <= migrations
  /\ \A t \in Tables : run[r].snapshot[t].file <= migrations
  /\ \A t \in Tables \ run[r].plan :
       /\ source[t].columns # 0 => source[t].columns > run[r].since
       /\ run[r].preData[t] # 0 => run[r].preData[t] > run[r].since
  /\ run[r].at = "idle" => \A t \in Tables : run[r].preData[t] = 0

(* A table is copied once, and sequences are repaired last. *)
InTurn(r) ==
  /\ run[r].copying \cap run[r].committed = {}
  /\ run[r].at \notin {"restored", "done"} => run[r].repaired = {}

(* Nobody else acts on the target or is connected to it. *)
Lone(r) == run[r].at \in OnTarget /\ run[r].alone

LeftAlone(r) ==
  Lone(r) => /\ \A q \in Runs \ {r} : run[q].at \notin OnTarget
             /\ \A s \in sessions : s.run = r

(* The table has kept its file since the snapshot of r. *)
Intact(r, t) == source[t].file # 0 /\ source[t].file = run[r].snapshot[t].file

(* What a lone run has put into the target: the dumped tables, a copy of   *)
(* each committed one, the keys of the tables that were still there.       *)
CopiesOf(r) ==
  /\ \A c \in copied :
       /\ c.run = r /\ c.table \in run[r].committed
       /\ Intact(r, c.table) => c.rows = run[r].snapshot[c.table].rows
  /\ \A c, d \in copied : c.table = d.table => c = d
  /\ \A t \in run[r].committed : \E c \in copied : c.table = t

Filled(r) ==
  /\ \A t \in Tables : columns[t] = run[r].preData[t]
  /\ CopiesOf(r)
  /\ run[r].restored \subseteq keys
  /\ run[r].at # "copying" => \A t \in Keyed : Intact(r, t) => t \in run[r].postData
  /\ \A t \in run[r].repaired : \A v \in RowsIn(t) : v < next[t]

IsNew == (\A t \in Tables : columns[t] = 0) /\ copied = {} /\ keys = {}

Holds(r) ==
  Lone(r) =>
    /\ run[r].at \in {"dropped", "created", "connected"} => IsNew
    /\ run[r].at \in {"copying", "archived", "restoring", "restored"} => Filled(r)

LInv ==
  /\ SourceNumbered
  /\ \A r \in Runs : Seen(r) /\ InTurn(r) /\ LeftAlone(r) /\ Holds(r)

(* The source only moves forward. *)
SourceMoved ==
  /\ migrations' \in Nat /\ migrations <= migrations'
  /\ \A t \in Tables :
       /\ source'[t].columns \in {source[t].columns, 0} \/ source'[t].columns > migrations
       /\ source'[t].file \in {source[t].file, 0} \/ source'[t].file > migrations

-----------------------------------------------------------------------------
LEMMA TableMigrated ==
  ASSUME TypeOK, SourceNumbered, NEW t \in Tables, NEW table \in SourceTables, Migrated(t, table),
         table.columns \in {0, source[t].columns, migrations + 1},
         table.file \in {0, source[t].file, migrations + 1},
         table.columns = 0 <=> table.file = 0
  PROVE  SourceNumbered' /\ SourceMoved
<1>1. /\ migrations' = migrations + 1 /\ migrations \in Nat
      /\ source' = [source EXCEPT ![t] = table] /\ source \in [Tables -> SourceTables]
  BY DEF Migrated, TypeOK
<1>2. ASSUME NEW u \in Tables
      PROVE  /\ source'[u].file <= migrations'
             /\ source'[u].columns = 0 <=> source'[u].file = 0
             /\ source'[u].columns \in {source[u].columns, 0} \/ source'[u].columns > migrations
             /\ source'[u].file \in {source[u].file, 0} \/ source'[u].file > migrations
  <2>1. source[u] \in SourceTables /\ source[t] \in SourceTables
    BY <1>1
  <2>2. CASE u = t
    <3>1. /\ source'[u] = table
          /\ source[u].file <= migrations /\ source[u].columns \in Nat /\ source[u].file \in Nat
      BY <1>1, <2>1, <2>2 DEF SourceNumbered, SourceTables
    <3>2. source'[u].file <= migrations'
      BY <1>1, <2>2, <3>1
    <3>3. source'[u].columns \in {source[u].columns, 0} \/ source'[u].columns > migrations
      BY <1>1, <2>2, <3>1
    <3>4. source'[u].file \in {source[u].file, 0} \/ source'[u].file > migrations
      BY <1>1, <2>2, <3>1
    <3>5. QED BY <3>1, <3>2, <3>3, <3>4
  <2>3. CASE u # t
    BY <1>1, <2>1, <2>3 DEF SourceNumbered, SourceTables
  <2>4. QED BY <2>2, <2>3
<1>3. QED BY <1>1, <1>2 DEF SourceNumbered, SourceMoved

(* A write leaves the columns and the file of every table. *)
LEMMA TableWritten ==
  ASSUME TypeOK, SourceNumbered, NEW t \in Tables, Write(t)
  PROVE  SourceNumbered' /\ SourceMoved
<1>1. migrations' = migrations /\ migrations \in Nat
  BY DEF Write, TypeOK
<1>2. \A u \in Tables :
        source'[u].columns = source[u].columns /\ source'[u].file = source[u].file
  <2>1. PICK v \in Values :
          source' = [source EXCEPT ![t].rows = IF v \in @ THEN @ \ {v} ELSE @ \cup {v}]
    BY DEF Write
  <2>2. source \in [Tables -> SourceTables]
    BY DEF TypeOK
  <2>3. \A u \in Tables : \E rows : source'[u] = [source[u] EXCEPT !.rows = rows]
    <3>1. \A u \in Tables \ {t} : source'[u] = [source[u] EXCEPT !.rows = source[u].rows]
      BY <2>1, <2>2 DEF SourceTables
    <3>2. \E rows : source'[t] = [source[t] EXCEPT !.rows = rows]
      BY <2>1, <2>2
    <3>3. QED BY <3>1, <3>2
  <2>4. QED BY <2>2, <2>3 DEF SourceTables
<1>3. QED BY <1>1, <1>2 DEF SourceNumbered, SourceMoved

LEMMA SourceMoves ==
  ASSUME TypeOK, SourceNumbered, NEW t \in Tables, Migrate(t) \/ Write(t)
  PROVE  SourceNumbered' /\ SourceMoved
<1>0. source[t] \in SourceTables /\ migrations \in Nat
  BY DEF TypeOK
<1>1. CASE CreateTable(t)
  <2>1. [columns |-> migrations + 1, file |-> migrations + 1, rows |-> {}] \in SourceTables
    BY <1>0 DEF SourceTables
  <2>2. QED BY <1>0, <1>1, <2>1, TableMigrated DEF CreateTable
<1>2. CASE DropTable(t)
  <2>1. NoTable \in SourceTables /\ NoTable.columns = 0 /\ NoTable.file = 0
    BY DEF NoTable, SourceTables
  <2>2. QED BY <1>2, <2>1, TableMigrated DEF DropTable
<1>3. CASE AlterTable(t)
  <2> DEFINE table == [source[t] EXCEPT !.columns = migrations + 1]
  <2>1. /\ table \in SourceTables
        /\ table.columns = migrations + 1 /\ table.file = source[t].file
    BY <1>0 DEF SourceTables
  <2>2. Migrated(t, table) /\ source[t].columns # 0 /\ source[t].file # 0
    BY <1>3 DEF AlterTable, Present, SourceNumbered
  <2> HIDE DEF table
  <2>3. QED BY <1>0, <2>1, <2>2, TableMigrated
<1>4. CASE RewriteTable(t)
  <2>1. PICK rows \in {{}, source[t].rows} :
          Migrated(t, [source[t] EXCEPT !.file = migrations + 1, !.rows = rows])
    BY <1>4 DEF RewriteTable
  <2> DEFINE table == [source[t] EXCEPT !.file = migrations + 1, !.rows = rows]
  <2>2. /\ table \in SourceTables
        /\ table.columns = source[t].columns /\ table.file = migrations + 1
    <3>1. rows \in SUBSET Int
      BY <1>0 DEF SourceTables
    <3>2. migrations + 1 \in Nat
      BY <1>0
    <3>3. table \in SourceTables
      BY <1>0, <3>1, <3>2 DEF SourceTables
    <3>4. table.columns = source[t].columns
      BY <1>0 DEF SourceTables
    <3>5. table.file = migrations + 1
      BY <1>0 DEF SourceTables
    <3>6. QED BY <3>3, <3>4, <3>5
  <2>3. Migrated(t, table) /\ source[t].columns # 0
    BY <1>4, <2>1 DEF RewriteTable, Present
  <2> HIDE DEF table
  <2>4. QED BY <1>0, <2>2, <2>3, TableMigrated
<1>5. QED BY <1>1, <1>2, <1>3, <1>4, TableWritten DEF Migrate

LEMMA SourceStays ==
  ASSUME TypeOK, SourceNumbered, UNCHANGED sourceVars
  PROVE  SourceNumbered' /\ SourceMoved
  BY DEF sourceVars, TypeOK, SourceNumbered, SourceMoved

(* Every step moves the source forward, or leaves it.                      *)
LEMMA SourceForward ==
  ASSUME TypeOK, SourceNumbered, [Next]_vars
  PROVE  SourceNumbered' /\ SourceMoved
<1>1. \/ \E t \in Tables : Migrate(t) \/ Write(t)
      \/ UNCHANGED sourceVars
  BY StepCases DEF Plan, ExportSnapshot, DumpPreData, TerminateSessions, DropDatabase,
       CreateDatabase, ConnectTarget, ApplyPreData, OpenTarget, CommitTable, DumpPostData,
       RestoreStarts, RestoreReturns, AddKey, RepairSequence, Finish, Fail, SessionEnds, vars
<1>2. QED BY <1>1, SourceMoves, SourceStays

-----------------------------------------------------------------------------
(* What a step of another run leaves of the record of r: all but alone.    *)
SameRecord(r) ==
  /\ run'[r].at = run[r].at /\ run'[r].plan = run[r].plan
  /\ run'[r].sequences = run[r].sequences /\ run'[r].since = run[r].since
  /\ run'[r].snapshot = run[r].snapshot /\ run'[r].preData = run[r].preData
  /\ run'[r].copying = run[r].copying /\ run'[r].committed = run[r].committed
  /\ run'[r].postData = run[r].postData /\ run'[r].restored = run[r].restored
  /\ run'[r].repaired = run[r].repaired

(* What r knows of the source stays what it was. *)
KnowsTheSame(r) ==
  /\ run'[r].plan = run[r].plan /\ run'[r].since = run[r].since
  /\ run'[r].snapshot = run[r].snapshot /\ run'[r].preData = run[r].preData
  /\ run'[r].at = "idle" => run[r].at = "idle"

LEMMA SeenStays ==
  ASSUME TypeOK, TypeOK', NEW r \in Runs, Seen(r), SourceMoved, KnowsTheSame(r)
  PROVE  Seen(r)'
<1>1. /\ migrations \in Nat /\ source \in [Tables -> SourceTables]
      /\ run[r].since \in Nat /\ run[r].snapshot \in [Tables -> SourceTables]
      /\ run[r].plan \in SUBSET Tables /\ run[r].preData \in [Tables -> Nat]
  BY DEF TypeOK, RunRecord
<1>2. \A t \in Tables : source[t].columns \in Nat /\ run[r].snapshot[t].file \in Nat
  BY <1>1 DEF SourceTables
<1>3. run'[r].since <= migrations' /\ \A t \in Tables : run'[r].snapshot[t].file <= migrations'
  <2>1. run'[r].since <= migrations'
    BY <1>1 DEF Seen, SourceMoved, KnowsTheSame
  <2>2. ASSUME NEW t \in Tables PROVE run'[r].snapshot[t].file <= migrations'
    <3>1. run[r].snapshot[t].file <= migrations /\ run'[r].snapshot[t] = run[r].snapshot[t]
      BY DEF Seen, KnowsTheSame
    <3>2. run[r].snapshot[t].file \in Nat /\ migrations \in Nat /\ migrations' \in Nat
          /\ migrations <= migrations'
      BY <1>1, <1>2 DEF SourceMoved
    <3>3. QED BY <3>1, <3>2
  <2>3. QED BY <2>1, <2>2
<1>4. ASSUME NEW t \in Tables \ run'[r].plan
      PROVE  /\ source'[t].columns # 0 => source'[t].columns > run'[r].since
             /\ run'[r].preData[t] # 0 => run'[r].preData[t] > run'[r].since
  <2>1. t \notin run[r].plan /\ run'[r].since = run[r].since /\ run'[r].preData = run[r].preData
    BY DEF KnowsTheSame
  <2>2. /\ source[t].columns # 0 => source[t].columns > run[r].since
        /\ run[r].preData[t] # 0 => run[r].preData[t] > run[r].since
        /\ run[r].since <= migrations
    BY <2>1 DEF Seen
  <2>3. source'[t].columns \in {source[t].columns, 0} \/ source'[t].columns > migrations
    BY DEF SourceMoved
  <2>4. source'[t].columns # 0 => source'[t].columns > run[r].since
    <3>1. source[t].columns \in Nat /\ run[r].since \in Nat /\ migrations \in Nat
      BY <1>1, <1>2
    <3>2. source'[t].columns \in Nat
      BY DEF TypeOK, SourceTables
    <3>3. QED BY <2>2, <2>3, <3>1, <3>2
  <2>5. QED BY <2>1, <2>2, <2>4
<1>5. run'[r].at = "idle" => \A t \in Tables : run'[r].preData[t] = 0
  BY DEF Seen, KnowsTheSame
<1>6. QED BY <1>3, <1>4, <1>5 DEF Seen

(* What is planned, seen and dumped is what is there. *)
LEMMA SeenPlanned ==
  ASSUME TypeOK, NEW r \in Runs, Seen(r), Plan(r)
  PROVE  Seen(r)'
<1>1. /\ run[r] \in RunRecord /\ run \in [Runs -> RunRecord] /\ run[r].at = "idle"
      /\ migrations \in Nat /\ source \in [Tables -> SourceTables]
  BY DEF TypeOK, Plan, At
<1>2. /\ run'[r].at = "planned" /\ run'[r].plan = PresentTables /\ run'[r].since = migrations
      /\ run'[r].snapshot = run[r].snapshot /\ run'[r].preData = run[r].preData
      /\ migrations' = migrations /\ source' = source
  BY <1>1 DEF Plan, Becomes, RunRecord, sourceVars
<1>3. \A t \in Tables \ PresentTables : source[t].columns = 0
  BY DEF PresentTables, Present
<1>4. QED BY <1>1, <1>2, <1>3 DEF Seen

LEMMA SeenExported ==
  ASSUME TypeOK, SourceNumbered, NEW r \in Runs, Seen(r), ExportSnapshot(r)
  PROVE  Seen(r)'
<1>1. run[r] \in RunRecord /\ run \in [Runs -> RunRecord]
  BY DEF TypeOK
<1>2. /\ run'[r].at = "snapshot" /\ run'[r].plan = run[r].plan /\ run'[r].since = run[r].since
      /\ run'[r].snapshot = source /\ run'[r].preData = run[r].preData
      /\ migrations' = migrations /\ source' = source
  BY <1>1 DEF ExportSnapshot, Becomes, RunRecord, sourceVars
<1>3. QED BY <1>2 DEF Seen, SourceNumbered

LEMMA SeenDumped ==
  ASSUME TypeOK, NEW r \in Runs, Seen(r), DumpPreData(r)
  PROVE  Seen(r)'
<1>1. run[r] \in RunRecord /\ run \in [Runs -> RunRecord]
  BY DEF TypeOK
<1>2. /\ run'[r].at = "dumped" /\ run'[r].plan = run[r].plan /\ run'[r].since = run[r].since
      /\ run'[r].snapshot = run[r].snapshot
      /\ run'[r].preData = [t \in Tables |-> source[t].columns]
      /\ migrations' = migrations /\ source' = source
  BY <1>1 DEF DumpPreData, Becomes, RunRecord, sourceVars
<1>3. QED BY <1>2 DEF Seen

LEMMA SeenForgotten ==
  ASSUME TypeOK, NEW r \in Runs, SourceMoved, run'[r] = [NoRun EXCEPT !.at = "failed"],
         Seen(r), UNCHANGED source
  PROVE  Seen(r)'
<1>1. /\ run'[r].at = "failed" /\ run'[r].plan = {} /\ run'[r].since = 0
      /\ run'[r].snapshot = [t \in Tables |-> NoTable]
      /\ run'[r].preData = [t \in Tables |-> 0]
  BY DEF NoRun
<1>2. migrations' \in Nat /\ source \in [Tables -> SourceTables]
  BY DEF SourceMoved, TypeOK
<1>3. \A t \in Tables : source[t].columns \in Nat
  BY <1>2 DEF SourceTables
<1>4. QED BY <1>1, <1>2, <1>3 DEF Seen, NoTable

-----------------------------------------------------------------------------
(* What the steps of r on the target leave of its record. *)
Keeps(r) ==
  /\ KnowsTheSame(r) /\ run'[r].sequences = run[r].sequences
  /\ run'[r].postData = run[r].postData /\ run'[r].alone = run[r].alone

(* A step that takes r from one stage to another and no further. *)
Advances(r, from, to) ==
  /\ run[r].at = from /\ run'[r].at = to
  /\ Keeps(r)
  /\ run'[r].copying = run[r].copying /\ run'[r].committed = run[r].committed
  /\ run'[r].restored = run[r].restored /\ run'[r].repaired = run[r].repaired

LEMMA Advanced ==
  ASSUME TypeOK, NEW r \in Runs, NEW to, to # "idle", Becomes(r, [run[r] EXCEPT !.at = to])
  PROVE  Advances(r, run[r].at, to)
<1>1. run[r] \in RunRecord /\ run \in [Runs -> RunRecord]
  BY DEF TypeOK
<1>2. run'[r] = [run[r] EXCEPT !.at = to]
  BY <1>1 DEF Becomes
<1>3. QED BY <1>1, <1>2 DEF Advances, Keeps, KnowsTheSame, RunRecord

LEMMA Advancing ==
  ASSUME TypeOK, NEW r \in Runs
  PROVE  /\ DropDatabase(r) => Advances(r, "terminated", "dropped")
         /\ CreateDatabase(r) => Advances(r, "dropped", "created")
         /\ ConnectTarget(r) => Advances(r, "created", "connected")
         /\ ApplyPreData(r) => Advances(r, "connected", "copying")
         /\ RestoreStarts(r) => Advances(r, "archived", "restoring")
         /\ RestoreReturns(r) => Advances(r, "restoring", "restored")
         /\ Finish(r) => Advances(r, "restored", "done")
<1>1. DropDatabase(r) => Advances(r, "terminated", "dropped")
  BY Advanced DEF DropDatabase, At
<1>2. CreateDatabase(r) => Advances(r, "dropped", "created")
  BY Advanced DEF CreateDatabase, At
<1>3. ConnectTarget(r) => Advances(r, "created", "connected")
  BY Advanced DEF ConnectTarget, At
<1>4. ApplyPreData(r) => Advances(r, "connected", "copying")
  BY Advanced DEF ApplyPreData, At
<1>5. RestoreStarts(r) => Advances(r, "archived", "restoring")
  BY Advanced DEF RestoreStarts, At
<1>6. RestoreReturns(r) => Advances(r, "restoring", "restored")
  BY Advanced DEF RestoreReturns, At
<1>7. Finish(r) => Advances(r, "restored", "done")
  BY Advanced DEF Finish, At
<1>8. QED BY <1>1, <1>2, <1>3, <1>4, <1>5, <1>6, <1>7

(* The steps of r that are about one table. *)
LEMMA Opened ==
  ASSUME TypeOK, NEW r \in Runs, NEW t \in Tables, OpenTarget(r, t)
  PROVE  /\ run[r].at = "copying" /\ run'[r].at = "copying" /\ Keeps(r)
         /\ run'[r].copying = run[r].copying \cup {t} /\ run'[r].committed = run[r].committed
         /\ run'[r].restored = run[r].restored /\ run'[r].repaired = run[r].repaired
<1>1. run[r] \in RunRecord /\ run \in [Runs -> RunRecord]
  BY DEF TypeOK
<1>2. run'[r] = [run[r] EXCEPT !.copying = @ \cup {t}] /\ run[r].at = "copying"
  BY <1>1 DEF OpenTarget, Becomes, At
<1>3. QED BY <1>1, <1>2 DEF Keeps, KnowsTheSame, RunRecord

LEMMA Committed ==
  ASSUME TypeOK, NEW r \in Runs, NEW t \in Tables, CommitTable(r, t)
  PROVE  /\ run[r].at = "copying" /\ run'[r].at = "copying" /\ Keeps(r)
         /\ run'[r].copying = run[r].copying \ {t}
         /\ run'[r].committed = run[r].committed \cup {t}
         /\ run'[r].restored = run[r].restored /\ run'[r].repaired = run[r].repaired
<1>1. run[r] \in RunRecord /\ run \in [Runs -> RunRecord]
  BY DEF TypeOK
<1>2. /\ run'[r] = [run[r] EXCEPT !.copying = @ \ {t}, !.committed = @ \cup {t}]
      /\ run[r].at = "copying"
  BY <1>1 DEF CommitTable, Becomes, At
<1>3. QED BY <1>1, <1>2 DEF Keeps, KnowsTheSame, RunRecord

LEMMA KeyAdded ==
  ASSUME TypeOK, NEW r \in Runs, NEW t \in Tables, AddKey(r, t), run'[r] # run[r]
  PROVE  /\ run[r].at = "restoring" /\ run'[r].at = "restoring" /\ Keeps(r)
         /\ run'[r].copying = run[r].copying /\ run'[r].committed = run[r].committed
         /\ run'[r].restored = run[r].restored \cup {t} /\ run'[r].repaired = run[r].repaired
<1>1. run[r] \in RunRecord /\ run \in [Runs -> RunRecord]
  BY DEF TypeOK
<1>2. run'[r] = [run[r] EXCEPT !.restored = @ \cup {t}] /\ run[r].at = "restoring"
  BY <1>1 DEF AddKey, Becomes, At
<1>3. QED BY <1>1, <1>2 DEF Keeps, KnowsTheSame, RunRecord

LEMMA Repaired ==
  ASSUME TypeOK, NEW r \in Runs, NEW t \in Tables, RepairSequence(r, t)
  PROVE  /\ run[r].at = "restored" /\ run'[r].at = "restored" /\ Keeps(r)
         /\ run'[r].copying = run[r].copying /\ run'[r].committed = run[r].committed
         /\ run'[r].restored = run[r].restored /\ run'[r].repaired = run[r].repaired \cup {t}
<1>1. run[r] \in RunRecord /\ run \in [Runs -> RunRecord]
  BY DEF TypeOK
<1>2. run'[r] = [run[r] EXCEPT !.repaired = @ \cup {t}] /\ run[r].at = "restored"
  BY <1>1 DEF RepairSequence, Becomes, At
<1>3. QED BY <1>1, <1>2 DEF Keeps, KnowsTheSame, RunRecord

LEMMA PostDataDumped ==
  ASSUME TypeOK, NEW r \in Runs, DumpPostData(r)
  PROVE  /\ run[r].at = "copying" /\ run'[r].at = "archived" /\ KnowsTheSame(r)
         /\ run'[r].postData = PresentTables \cap Keyed
         /\ run'[r].sequences = run[r].sequences /\ run'[r].alone = run[r].alone
         /\ run'[r].copying = run[r].copying /\ run'[r].committed = run[r].committed
         /\ run'[r].restored = run[r].restored /\ run'[r].repaired = run[r].repaired
<1>1. run[r] \in RunRecord /\ run \in [Runs -> RunRecord]
  BY DEF TypeOK
<1>2. /\ run'[r] = [run[r] EXCEPT !.at = "archived", !.postData = PresentTables \cap Keyed]
      /\ run[r].at = "copying"
  BY <1>1 DEF DumpPostData, Becomes, At
<1>3. QED BY <1>1, <1>2 DEF KnowsTheSame, RunRecord

(* Before the reset r learns of the source, and puts nothing anywhere. *)
LEMMA Prepared ==
  ASSUME TypeOK, NEW r \in Runs, Plan(r) \/ ExportSnapshot(r) \/ DumpPreData(r)
  PROVE  /\ run[r].at \notin OnTarget /\ run'[r].at \notin OnTarget
         /\ run[r].at # "restored" /\ run'[r].at # "done"
         /\ run'[r].copying = run[r].copying /\ run'[r].committed = run[r].committed
         /\ run'[r].repaired = run[r].repaired /\ UNCHANGED sessions
<1>1. run[r] \in RunRecord /\ run \in [Runs -> RunRecord]
  BY DEF TypeOK
<1>2. CASE Plan(r)
  BY <1>1, <1>2 DEF Plan, Becomes, At, RunRecord, OnTarget
<1>3. CASE ExportSnapshot(r)
  BY <1>1, <1>3 DEF ExportSnapshot, Becomes, At, RunRecord, OnTarget
<1>4. CASE DumpPreData(r)
  BY <1>1, <1>4 DEF DumpPreData, Becomes, At, RunRecord, OnTarget
<1>5. QED BY <1>2, <1>3, <1>4

(* The sessions are ended for r, and the runs that act on the target hear  *)
(* of it.                                                                  *)
LEMMA Terminated ==
  ASSUME TypeOK, NEW r \in Runs, TerminateSessions(r), NEW q \in Runs
  PROVE  /\ KnowsTheSame(q) /\ run'[q].sequences = run[q].sequences
         /\ run'[q].postData = run[q].postData
         /\ run'[q].copying = run[q].copying /\ run'[q].committed = run[q].committed
         /\ run'[q].restored = run[q].restored /\ run'[q].repaired = run[q].repaired
         /\ q = r => /\ run[q].at = "dumped" /\ run'[q].at = "terminated"
                     /\ run'[q].alone = (\A p \in Runs \ {q} : run[p].at \notin OnTarget)
         /\ q # r => /\ run'[q].at = run[q].at
                     /\ run[q].at \in OnTarget => ~run'[q].alone
<1>1. run[q] \in RunRecord /\ run \in [Runs -> RunRecord]
  BY DEF TypeOK
<1>2. CASE q = r
  <2> DEFINE lonely == {p \in Runs \ {r} : run[p].at \in OnTarget} = {}
  <2>1. run'[q] = [run[q] EXCEPT !.at = "terminated", !.alone = lonely] /\ run[q].at = "dumped"
    BY <1>2 DEF TerminateSessions, At
  <2>2. lonely = (\A p \in Runs \ {q} : run[p].at \notin OnTarget)
    BY <1>2
  <2> HIDE DEF lonely
  <2>3. QED BY <1>1, <1>2, <2>1, <2>2 DEF KnowsTheSame, RunRecord
<1>3. CASE q # r /\ run[q].at \in OnTarget
  <2>1. run'[q] = [run[q] EXCEPT !.alone = FALSE]
    BY <1>3 DEF TerminateSessions
  <2>2. QED BY <1>1, <1>3, <2>1 DEF KnowsTheSame, RunRecord
<1>4. CASE q # r /\ run[q].at \notin OnTarget
  <2>1. run'[q] = run[q]
    BY <1>4 DEF TerminateSessions
  <2>2. QED BY <1>4, <2>1 DEF KnowsTheSame
<1>5. QED BY <1>2, <1>3, <1>4

LEMMA Failed ==
  ASSUME TypeOK, NEW r \in Runs, Fail(r)
  PROVE  run'[r] = [NoRun EXCEPT !.at = "failed"] /\ sessions' \subseteq sessions
<1>1. run \in [Runs -> RunRecord]
  BY DEF TypeOK
<1>2. QED BY <1>1 DEF Fail, Becomes, SessionsOf

-----------------------------------------------------------------------------
(* What happens to r: nothing, a step of its own, or a reset. *)
LEMMA RecordCases ==
  ASSUME TypeOK, [Next]_vars, NEW r \in Runs
  PROVE  \/ run'[r] = run[r]
         \/ \E q \in Runs : TerminateSessions(q)
         \/ Plan(r) \/ ExportSnapshot(r) \/ DumpPreData(r)
         \/ DropDatabase(r) \/ CreateDatabase(r) \/ ConnectTarget(r) \/ ApplyPreData(r)
         \/ \E t \in Tables : OpenTarget(r, t)
         \/ \E t \in Tables : CommitTable(r, t)
         \/ DumpPostData(r) \/ RestoreStarts(r) \/ RestoreReturns(r)
         \/ \E t \in Tables : AddKey(r, t) /\ run'[r] # run[r]
         \/ \E t \in Tables : RepairSequence(r, t)
         \/ Finish(r) \/ Fail(r)
<1> SUFFICES ASSUME run'[r] # run[r], \A q \in Runs : ~TerminateSessions(q)
             PROVE  \/ Plan(r) \/ ExportSnapshot(r) \/ DumpPreData(r)
                    \/ DropDatabase(r) \/ CreateDatabase(r) \/ ConnectTarget(r) \/ ApplyPreData(r)
                    \/ \E t \in Tables : OpenTarget(r, t)
                    \/ \E t \in Tables : CommitTable(r, t)
                    \/ DumpPostData(r) \/ RestoreStarts(r) \/ RestoreReturns(r)
                    \/ \E t \in Tables : AddKey(r, t) /\ run'[r] # run[r]
                    \/ \E t \in Tables : RepairSequence(r, t)
                    \/ Finish(r) \/ Fail(r)
  OBVIOUS
<1>0. run \in [Runs -> RunRecord]
  BY DEF TypeOK
<1>1. \A q \in Runs : \A record : Becomes(q, record) => q = r
  BY <1>0 DEF Becomes
<1>2. ~UNCHANGED run
  OBVIOUS
<1>3. \A t \in Tables : ~(Migrate(t) \/ Write(t))
  BY <1>2, SourceStep
<1>4. \A q \in Runs : Plan(q) \/ ExportSnapshot(q) \/ DumpPreData(q) => q = r
  BY <1>1 DEF Plan, ExportSnapshot, DumpPreData
<1>5. \A q \in Runs : DropDatabase(q) \/ CreateDatabase(q) \/ ConnectTarget(q) \/ ApplyPreData(q)
                        => q = r
  BY <1>1 DEF DropDatabase, CreateDatabase, ConnectTarget, ApplyPreData
<1>6. \A q \in Runs, t \in Tables : OpenTarget(q, t) \/ CommitTable(q, t) => q = r
  BY <1>1 DEF OpenTarget, CommitTable
<1>7. \A q \in Runs : DumpPostData(q) \/ RestoreStarts(q) \/ RestoreReturns(q) => q = r
  BY <1>1 DEF DumpPostData, RestoreStarts, RestoreReturns
<1>8. \A q \in Runs, t \in Tables : AddKey(q, t) \/ RepairSequence(q, t) => q = r
  BY <1>1, <1>2 DEF AddKey, RepairSequence
<1>9. \A q \in Runs : (Finish(q) \/ Fail(q) => q = r) /\ ~SessionEnds(q)
  BY <1>1, <1>2 DEF Finish, Fail, SessionEnds
<1>10. ~UNCHANGED vars
  BY <1>2 DEF vars
<1> HIDE DEF Becomes
<1>11. QED BY StepCases, <1>3, <1>4, <1>5, <1>6, <1>7, <1>8, <1>9, <1>10

(* A run learns of the source what is there, and forgets it when it fails. *)
LEMMA SeenStep ==
  ASSUME TypeOK, TypeOK', SourceNumbered, [Next]_vars, NEW r \in Runs, Seen(r)
  PROVE  Seen(r)'
<1>0. SourceMoved
  BY SourceForward
<1>1. CASE Plan(r)
  BY <1>1, SeenPlanned
<1>2. CASE ExportSnapshot(r)
  BY <1>2, SeenExported
<1>3. CASE DumpPreData(r)
  BY <1>3, SeenDumped
<1>4. CASE Fail(r)
  BY <1>0, <1>4, Failed, SeenForgotten DEF Fail, sourceVars
<1>5. CASE KnowsTheSame(r)
  BY <1>0, <1>5, SeenStays
<1>6. ASSUME NEW q \in Runs, TerminateSessions(q) PROVE KnowsTheSame(r)
  BY <1>6, Terminated
<1>7. CASE DropDatabase(r) \/ CreateDatabase(r) \/ ConnectTarget(r) \/ ApplyPreData(r)
  BY <1>5, <1>7, Advancing DEF Advances, Keeps
<1>8. CASE RestoreStarts(r) \/ RestoreReturns(r) \/ Finish(r)
  BY <1>5, <1>8, Advancing DEF Advances, Keeps
<1>9. ASSUME NEW t \in Tables, OpenTarget(r, t) \/ CommitTable(r, t) PROVE KnowsTheSame(r)
  BY <1>9, Opened, Committed DEF Keeps
<1>10. ASSUME NEW t \in Tables, (AddKey(r, t) /\ run'[r] # run[r]) \/ RepairSequence(r, t)
       PROVE  KnowsTheSame(r)
  BY <1>10, KeyAdded, Repaired DEF Keeps
<1>11. CASE DumpPostData(r)
  BY <1>5, <1>11, PostDataDumped
<1>12. CASE run'[r] = run[r]
  BY <1>5, <1>12 DEF KnowsTheSame
<1>13. QED
  BY RecordCases, <1>1, <1>2, <1>3, <1>4, <1>5, <1>6, <1>7, <1>8, <1>9, <1>10, <1>11, <1>12

(* A committed table is not opened again, and a sequence is repaired only  *)
(* when everything is restored.                                            *)
LEMMA InTurnStep ==
  ASSUME TypeOK, [Next]_vars, NEW r \in Runs, InTurn(r)
  PROVE  InTurn(r)'
<1>1. ASSUME NEW q \in Runs, TerminateSessions(q) PROVE InTurn(r)'
  <2>1. /\ run'[r].copying = run[r].copying /\ run'[r].committed = run[r].committed
        /\ run'[r].repaired = run[r].repaired
        /\ run'[r].at = run[r].at \/ run[r].at = "dumped"
    BY <1>1, Terminated
  <2>2. QED BY <2>1 DEF InTurn
<1>2. CASE Plan(r) \/ ExportSnapshot(r) \/ DumpPreData(r)
  <2>1. run[r].at # "done"
    BY <1>2 DEF Plan, ExportSnapshot, DumpPreData, At
  <2>2. QED BY <1>2, <2>1, Prepared DEF InTurn
<1>3. CASE DropDatabase(r) \/ CreateDatabase(r) \/ ConnectTarget(r) \/ ApplyPreData(r)
  BY <1>3, Advancing DEF Advances, InTurn
<1>4. CASE RestoreStarts(r) \/ RestoreReturns(r) \/ Finish(r)
  BY <1>4, Advancing DEF Advances, InTurn
<1>5. ASSUME NEW t \in Tables, OpenTarget(r, t) PROVE InTurn(r)'
  BY <1>5, Opened DEF OpenTarget, InTurn
<1>6. ASSUME NEW t \in Tables, CommitTable(r, t) PROVE InTurn(r)'
  BY <1>6, Committed DEF InTurn
<1>7. ASSUME NEW t \in Tables, AddKey(r, t) /\ run'[r] # run[r] PROVE InTurn(r)'
  BY <1>7, KeyAdded DEF InTurn
<1>8. ASSUME NEW t \in Tables, RepairSequence(r, t) PROVE InTurn(r)'
  BY <1>8, Repaired DEF InTurn
<1>9. CASE DumpPostData(r)
  BY <1>9, PostDataDumped DEF InTurn
<1>10. CASE Fail(r)
  <2>1. run'[r].copying = {} /\ run'[r].committed = {} /\ run'[r].repaired = {}
    BY <1>10, Failed DEF NoRun
  <2>2. QED BY <2>1 DEF InTurn
<1>11. CASE run'[r] = run[r]
  BY <1>11 DEF InTurn
<1>12. QED
  BY RecordCases, <1>1, <1>2, <1>3, <1>4, <1>5, <1>6, <1>7, <1>8, <1>9, <1>10, <1>11

-----------------------------------------------------------------------------
(* Only a reset takes a run to the target. *)
LEMMA OnlyResetEnters ==
  ASSUME TypeOK, [Next]_vars, NEW r \in Runs, \A q \in Runs : ~TerminateSessions(q),
         run'[r].at \in OnTarget
  PROVE  run[r].at \in OnTarget /\ run'[r].alone = run[r].alone
<1>1. CASE Plan(r) \/ ExportSnapshot(r) \/ DumpPreData(r)
  BY <1>1, Prepared
<1>2. CASE DropDatabase(r) \/ CreateDatabase(r) \/ ConnectTarget(r) \/ ApplyPreData(r)
  BY <1>2, Advancing DEF Advances, Keeps, OnTarget
<1>3. CASE RestoreStarts(r) \/ RestoreReturns(r) \/ Finish(r)
  BY <1>3, Advancing DEF Advances, Keeps, OnTarget
<1>4. ASSUME NEW t \in Tables, OpenTarget(r, t) \/ CommitTable(r, t)
      PROVE  run[r].at \in OnTarget /\ run'[r].alone = run[r].alone
  BY <1>4, Opened, Committed DEF Keeps, OnTarget
<1>5. ASSUME NEW t \in Tables, (AddKey(r, t) /\ run'[r] # run[r]) \/ RepairSequence(r, t)
      PROVE  run[r].at \in OnTarget /\ run'[r].alone = run[r].alone
  BY <1>5, KeyAdded, Repaired DEF Keeps, OnTarget
<1>6. CASE DumpPostData(r)
  BY <1>6, PostDataDumped DEF OnTarget
<1>7. CASE Fail(r)
  BY <1>7, Failed DEF NoRun, OnTarget
<1>8. CASE run'[r] = run[r]
  BY <1>8
<1>9. QED BY RecordCases, <1>1, <1>2, <1>3, <1>4, <1>5, <1>6, <1>7, <1>8

(* Only a run that acts on the target opens a session there. *)
LEMMA OnlyActiveOpens ==
  ASSUME TypeOK, [Next]_vars, NEW s \in sessions', s \notin sessions
  PROVE  s.run \in Runs /\ run[s.run].at \in OnTarget
<1>1. ASSUME NEW q \in Runs, NEW use, run[q].at \in OnTarget, Connect(q, use)
      PROVE  s.run \in Runs /\ run[s.run].at \in OnTarget
  BY <1>1 DEF Connect, Session
<1>2. ASSUME NEW q \in Runs, ConnectTarget(q) \/ RestoreStarts(q)
      PROVE  s.run \in Runs /\ run[s.run].at \in OnTarget
  BY <1>1, <1>2 DEF ConnectTarget, RestoreStarts, At, OnTarget
<1>3. ASSUME NEW q \in Runs, NEW t \in Tables, OpenTarget(q, t)
      PROVE  s.run \in Runs /\ run[s.run].at \in OnTarget
  BY <1>1, <1>3 DEF OpenTarget, At, OnTarget
<1>4. \A t \in Tables : ~(Migrate(t) \/ Write(t))
  BY SourceStep
<1>5. \A q \in Runs : ~(Plan(q) \/ ExportSnapshot(q) \/ DumpPreData(q) \/ TerminateSessions(q))
  BY DEF Plan, ExportSnapshot, DumpPreData, TerminateSessions
<1>6. \A q \in Runs : ~(DropDatabase(q) \/ CreateDatabase(q) \/ ApplyPreData(q))
  BY DEF DropDatabase, CreateDatabase, ApplyPreData
<1>7. \A q \in Runs, t \in Tables : ~(CommitTable(q, t) \/ AddKey(q, t) \/ RepairSequence(q, t))
  BY DEF CommitTable, AddKey, RepairSequence, Close
<1>8. \A q \in Runs : ~(DumpPostData(q) \/ RestoreReturns(q) \/ Finish(q))
  BY DEF DumpPostData, RestoreReturns, Finish, Close
<1>9. \A q \in Runs : ~(Fail(q) \/ SessionEnds(q))
  BY DEF Fail, SessionEnds, SessionsOf
<1>10. ~UNCHANGED vars
  BY DEF vars
<1>11. QED BY StepCases, <1>2, <1>3, <1>4, <1>5, <1>6, <1>7, <1>8, <1>9, <1>10

(* A run that is alone on the target stays so until another one resets it. *)
LEMMA LeftAloneStep ==
  ASSUME TypeOK, [Next]_vars, \A q \in Runs : LeftAlone(q), NEW r \in Runs
  PROVE  LeftAlone(r)'
<1> SUFFICES ASSUME run'[r].at \in OnTarget, run'[r].alone
             PROVE  /\ \A q \in Runs \ {r} : run'[q].at \notin OnTarget
                    /\ \A s \in sessions' : s.run = r
  BY DEF LeftAlone, Lone
<1>1. ASSUME NEW p \in Runs, TerminateSessions(p)
      PROVE  /\ \A q \in Runs \ {r} : run'[q].at \notin OnTarget
             /\ \A s \in sessions' : s.run = r
  <2>1. sessions' = {}
    BY <1>1 DEF TerminateSessions
  <2>2. CASE p = r
    <3>1. \A q \in Runs \ {r} : run[q].at \notin OnTarget
      BY <1>1, <2>2, Terminated
    <3>2. \A q \in Runs \ {r} : run'[q].at = run[q].at
      BY <1>1, <2>2, Terminated
    <3>3. QED BY <2>1, <3>1, <3>2
  <2>3. CASE p # r
    BY <1>1, <2>3, Terminated
  <2>4. QED BY <2>2, <2>3
<1>2. CASE \A p \in Runs : ~TerminateSessions(p)
  <2>1. run[r].at \in OnTarget /\ run[r].alone
    BY <1>2, OnlyResetEnters
  <2>2. /\ \A q \in Runs \ {r} : run[q].at \notin OnTarget
        /\ \A s \in sessions : s.run = r
    BY <2>1 DEF LeftAlone, Lone
  <2>3. \A q \in Runs \ {r} : run'[q].at \notin OnTarget
    BY <1>2, <2>2, OnlyResetEnters
  <2>4. \A s \in sessions' : s.run = r
    BY <2>2, OnlyActiveOpens
  <2>5. QED BY <2>3, <2>4
<1>3. QED BY <1>1, <1>2

-----------------------------------------------------------------------------
(* What was intact before a step is all that is intact after it. *)
LEMMA IntactBefore ==
  ASSUME TypeOK, NEW r \in Runs, NEW t \in Tables, Seen(r), SourceMoved, KnowsTheSame(r),
         Intact(r, t)'
  PROVE  Intact(r, t)
<1>1. run[r].snapshot[t].file <= migrations /\ run'[r].snapshot = run[r].snapshot
  BY DEF Seen, KnowsTheSame
<1>2. run[r].snapshot[t].file \in Nat /\ migrations \in Nat
  BY DEF TypeOK, RunRecord, SourceTables
<1>3. source'[t].file # 0 /\ source'[t].file = run[r].snapshot[t].file
  BY <1>1 DEF Intact
<1>4. source'[t].file \in {source[t].file, 0} \/ source'[t].file > migrations
  BY DEF SourceMoved
<1>5. QED BY <1>1, <1>2, <1>3, <1>4 DEF Intact

Fresh == {"dropped", "created", "connected"}
Filling == {"copying", "archived", "restoring", "restored"}

(* What the target holds of r stays, if nothing is done there and r goes   *)
(* no further than before.                                                 *)
LEMMA HoldsStays ==
  ASSUME TypeOK, NEW r \in Runs, Seen(r), SourceMoved, Holds(r), UNCHANGED contents,
         KnowsTheSame(r), Lone(r)' => Lone(r),
         run'[r].committed = run[r].committed, run'[r].restored = run[r].restored,
         run'[r].repaired = run[r].repaired, run'[r].postData = run[r].postData,
         run'[r].at \in Fresh => run[r].at \in Fresh,
         run'[r].at \in Filling => run[r].at \in Filling,
         run'[r].at \in Filling \ {"copying"} => run[r].at # "copying"
  PROVE  Holds(r)'
<1> SUFFICES ASSUME Lone(r)' PROVE /\ run'[r].at \in Fresh => IsNew'
                                   /\ run'[r].at \in Filling => Filled(r)'
  BY DEF Holds, Fresh, Filling
<1>1. UNCHANGED <<columns, copied, keys, next>>
  BY DEF contents
<1>2. run'[r].at \in Fresh => IsNew'
  BY <1>1 DEF Holds, IsNew, Fresh
<1>3. ASSUME run'[r].at \in Filling PROVE Filled(r)'
  <2>1. Filled(r)
    BY <1>3 DEF Holds, Filling
  <2>2. \A t \in Tables : Intact(r, t)' => Intact(r, t)
    BY IntactBefore
  <2>3. \A c \in copied : c.table \in Tables
    BY DEF TypeOK
  <2>4. CopiesOf(r)'
    BY <1>1, <2>1, <2>2, <2>3 DEF Filled, CopiesOf, KnowsTheSame
  <2>5. \A t \in run'[r].repaired : \A v \in RowsIn(t)' : v < next'[t]
    BY <1>1, <2>1 DEF Filled, RowsIn
  <2>6. run'[r].at # "copying" => \A t \in Keyed : Intact(r, t)' => t \in run'[r].postData
    BY <1>3, <2>1, <2>2, SharedAssumption DEF Filled
  <2>7. /\ \A t \in Tables : columns'[t] = run'[r].preData[t]
        /\ run'[r].restored \subseteq keys'
    BY <1>1, <2>1 DEF Filled, KnowsTheSame
  <2>8. QED BY <2>4, <2>5, <2>6, <2>7 DEF Filled
<1>4. QED BY <1>2, <1>3

LEMMA HoldsAdvanced ==
  ASSUME TypeOK, NEW r \in Runs, Seen(r), SourceMoved, Holds(r), UNCHANGED contents,
         NEW from, NEW to, Advances(r, from, to),
         from \in OnTarget \/ to \notin OnTarget,
         to \in Fresh => from \in Fresh, to \in Filling => from \in Filling \ {"copying"}
  PROVE  Holds(r)'
<1>1. Lone(r)' => Lone(r)
  BY DEF Advances, Keeps, Lone
<1>2. QED BY <1>1, HoldsStays DEF Advances, Keeps

(* Someone else does nothing to the target while r is alone there. *)
LEMMA OthersAway ==
  ASSUME TypeOK, NEW r \in Runs, Lone(r), LeftAlone(r), NEW q \in Runs, q # r
  PROVE  /\ ~DropDatabase(q) /\ ~ApplyPreData(q)
         /\ \A t \in Tables : ~CommitTable(q, t) /\ ~AddKey(q, t) /\ ~RepairSequence(q, t)
<1>1. run[q].at \notin OnTarget /\ ~Alive(q, "restore")
  BY DEF LeftAlone, Alive, Session
<1>2. QED BY <1>1 DEF DropDatabase, ApplyPreData, CommitTable, AddKey, RepairSequence, At, OnTarget

(* The steps of r that fill the target. *)
LEMMA HoldsDropped ==
  ASSUME TypeOK, NEW r \in Runs, DropDatabase(r)
  PROVE  Holds(r)'
<1>1. run'[r].at = "dropped"
  BY Advancing DEF Advances
<1>2. IsNew'
  BY DEF DropDatabase, IsNew
<1>3. QED BY <1>1, <1>2 DEF Holds

LEMMA HoldsApplied ==
  ASSUME TypeOK, NEW r \in Runs, Progress(r), InTurn(r), Holds(r), ApplyPreData(r)
  PROVE  Holds(r)'
<1>1. Advances(r, "connected", "copying")
  BY Advancing
<1>2. SUFFICES ASSUME Lone(r)' PROVE Filled(r)'
  BY <1>1 DEF Holds, Advances
<1>3. Lone(r)
  BY <1>1, <1>2 DEF Lone, Advances, Keeps, OnTarget
<1>4. IsNew /\ run[r].committed = {} /\ run[r].restored = {} /\ run[r].repaired = {}
  BY <1>1, <1>3 DEF Holds, Advances, Progress, BeforeCopy, InTurn
<1>5. /\ copied' = {} /\ run'[r].committed = {} /\ run'[r].restored = {} /\ run'[r].repaired = {}
      /\ run'[r].at = "copying" /\ run'[r].preData = run[r].preData
  BY <1>1, <1>4 DEF ApplyPreData, IsNew, Advances, Keeps, KnowsTheSame
<1>6. \A t \in Tables : columns'[t] = run[r].preData[t]
  BY <1>4 DEF ApplyPreData, IsNew
<1>7. CopiesOf(r)'
  BY <1>5 DEF CopiesOf
<1>8. QED BY <1>5, <1>6, <1>7 DEF Filled

LEMMA HoldsCommitted ==
  ASSUME TypeOK, NEW r \in Runs, NEW t \in Tables, Seen(r), SourceMoved, InTurn(r), Holds(r),
         CommitTable(r, t)
  PROVE  Holds(r)'
<1>1. /\ run[r].at = "copying" /\ run'[r].at = "copying" /\ Keeps(r) /\ KnowsTheSame(r)
      /\ run'[r].committed = run[r].committed \cup {t}
      /\ run'[r].restored = run[r].restored /\ run'[r].repaired = run[r].repaired
  BY Committed DEF Keeps
<1>2. SUFFICES ASSUME Lone(r)' PROVE Filled(r)'
  BY <1>1 DEF Holds
<1>3. Filled(r)
  BY <1>1, <1>2 DEF Lone, Keeps, Holds
<1>4. PICK new : /\ new.run = r /\ new.table = t /\ new.rows = SourceRows(r, t)
                 /\ copied' = copied \cup {new}
  BY DEF CommitTable
<1>5. t \notin run[r].committed /\ run[r].repaired = {}
  BY <1>1 DEF CommitTable, InTurn
<1>6. \A u \in Tables : Intact(r, u)' => Intact(r, u)
  BY <1>1, IntactBefore
<1>7. run'[r].snapshot = run[r].snapshot
  BY <1>1 DEF KnowsTheSame
<1>8. ASSUME NEW c \in copied'
      PROVE  /\ c.run = r /\ c.table \in run'[r].committed
             /\ Intact(r, c.table)' => c.rows = run'[r].snapshot[c.table].rows
  <2>1. CASE c \in copied
    <3>1. c.table \in Tables
      BY <2>1 DEF TypeOK
    <3>2. QED BY <1>1, <1>3, <1>6, <1>7, <2>1, <3>1 DEF Filled, CopiesOf
  <2>2. CASE c = new
    <3>1. Intact(r, t)' => SourceRows(r, t) = run[r].snapshot[t].rows
      BY <1>6 DEF Intact, SourceRows
    <3>2. QED BY <1>1, <1>4, <1>7, <2>2, <3>1
  <2>3. QED BY <1>4, <2>1, <2>2
<1>9. \A c, d \in copied' : c.table = d.table => c = d
  <2>1. \A c \in copied : c.table # t
    BY <1>3, <1>5 DEF Filled, CopiesOf
  <2>2. QED BY <1>3, <1>4, <2>1 DEF Filled, CopiesOf
<1>10. \A u \in run'[r].committed : \E c \in copied' : c.table = u
  BY <1>1, <1>3, <1>4 DEF Filled, CopiesOf
<1>11. CopiesOf(r)'
  BY <1>8, <1>9, <1>10 DEF CopiesOf
<1>12. /\ \A u \in Tables : columns'[u] = run'[r].preData[u]
       /\ run'[r].restored \subseteq keys'
  BY <1>1, <1>3 DEF Filled, CommitTable, KnowsTheSame
<1>13. QED BY <1>1, <1>5, <1>11, <1>12 DEF Filled

LEMMA HoldsDumped ==
  ASSUME TypeOK, SourceNumbered, NEW r \in Runs, Seen(r), SourceMoved, InTurn(r), Holds(r),
         DumpPostData(r)
  PROVE  Holds(r)'
<1>1. /\ run[r].at = "copying" /\ run'[r].at = "archived" /\ KnowsTheSame(r)
      /\ run'[r].postData = PresentTables \cap Keyed /\ run'[r].alone = run[r].alone
      /\ run'[r].committed = run[r].committed
      /\ run'[r].restored = run[r].restored /\ run'[r].repaired = run[r].repaired
  BY PostDataDumped
<1>2. SUFFICES ASSUME Lone(r)' PROVE Filled(r)'
  BY <1>1 DEF Holds
<1>3. Filled(r)
  BY <1>1, <1>2 DEF Lone, Holds, OnTarget
<1>4. UNCHANGED <<columns, copied, keys, next>>
  BY DEF DumpPostData, contents
<1>5. \A t \in Tables : Intact(r, t)' => Intact(r, t)
  BY <1>1, IntactBefore
<1>6. CopiesOf(r)'
  <2>1. \A c \in copied : c.table \in Tables
    BY DEF TypeOK
  <2>2. QED BY <1>1, <1>3, <1>4, <1>5, <2>1 DEF Filled, CopiesOf, KnowsTheSame
<1>7. \A t \in Keyed : Intact(r, t)' => t \in run'[r].postData
  <2>1. \A t \in Tables : Intact(r, t) => t \in PresentTables
    BY DEF Intact, SourceNumbered, PresentTables, Present
  <2>2. QED BY <1>1, <1>5, <2>1, SharedAssumption
<1>8. run'[r].repaired = {}
  BY <1>1 DEF InTurn
<1>9. /\ \A t \in Tables : columns'[t] = run'[r].preData[t]
      /\ run'[r].restored \subseteq keys'
  BY <1>1, <1>3, <1>4 DEF Filled, KnowsTheSame
<1>10. QED BY <1>6, <1>7, <1>8, <1>9 DEF Filled

LEMMA HoldsKeyed ==
  ASSUME TypeOK, NEW r \in Runs, NEW t \in Tables, Seen(r), SourceMoved, Holds(r), AddKey(r, t)
  PROVE  Holds(r)'
<1>1. \/ run'[r] = run[r] /\ run[r].at = "failed"
      \/ /\ run[r].at = "restoring" /\ run'[r].at = "restoring" /\ Keeps(r)
         /\ run'[r].committed = run[r].committed
         /\ run'[r].restored \subseteq run[r].restored \cup {t}
         /\ run'[r].repaired = run[r].repaired
  <2>1. CASE run'[r] = run[r]
    BY <2>1 DEF AddKey, At, Keeps, KnowsTheSame
  <2>2. QED BY <2>1, KeyAdded
<1>2. CASE run'[r] = run[r] /\ run[r].at = "failed"
  BY <1>2 DEF Holds, Lone, OnTarget
<1>3. CASE /\ run[r].at = "restoring" /\ run'[r].at = "restoring" /\ Keeps(r)
           /\ run'[r].committed = run[r].committed
           /\ run'[r].restored \subseteq run[r].restored \cup {t}
           /\ run'[r].repaired = run[r].repaired
  <2>1. SUFFICES ASSUME Lone(r)' PROVE Filled(r)'
    BY <1>3 DEF Holds
  <2>2. Filled(r)
    BY <1>3, <2>1 DEF Lone, Holds, Keeps, OnTarget
  <2>3. UNCHANGED <<columns, copied, next>> /\ keys' = keys \cup {t}
    BY DEF AddKey
  <2>4. \A u \in Tables : Intact(r, u)' => Intact(r, u)
    BY <1>3, IntactBefore DEF Keeps
  <2>5. CopiesOf(r)'
    <3>1. \A c \in copied : c.table \in Tables
      BY DEF TypeOK
    <3>2. QED BY <1>3, <2>2, <2>3, <2>4, <3>1 DEF Filled, CopiesOf, Keeps, KnowsTheSame
  <2>6. \A u \in Keyed : Intact(r, u)' => u \in run'[r].postData
    BY <1>3, <2>2, <2>4, SharedAssumption DEF Filled, Keeps
  <2>7. \A u \in run'[r].repaired : \A v \in RowsIn(u)' : v < next'[u]
    BY <1>3, <2>2, <2>3 DEF Filled, RowsIn
  <2>8. /\ \A u \in Tables : columns'[u] = run'[r].preData[u]
        /\ run'[r].restored \subseteq keys'
    BY <1>3, <2>2, <2>3 DEF Filled, Keeps, KnowsTheSame
  <2>9. QED BY <2>5, <2>6, <2>7, <2>8 DEF Filled
<1>4. QED BY <1>1, <1>2, <1>3

(* setval puts the sequence behind every row. *)
LEMMA SetvalPassesAll ==
  ASSUME NEW S \in SUBSET Int, S # {} => \E w \in S : \A v \in S : w >= v
  PROVE  \A v \in S : v < SetvalMax(S)
<1> SUFFICES ASSUME NEW v \in S PROVE v < SetvalMax(S)
  OBVIOUS
<1>1. PICK w \in S : \A u \in S : w >= u
  OBVIOUS
<1>2. Max(S) \in S /\ \A u \in S : Max(S) >= u
  BY <1>1 DEF Max
<1>3. SetvalMax(S) = Max(S) + 1
  BY DEF SetvalMax
<1>4. v \in Int /\ Max(S) \in Int /\ Max(S) >= v
  BY <1>2
<1>5. QED BY <1>3, <1>4

LEMMA HoldsRepaired ==
  ASSUME TypeOK, NEW r \in Runs, NEW t \in Tables, Seen(r), SourceMoved, Holds(r),
         RepairSequence(r, t)
  PROVE  Holds(r)'
<1>1. /\ run[r].at = "restored" /\ run'[r].at = "restored" /\ Keeps(r)
      /\ run'[r].committed = run[r].committed /\ run'[r].restored = run[r].restored
      /\ run'[r].repaired = run[r].repaired \cup {t}
  BY Repaired
<1>2. SUFFICES ASSUME Lone(r)' PROVE Filled(r)'
  BY <1>1 DEF Holds
<1>3. Filled(r)
  BY <1>1, <1>2 DEF Lone, Holds, Keeps
<1>4. UNCHANGED <<columns, copied, keys>> /\ next' = [next EXCEPT ![t] = SetvalMax(RowsIn(t))]
  BY DEF RepairSequence
<1>5. \A u \in Tables : Intact(r, u)' => Intact(r, u)
  BY <1>1, IntactBefore DEF Keeps
<1>6. CopiesOf(r)'
  <2>1. \A c \in copied : c.table \in Tables
    BY DEF TypeOK
  <2>2. QED BY <1>1, <1>3, <1>4, <1>5, <2>1 DEF Filled, CopiesOf, Keeps, KnowsTheSame
<1>7. \A u \in Keyed : Intact(r, u)' => u \in run'[r].postData
  BY <1>1, <1>3, <1>5, SharedAssumption DEF Filled, Keeps
<1>8. ASSUME NEW u \in run'[r].repaired PROVE \A v \in RowsIn(u)' : v < next'[u]
  <2>1. RowsIn(u)' = RowsIn(u) /\ next \in [Tables -> Int]
    BY <1>4 DEF RowsIn, TypeOK
  <2>2. u \in Tables
    BY <1>1 DEF TypeOK, RunRecord
  <2>3. CASE u = t
    <3>1. RowsIn(t) \in SUBSET Int
      BY RowsAreNumbers
    <3>2. RowsIn(t) # {} => \E w \in RowsIn(t) : \A v \in RowsIn(t) : w >= v
      BY DEF RepairSequence
    <3>3. \A v \in RowsIn(t) : v < SetvalMax(RowsIn(t))
      BY <3>1, <3>2, SetvalPassesAll
    <3>4. QED BY <1>4, <2>1, <2>3, <3>3
  <2>4. CASE u # t
    BY <1>1, <1>3, <1>4, <2>1, <2>2, <2>4 DEF Filled
  <2>5. QED BY <2>3, <2>4
<1>9. /\ \A u \in Tables : columns'[u] = run'[r].preData[u]
      /\ run'[r].restored \subseteq keys'
  BY <1>1, <1>3, <1>4 DEF Filled, Keeps, KnowsTheSame
<1>10. QED BY <1>6, <1>7, <1>8, <1>9 DEF Filled

(* Every step keeps what the target holds of a lone run.                   *)
LEMMA HoldsStep ==
  ASSUME TInv, SourceNumbered, [Next]_vars, NEW r \in Runs,
         Seen(r), InTurn(r), LeftAlone(r), Holds(r)
  PROVE  Holds(r)'
<1>0. TypeOK /\ Progress(r) /\ SourceMoved
  BY SourceForward DEF TInv
<1> SUFFICES ASSUME Lone(r)' PROVE Holds(r)'
  BY DEF Holds
<1>1. ASSUME NEW q \in Runs, TerminateSessions(q) PROVE Holds(r)'
  <2>1. q = r
    BY <1>0, <1>1, Terminated DEF Lone
  <2>2. TerminateSessions(r)
    BY <1>1, <2>1
  <2>3. run'[r].at = "terminated"
    BY <1>0, <2>2 DEF TerminateSessions, TypeOK, RunRecord
  <2>4. QED BY <2>3 DEF Holds
<1>2. SUFFICES ASSUME \A q \in Runs : ~TerminateSessions(q) PROVE Holds(r)'
  BY <1>1
<1>3. Lone(r)
  BY <1>0, <1>2, OnlyResetEnters DEF Lone
<1>4. CASE run'[r] = run[r] /\ UNCHANGED contents
  BY <1>0, <1>3, <1>4, HoldsStays DEF KnowsTheSame
<1>5. ASSUME NEW t \in Tables, Migrate(t) \/ Write(t) PROVE Holds(r)'
  BY <1>0, <1>4, <1>5, SourceStep
<1>6. CASE Plan(r) \/ ExportSnapshot(r) \/ DumpPreData(r) \/ Finish(r) \/ Fail(r)
  <2>1. run'[r].at \notin OnTarget
    BY <1>0, <1>6, Prepared, Advancing, Failed DEF Advances, NoRun, OnTarget
  <2>2. QED BY <2>1 DEF Lone
<1>7. CASE DropDatabase(r)
  BY <1>0, <1>7, HoldsDropped
<1>8. CASE CreateDatabase(r) \/ ConnectTarget(r)
  <2>1. UNCHANGED contents
    BY <1>8 DEF CreateDatabase, ConnectTarget
  <2>2. QED BY <1>0, <1>8, <2>1, Advancing, HoldsAdvanced DEF Fresh, Filling, OnTarget
<1>9. CASE ApplyPreData(r)
  BY <1>0, <1>9, HoldsApplied
<1>10. ASSUME NEW t \in Tables, OpenTarget(r, t) PROVE Holds(r)'
  <2>1. UNCHANGED contents
    BY <1>10 DEF OpenTarget
  <2>2. QED BY <1>0, <1>3, <1>10, <2>1, Opened, HoldsStays DEF Keeps, Fresh, Filling
<1>11. ASSUME NEW t \in Tables, CommitTable(r, t) PROVE Holds(r)'
  BY <1>0, <1>11, HoldsCommitted
<1>12. CASE DumpPostData(r)
  BY <1>0, <1>12, HoldsDumped
<1>13. CASE RestoreStarts(r) \/ RestoreReturns(r)
  <2>1. UNCHANGED contents
    BY <1>13 DEF RestoreStarts, RestoreReturns
  <2>2. QED BY <1>0, <1>13, <2>1, Advancing, HoldsAdvanced DEF Fresh, Filling, OnTarget
<1>14. ASSUME NEW t \in Tables, AddKey(r, t) PROVE Holds(r)'
  BY <1>0, <1>14, HoldsKeyed
<1>15. ASSUME NEW t \in Tables, RepairSequence(r, t) PROVE Holds(r)'
  BY <1>0, <1>15, HoldsRepaired
<1>16. ASSUME NEW q \in Runs, q # r,
              \/ Plan(q) \/ ExportSnapshot(q) \/ DumpPreData(q)
              \/ CreateDatabase(q) \/ ConnectTarget(q)
              \/ \E t \in Tables : OpenTarget(q, t)
              \/ DumpPostData(q) \/ RestoreStarts(q) \/ RestoreReturns(q)
              \/ Finish(q) \/ Fail(q)
       PROVE  Holds(r)'
  <2>1. UNCHANGED contents /\ \E record : Becomes(q, record)
    BY <1>16 DEF Plan, ExportSnapshot, DumpPreData, CreateDatabase, ConnectTarget, OpenTarget,
                 DumpPostData, RestoreStarts, RestoreReturns, Finish, Fail
  <2>2. run'[r] = run[r]
    BY <1>0, <1>16, <2>1 DEF Becomes, TypeOK
  <2>3. QED BY <1>4, <2>1, <2>2
<1>17. ASSUME NEW q \in Runs, q # r,
              \/ DropDatabase(q) \/ ApplyPreData(q)
              \/ \E t \in Tables : CommitTable(q, t) \/ AddKey(q, t) \/ RepairSequence(q, t)
       PROVE  Holds(r)'
  BY <1>0, <1>3, <1>17, OthersAway
<1>18. ASSUME NEW q \in Runs, SessionEnds(q) PROVE Holds(r)'
  BY <1>4, <1>18 DEF SessionEnds
<1>19. CASE UNCHANGED vars
  BY <1>4, <1>19 DEF vars
<1>20. QED
  BY StepCases, <1>2, <1>5, <1>6, <1>7, <1>8, <1>9, <1>10, <1>11, <1>12, <1>13, <1>14, <1>15,
     <1>16, <1>17, <1>18, <1>19

-----------------------------------------------------------------------------
(* At the start nobody has looked at the source or done anything. *)
LEMMA InitLone == Init => LInv
<1> SUFFICES ASSUME Init PROVE LInv
  OBVIOUS
<1>1. PICK beginning \in Beginnings :
        source = [t \in Tables |-> IF t \in beginning
                                   THEN [columns |-> 1, file |-> 1, rows |-> InitialRows[t]]
                                   ELSE NoTable]
  BY DEF Init
<1>2. /\ migrations = 1 /\ sessions = {}
      /\ \A t \in Tables : /\ source[t].columns \in {0, 1}
                           /\ source[t].file = source[t].columns
  BY <1>1 DEF Init, NoTable
<1>3. SourceNumbered
  BY <1>2 DEF SourceNumbered
<1>4. ASSUME NEW r \in Runs PROVE Seen(r) /\ InTurn(r) /\ LeftAlone(r) /\ Holds(r)
  <2>1. /\ run[r].at = "idle" /\ run[r].since = 0
        /\ run[r].snapshot = [t \in Tables |-> NoTable]
        /\ run[r].preData = [t \in Tables |-> 0]
        /\ run[r].copying = {} /\ run[r].repaired = {}
    BY DEF Init, NoRun
  <2>2. Seen(r)
    BY <1>2, <2>1 DEF Seen, NoTable
  <2>3. InTurn(r) /\ LeftAlone(r) /\ Holds(r)
    BY <2>1 DEF InTurn, LeftAlone, Holds, Lone, OnTarget
  <2>4. QED BY <2>2, <2>3
<1>5. QED BY <1>3, <1>4 DEF LInv

LEMMA LoneStep == TInv /\ TInv' /\ LInv /\ [Next]_vars => LInv'
<1> SUFFICES ASSUME TInv, TInv', LInv, [Next]_vars PROVE LInv'
  OBVIOUS
<1>1. TypeOK /\ TypeOK' /\ SourceNumbered
  BY DEF TInv, LInv
<1>2. SourceNumbered'
  BY <1>1, SourceForward
<1>3. ASSUME NEW r \in Runs PROVE Seen(r)' /\ InTurn(r)' /\ LeftAlone(r)' /\ Holds(r)'
  <2>1. Seen(r) /\ InTurn(r) /\ LeftAlone(r) /\ Holds(r) /\ \A q \in Runs : LeftAlone(q)
    BY DEF LInv
  <2>2. Seen(r)' /\ InTurn(r)' /\ LeftAlone(r)'
    BY <1>1, <2>1, SeenStep, InTurnStep, LeftAloneStep
  <2>3. Holds(r)'
    BY <1>1, <2>1, HoldsStep
  <2>4. QED BY <2>2, <2>3
<1>4. QED BY <1>2, <1>3 DEF LInv

(* What is known of a lone run holds throughout. *)
LEMMA LoneInvariance == Spec => [](TInv /\ LInv)
<1>1. TInv /\ LInv /\ TInv' /\ [Next]_vars => LInv'
  BY LoneStep
<1>2. QED BY <1>1, InitLone, TargetInvariance, PTL DEF Spec

(* The target of a run that ends as it should holds all of it. *)
LEMMA FinishedWhole ==
  ASSUME TInv, LInv, NEW r \in Runs, Finish(r), run[r].alone
  PROVE  /\ Filled(r) /\ run[r].at = "restored" /\ run[r].repaired = run[r].sequences
         /\ run[r].committed = run[r].plan /\ run[r].restored = run[r].postData
<1>1. run[r].at = "restored" /\ run[r].repaired = run[r].sequences
  BY DEF Finish, At
<1>2. Progress(r) /\ Holds(r)
  BY DEF TInv, LInv
<1>3. QED BY <1>1, <1>2 DEF Progress, Holds, Lone, OnTarget

(* A run that nobody joined on the target reports success only over a      *)
(* target that has, of every planned table the snapshot saw, the rows of   *)
(* the snapshot, each once, and the key; and whose other tables are those  *)
(* of a later migration: native.go:321-373, whatever the source and runs   *)
(* before have been through.                                               *)
THEOREM LoneRunIsFaithful == Spec => LoneSuccessIsFaithful
<1>1. ASSUME TInv, LInv, NEW r \in Runs, Finish(r), run[r].alone
      PROVE  /\ \A t \in run[r].plan : SameTable(r, t) => IsFaithful(r, t)
             /\ \A t \in Tables \ run[r].plan : columns[t] # 0 => columns[t] > run[r].since
  <2>1. /\ Filled(r) /\ CopiesOf(r) /\ run[r].at = "restored"
        /\ run[r].committed = run[r].plan /\ run[r].restored = run[r].postData
    BY <1>1, FinishedWhole DEF Filled
  <2>2. TypeOK /\ SourceNumbered /\ Seen(r)
    BY <1>1 DEF TInv, LInv
  <2>3. ASSUME NEW t \in run[r].plan, SameTable(r, t) PROVE IsFaithful(r, t)
    <3>1. t \in Tables
      BY <2>2 DEF TypeOK, RunRecord
    <3>2. Intact(r, t)
      BY <2>2, <2>3, <3>1 DEF SameTable, Present, Intact, SourceNumbered
    <3>3. PICK c \in copied : c.table = t
      BY <2>1 DEF CopiesOf
    <3>4. c = [run |-> r, table |-> t, rows |-> run[r].snapshot[t].rows]
      <4>1. c.run = r /\ c.rows = run[r].snapshot[t].rows
        BY <2>1, <3>2, <3>3 DEF CopiesOf
      <4>2. c \in [run : Runs, table : Tables, rows : SUBSET Int]
        BY <2>2 DEF TypeOK
      <4>3. QED BY <3>3, <4>1, <4>2
    <3>5. {d \in copied : d.table = t} = {c}
      BY <2>1, <3>3 DEF CopiesOf
    <3>6. t \in Keyed => t \in keys
      BY <2>1, <3>2 DEF Filled
    <3>7. columns[t] = run[r].preData[t]
      BY <2>1, <3>1 DEF Filled
    <3>8. QED BY <3>4, <3>5, <3>6, <3>7 DEF IsFaithful
  <2>4. ASSUME NEW t \in Tables \ run[r].plan, columns[t] # 0 PROVE columns[t] > run[r].since
    BY <2>1, <2>2, <2>4 DEF Filled, Seen
  <2>5. QED BY <2>3, <2>4
<1>2. TInv /\ LInv =>
        [\A r \in Runs : Succeeds(r) /\ run[r].alone =>
           /\ \A t \in run[r].plan : SameTable(r, t) => IsFaithful(r, t)
           /\ \A t \in Tables \ run[r].plan : columns[t] # 0 => columns[t] > run[r].since]_vars
  BY <1>1 DEF Succeeds
<1>3. QED BY <1>2, LoneInvariance, PTL DEF LoneSuccessIsFaithful

(* The next value of the sequence of a table is free when such a run       *)
(* reports success: setval has looked at all rows of the table, and none   *)
(* came after it (sequences.go:25-62).                                     *)
THEOREM LoneRunFreesNext == Spec => NextIsFree
<1>1. ASSUME TInv, LInv, NEW r \in Runs, Finish(r), run[r].alone
      PROVE  \A t \in run[r].sequences : \A v \in RowsIn(t) : v < next[t]
  BY <1>1, FinishedWhole DEF Filled
<1>2. TInv /\ LInv =>
        [\A r \in Runs : Succeeds(r) /\ run[r].alone =>
           \A t \in run[r].sequences : \A v \in RowsIn(t) : v < next[t]]_vars
  BY <1>1 DEF Succeeds
<1>3. QED BY <1>2, LoneInvariance, PTL DEF NextIsFree
=============================================================================
