---------------------------- MODULE SharedTarget ----------------------------
(***************************************************************************)
(* Several runs of pgsync into one target database, while the source is    *)
(* written to and migrated: internal/engine/native/native.go, Plan and     *)
(* executeStages, target.go, copy.go, schema.go and sequences.go.          *)
(*                                                                         *)
(* SyncRun has the stages of one run with their errors and releases.  Here *)
(* is what it abstracts: what the schema and the rows of the source are at *)
(* each of the times a run looks at them, and which database a connection  *)
(* of a run leads to after another run has dropped the one it began with.  *)
(* A run may fail, be cancelled or die at any step.  What the server has   *)
(* been sent then stays with it until the session ends.                    *)
(*                                                                         *)
(* A reset by anybody ends every session, so a session that is open leads  *)
(* to the database that exists.  MaxMigrations and MaxWrites bound what    *)
(* happens to the source.                                                  *)
(***************************************************************************)
EXTENDS NativeCommon, FiniteSets, FiniteSetsExt

CONSTANTS
  Runs,            \* the runs
  Tables,          \* the tables the source can have
  Keyed,           \* those with a primary key
  Serial,          \* those with a column that takes its values from a sequence
  Beginnings,      \* the sets of tables it may begin with
  InitialRows,     \* the rows of each: values of the primary key or of that column
  Values,          \* values that are written
  Threads,         \* plan.Threads
  MaxMigrations, MaxWrites

ASSUME SharedAssumption ==
  /\ Tables \cap {"target", "restore"} = {}
  /\ Keyed \subseteq Tables /\ Serial \subseteq Tables
  /\ Beginnings \subseteq SUBSET Tables
  /\ InitialRows \in [Tables -> SUBSET Int]
  /\ Values \subseteq Int
  /\ Threads \in Int
  /\ MaxMigrations \in Nat /\ MaxWrites \in Nat

VARIABLES
  \* the source
  source,       \* its tables: their columns, their file and their rows
  migrations,   \* migrations so far
  writes,       \* writes so far
  \* the target
  exists,       \* the target database exists
  columns,      \* the columns of its tables
  copied,       \* what COPY has put there: [run, table, rows]
  keys,         \* the tables that have got their key
  next,         \* the next value of the sequence of each table
  sessions,     \* sessions on it: [run, use]
  \* the runs
  run

sourceVars == <<source, migrations, writes>>
contents   == <<columns, copied, keys, next>>
vars == <<sourceVars, exists, contents, sessions, run>>

(* A migration is numbered; the columns of a table and the file its rows   *)
(* are in are those of the migration that made them.  0 for no table.      *)
SourceTables == [columns : Nat, file : Nat, rows : SUBSET Int]
NoTable == [columns |-> 0, file |-> 0, rows |-> {}]
Present(t) == source[t].columns # 0
PresentTables == {t \in Tables : Present(t)}

Stages == {"idle", "planned", "snapshot", "dumped", "terminated", "dropped", "created",
           "connected", "copying", "archived", "restoring", "restored", "done", "failed"}

(* Of a session: the one connectTarget opened, pg_restore's, or of a copy. *)
Uses == {"target", "restore"} \cup Tables

(* The stages in which a run acts on the target. *)
OnTarget == {"terminated", "dropped", "created", "connected", "copying", "archived", "restoring",
             "restored"}

FirstValue == 1
NoRun == [at |-> "idle", plan |-> {}, sequences |-> {}, since |-> 0,
          snapshot |-> [t \in Tables |-> NoTable], preData |-> [t \in Tables |-> 0],
          copying |-> {}, committed |-> {}, postData |-> {}, restored |-> {}, repaired |-> {},
          alone |-> TRUE]

RunRecord ==
  [at : Stages, plan : SUBSET Tables, sequences : SUBSET Tables, since : Nat,
   snapshot : [Tables -> SourceTables], preData : [Tables -> Nat],
   copying : SUBSET Tables, committed : SUBSET Tables,
   postData : SUBSET Tables, restored : SUBSET Tables, repaired : SUBSET Tables,
   alone : BOOLEAN]

TypeOK ==
  /\ source \in [Tables -> SourceTables]
  /\ migrations \in Nat /\ writes \in Nat
  /\ exists \in BOOLEAN
  /\ columns \in [Tables -> Nat]
  /\ copied \subseteq [run : Runs, table : Tables, rows : SUBSET Int]
  /\ keys \subseteq Tables
  /\ next \in [Tables -> Int]
  /\ sessions \subseteq [run : Runs, use : Uses]
  /\ run \in [Runs -> RunRecord]

NewDatabase ==
  /\ columns = [t \in Tables |-> 0] /\ copied = {} /\ keys = {}
  /\ next = [t \in Tables |-> FirstValue]

Init ==
  /\ \E beginning \in Beginnings :
       source = [t \in Tables |-> IF t \in beginning
                                  THEN [columns |-> 1, file |-> 1, rows |-> InitialRows[t]]
                                  ELSE NoTable]
  /\ migrations = 1 /\ writes = 0
  /\ exists = FALSE /\ NewDatabase
  /\ sessions = {}
  /\ run = [r \in Runs |-> NoRun]

-----------------------------------------------------------------------------
(* The clients of the source. *)

Migrated(t, table) ==
  /\ migrations <= MaxMigrations
  /\ migrations' = migrations + 1
  /\ source' = [source EXCEPT ![t] = table]
  /\ UNCHANGED <<writes, exists, contents, sessions, run>>

CreateTable(t) ==
  /\ ~Present(t)
  /\ Migrated(t, [columns |-> migrations + 1, file |-> migrations + 1, rows |-> {}])

DropTable(t) == Present(t) /\ Migrated(t, NoTable)

(* A column is added; the rows stay where they are. *)
AlterTable(t) == Present(t) /\ Migrated(t, [source[t] EXCEPT !.columns = migrations + 1])

(* TRUNCATE, or an ALTER TABLE that writes the rows to a new file. *)
RewriteTable(t) ==
  /\ Present(t)
  /\ \E rows \in {{}, source[t].rows} :
       Migrated(t, [source[t] EXCEPT !.file = migrations + 1, !.rows = rows])

Migrate(t) == CreateTable(t) \/ DropTable(t) \/ AlterTable(t) \/ RewriteTable(t)

Write(t) ==
  /\ Present(t) /\ writes < MaxWrites
  /\ writes' = writes + 1
  /\ \E v \in Values :
       source' = [source EXCEPT ![t].rows = IF v \in @ THEN @ \ {v} ELSE @ \cup {v}]
  /\ UNCHANGED <<migrations, exists, contents, sessions, run>>

-----------------------------------------------------------------------------
(* The sessions of a run. *)

At(r, stage) == run[r].at = stage
Becomes(r, record) == run' = [run EXCEPT ![r] = record]
Session(r, use) == [run |-> r, use |-> use]
Alive(r, use) == Session(r, use) \in sessions
SessionsOf(r) == {s \in sessions : s.run = r}

(* A connection to the target database is opened. *)
Connect(r, use) == exists /\ sessions' = sessions \cup {Session(r, use)}
Close(r, use) == sessions' = sessions \ {Session(r, use)}

(* A run that fails, is cancelled or dies.  Its sessions end, or go on     *)
(* with the statement they are in: pg_restore's workers outlive it.        *)
Fail(r) ==
  /\ run[r].at \notin {"idle", "done", "failed"}
  /\ Becomes(r, [NoRun EXCEPT !.at = "failed"])
  /\ sessions' \in {sessions, sessions \ SessionsOf(r)}
  /\ UNCHANGED <<sourceVars, exists, contents>>

(* Such a session ends. *)
SessionEnds(r) ==
  /\ At(r, "failed")
  /\ \E s \in SessionsOf(r) : sessions' = sessions \ {s}
  /\ UNCHANGED <<sourceVars, exists, contents, run>>

-----------------------------------------------------------------------------
(* Before the reset. *)

(* Plan reads the catalogue of the source.  The run may wait for hours     *)
(* after it: the queue of the terminal UI is planned as a whole.           *)
Plan(r) ==
  /\ At(r, "idle")
  /\ Becomes(r, [run[r] EXCEPT !.at = "planned", !.plan = PresentTables,
                               !.sequences = PresentTables \cap Serial, !.since = migrations])
  /\ UNCHANGED <<sourceVars, exists, contents, sessions>>

ExportSnapshot(r) ==
  /\ At(r, "planned")
  /\ Becomes(r, [run[r] EXCEPT !.at = "snapshot", !.snapshot = source])
  /\ UNCHANGED <<sourceVars, exists, contents, sessions>>

(* pg_dump has a snapshot of its own, a later one. *)
DumpPreData(r) ==
  /\ At(r, "snapshot")
  /\ Becomes(r, [run[r] EXCEPT !.at = "dumped", !.preData = [t \in Tables |-> source[t].columns]])
  /\ UNCHANGED <<sourceVars, exists, contents, sessions>>

-----------------------------------------------------------------------------
(* ResetDatabase and connectTarget. *)

(* pg_terminate_backend for every session on the database; alone is        *)
(* history: whether another run acts on it until this one has ended.       *)
TerminateSessions(r) ==
  LET others == {q \in Runs \ {r} : run[q].at \in OnTarget} IN
  /\ At(r, "dumped")
  /\ sessions' = {}
  /\ run' = [q \in Runs |->
               IF q = r THEN [run[q] EXCEPT !.at = "terminated", !.alone = (others = {})]
               ELSE IF q \in others THEN [run[q] EXCEPT !.alone = FALSE]
               ELSE run[q]]
  /\ UNCHANGED <<sourceVars, exists, contents>>

(* DROP DATABASE IF EXISTS is refused while a session is open. *)
DropDatabase(r) ==
  /\ At(r, "terminated") /\ sessions = {}
  /\ exists' = FALSE
  /\ columns' = [t \in Tables |-> 0] /\ copied' = {} /\ keys' = {}
  /\ next' = [t \in Tables |-> FirstValue]
  /\ Becomes(r, [run[r] EXCEPT !.at = "dropped"])
  /\ UNCHANGED <<sourceVars, sessions>>

CreateDatabase(r) ==
  /\ At(r, "dropped") /\ ~exists
  /\ exists' = TRUE
  /\ Becomes(r, [run[r] EXCEPT !.at = "created"])
  /\ UNCHANGED <<sourceVars, contents, sessions>>

ConnectTarget(r) ==
  /\ At(r, "created")
  /\ Connect(r, "target")
  /\ Becomes(r, [run[r] EXCEPT !.at = "connected"])
  /\ UNCHANGED <<sourceVars, exists, contents>>

(* All of the dumped tables or none, and only if there is none of them.    *)
ApplyPreData(r) ==
  LET dumped == {t \in Tables : run[r].preData[t] # 0} IN
  /\ At(r, "connected") /\ Alive(r, "target")
  /\ \A t \in dumped : columns[t] = 0
  /\ columns' = [t \in Tables |-> IF t \in dumped THEN run[r].preData[t] ELSE columns[t]]
  /\ Becomes(r, [run[r] EXCEPT !.at = "copying"])
  /\ UNCHANGED <<sourceVars, exists, copied, keys, next, sessions>>

-----------------------------------------------------------------------------
(* CopyTables: a connection of its own to the target for every table. *)

OpenTarget(r, t) ==
  /\ At(r, "copying")
  /\ t \in run[r].plan \ (run[r].copying \cup run[r].committed)
  /\ Cardinality(run[r].copying) < workerCount(Threads)
  /\ Connect(r, t)
  /\ Becomes(r, [run[r] EXCEPT !.copying = @ \cup {t}])
  /\ UNCHANGED <<sourceVars, exists, contents>>

(* Mutant: the rows that are there now. *)
RowsNow(r, t) == source[t].rows

(* What COPY reads under the snapshot: the rows it saw, or nothing if they *)
(* have been written to a new file since.                                  *)
SourceRows(r, t) ==
  IF source[t].file = run[r].snapshot[t].file THEN run[r].snapshot[t].rows ELSE {}

RowsIn(t) == UNION {c.rows : c \in {d \in copied : d.table = t}}

(* COPY ... (FORMAT binary) names no columns: both sides must have the     *)
(* same.  A key refuses rows that are there.                               *)
CommitTable(r, t) ==
  LET rows == SourceRows(r, t) IN
  /\ At(r, "copying") /\ t \in run[r].copying
  /\ Alive(r, t)
  /\ Present(t) /\ source[t].columns = columns[t]
  /\ t \in keys => rows \cap RowsIn(t) = {}
  /\ copied' = copied \cup {[run |-> r, table |-> t, rows |-> rows]}
  /\ Becomes(r, [run[r] EXCEPT !.copying = @ \ {t}, !.committed = @ \cup {t}])
  /\ Close(r, t)
  /\ UNCHANGED <<sourceVars, exists, columns, keys, next>>

-----------------------------------------------------------------------------
(* DumpArchive and Restore. *)

DumpPostData(r) ==
  /\ At(r, "copying") /\ run[r].committed = run[r].plan
  /\ Becomes(r, [run[r] EXCEPT !.at = "archived", !.postData = PresentTables \cap Keyed])
  /\ UNCHANGED <<sourceVars, exists, contents, sessions>>

RestoreStarts(r) ==
  /\ At(r, "archived")
  /\ Connect(r, "restore")
  /\ Becomes(r, [run[r] EXCEPT !.at = "restoring"])
  /\ UNCHANGED <<sourceVars, exists, contents>>

Duplicates(t) ==
  \E c, d \in copied : c # d /\ c.table = t /\ d.table = t /\ c.rows \cap d.rows # {}

(* pg_restore adds a key: for a run that has its archive, or for one that  *)
(* has died meanwhile.                                                     *)
AddKey(r, t) ==
  /\ Alive(r, "restore")
  /\ \/ /\ At(r, "restoring") /\ t \in run[r].postData
        /\ Becomes(r, [run[r] EXCEPT !.restored = @ \cup {t}])
     \/ At(r, "failed") /\ t \in Keyed /\ UNCHANGED run
  /\ columns[t] # 0 /\ t \notin keys /\ ~Duplicates(t)
  /\ keys' = keys \cup {t}
  /\ UNCHANGED <<sourceVars, exists, columns, copied, next, sessions>>

RestoreReturns(r) ==
  /\ At(r, "restoring") /\ run[r].restored = run[r].postData
  /\ Alive(r, "restore")
  /\ Close(r, "restore")
  /\ Becomes(r, [run[r] EXCEPT !.at = "restored"])
  /\ UNCHANGED <<sourceVars, exists, contents>>

-----------------------------------------------------------------------------
(* RepairSequences, on the connection that connectTarget opened. *)

(* Mutant: the largest value itself comes next. *)
SetvalNotCalled(rows) == IF rows = {} THEN FirstValue ELSE Max(rows)

(* setval(s, COALESCE(MAX(c), 1), MAX(c) IS NOT NULL) *)
SetvalMax(rows) == IF rows = {} THEN FirstValue ELSE Max(rows) + 1

(* Mutant: a connection that is opened for the stage. *)
AnyConnection(r) == exists

TargetConnection(r) == Alive(r, "target")

(* setval refuses a largest value below the first one of the sequence. *)
RepairSequence(r, t) ==
  /\ At(r, "restored")
  /\ t \in run[r].sequences \ run[r].repaired
  /\ TargetConnection(r)
  /\ columns[t] # 0
  /\ RowsIn(t) # {} => \E w \in RowsIn(t) : w >= FirstValue /\ \A v \in RowsIn(t) : w >= v
  /\ next' = [next EXCEPT ![t] = SetvalMax(RowsIn(t))]
  /\ Becomes(r, [run[r] EXCEPT !.repaired = @ \cup {t}])
  /\ UNCHANGED <<sourceVars, exists, columns, copied, keys, sessions>>

(* The last statement is behind the run: it closes its connection, and     *)
(* reports success.                                                        *)
Finish(r) ==
  /\ At(r, "restored") /\ run[r].repaired = run[r].sequences
  /\ Becomes(r, [run[r] EXCEPT !.at = "done"])
  /\ Close(r, "target")
  /\ UNCHANGED <<sourceVars, exists, contents>>

-----------------------------------------------------------------------------
AllEnded == \A r \in Runs : run[r].at \in {"done", "failed"}
Ended == AllEnded /\ UNCHANGED vars

Engine(r) ==
  \/ Plan(r) \/ ExportSnapshot(r) \/ DumpPreData(r)
  \/ TerminateSessions(r) \/ DropDatabase(r) \/ CreateDatabase(r)
  \/ ConnectTarget(r) \/ ApplyPreData(r)
  \/ \E t \in Tables : OpenTarget(r, t) \/ CommitTable(r, t)
  \/ DumpPostData(r) \/ RestoreStarts(r) \/ (\E t \in Tables : AddKey(r, t)) \/ RestoreReturns(r)
  \/ \E t \in Tables : RepairSequence(r, t)
  \/ Finish(r)

Next ==
  \/ \E t \in Tables : Migrate(t) \/ Write(t)
  \/ \E r \in Runs : Engine(r) \/ Fail(r) \/ SessionEnds(r)
  \/ Ended

Spec == Init /\ [][Next]_vars

-----------------------------------------------------------------------------
(* The run r reports success. *)
Succeeds(r) == Finish(r)

(* The table the snapshot of r has seen is still there. *)
SameTable(r, t) == Present(t) /\ source[t].file = run[r].snapshot[t].file

(* The table has its snapshot's rows, each once, and its key. *)
IsFaithful(r, t) ==
  /\ columns[t] = run[r].preData[t]
  /\ {c \in copied : c.table = t} = {[run |-> r, table |-> t, rows |-> run[r].snapshot[t].rows]}
  /\ t \in Keyed => t \in keys

(* A run that nobody joined on the target, and that reports success: each  *)
(* planned table the snapshot saw is there as the snapshot saw it, however *)
(* old the plan and whatever earlier runs have left, and a table of the    *)
(* target that was not planned is one a migration has made since.          *)
LoneSuccessIsFaithful ==
  [][\A r \in Runs : Succeeds(r) /\ run[r].alone =>
       /\ \A t \in run[r].plan : SameTable(r, t) => IsFaithful(r, t)
       /\ \A t \in Tables \ run[r].plan : columns[t] # 0 => columns[t] > run[r].since]_vars

(* A key value that the sequence of a table gives next is not taken: the   *)
(* first insert after a lone run does not collide.                         *)
NextIsFree ==
  [][\A r \in Runs : Succeeds(r) /\ run[r].alone =>
       \A t \in run[r].sequences : \A v \in RowsIn(t) : v < next[t]]_vars

(* The rows and the keys of the run r are in the target. *)
HasAllOf(r) ==
  /\ \A t \in run[r].plan : columns[t] # 0 /\ \E c \in copied : c.run = r /\ c.table = t
  /\ run[r].postData \subseteq keys

(* Another run may drop the database between any two statements of a run,  *)
(* and the run's later connections then lead into the other's database.    *)
(* It never repairs a sequence there: the repair finds all rows and keys   *)
(* of its own run, so that a run with a sequence does not report success   *)
(* over a database that lacks them.                                        *)
RepairsOwnRows ==
  [][\A r \in Runs, t \in Tables : RepairSequence(r, t) => HasAllOf(r)]_vars
=============================================================================
