---------------------------- MODULE LiveProgress ----------------------------
(***************************************************************************)
(* The counters of the progress screen: internal/tui/progress.go,          *)
(* RegisterDB, Apply and activateDB, fed by the events of syncs that copy  *)
(* up to Threads tables of a database at a time.  The bytes of a table     *)
(* pass through a ProgressReader (internal/engine/native/progress.go),     *)
(* which reports them at most once per interval.                           *)
(*                                                                         *)
(* Events reach Apply in the order they were sent (TuiSession has the      *)
(* channel), so an event is produced and applied in one step here.  A      *)
(* table has as many bytes as rows.  Whether the interval has passed is a  *)
(* choice.  The plan of a database may not be registered: its event is     *)
(* dropped when the channel is full.                                       *)
(***************************************************************************)
EXTENDS FiniteSetsExt

CONSTANTS
  Queue,      \* number of databases
  Tables,     \* the tables of all of them
  DBOf,       \* the database of each, in the order they are synced
  Rows,       \* the rows each has
  Estimate,   \* the rows its plan counted
  Threads     \* tables copied at a time

ASSUME ProgressAssumption ==
  /\ Queue \in Nat /\ Threads \in Nat
  /\ IsFiniteSet(Tables)
  /\ DBOf \in [Tables -> 1..Queue]
  /\ Rows \in [Tables -> Nat]
  /\ Estimate \in [Tables -> Nat]

NoDB == 0

VARIABLES
  p,          \* the LiveProgress
  plans,      \* its dbPlans: the databases registered
  planning,   \* databases are still being planned
  db,         \* the database being synced
  copying,    \* its tables in a worker, with the ProgressReader of each
  done,       \* the tables that are done
  failed      \* a sync has failed

progressVars == <<p, plans, planning, db, copying, done, failed>>

(* The sum of f over a set of tables. *)
Total(f, S) == MapThenSumSet(LAMBDA t : f[t], S)
TablesOf(d) == {t \in Tables : DBOf[t] = d}

(* A ProgressReader: whether it exists yet, reads, has met the end of the  *)
(* stream or an error; the bytes read, and those of its last event.        *)
Readers == [at : {"none", "reading", "ended", "broken"}, bytes : Nat, shown : Nat]
NoReader == [at |-> "none", bytes |-> 0, shown |-> 0]

(* The bytes read of the tables in a worker. *)
InFlight == Total([t \in DOMAIN copying |-> copying[t].bytes], DOMAIN copying)

(* The counters of a LiveProgress, by their Go names. *)
Counters ==
  [CurrentDatabase : 0..Queue, seenDBs : SUBSET (1..Queue), DBTotal : Nat, DBIndex : Nat,
   QueueRowsEstimated : Nat, queueCompletedRows : Nat, queueCompletedBytes : Nat,
   QueueTablesDone : Nat, DBRowsEstimated : Nat, dbCompletedRows : Nat,
   DBTablesDone : Nat, DBTablesTotal : Nat, CurrentBytes : Nat, Errors : 0..1]

ProgressTypeOK ==
  /\ p \in Counters
  /\ plans \subseteq 1..Queue
  /\ planning \in 0..Queue
  /\ db \in 0..Queue
  /\ DOMAIN copying \subseteq TablesOf(db) \ done
  /\ Cardinality(DOMAIN copying) <= Threads
  /\ \A t \in DOMAIN copying : copying[t] \in Readers /\ copying[t].bytes <= Rows[t]
  /\ done \subseteq Tables
  /\ failed \in BOOLEAN

(* NewLiveProgressForQueue *)
ProgressInit ==
  /\ p = [CurrentDatabase |-> NoDB, seenDBs |-> {}, DBTotal |-> Queue, DBIndex |-> 0,
          QueueRowsEstimated |-> 0, queueCompletedRows |-> 0, queueCompletedBytes |-> 0,
          QueueTablesDone |-> 0, DBRowsEstimated |-> 0, dbCompletedRows |-> 0,
          DBTablesDone |-> 0, DBTablesTotal |-> 0, CurrentBytes |-> 0, Errors |-> 0]
  /\ plans = {} /\ planning = 0 /\ db = NoDB
  /\ copying = <<>> /\ done = {} /\ failed = FALSE

-----------------------------------------------------------------------------
(* RegisterDB, for the next database of the queue, or its event is lost. *)
RegisterDB ==
  /\ planning < Queue
  /\ planning' = planning + 1
  /\ \/ /\ plans' = plans \cup {planning'}
        /\ p' = [p EXCEPT !.QueueRowsEstimated = @ + Total(Estimate, TablesOf(planning'))]
     \/ UNCHANGED <<plans, p>>
  /\ UNCHANGED <<db, copying, done, failed>>

(* Mutant: the counters of the last database stay. *)
Kept(q) == q

Reset(q) == [q EXCEPT !.DBTablesDone = 0, !.dbCompletedRows = 0]

(* activateDB, and the switch in Apply that calls it: the counters of the  *)
(* database start anew, over the plan that was registered.                 *)
activateDB(q, d) ==
  [Reset(q) EXCEPT
     !.CurrentDatabase = d,
     !.seenDBs = @ \cup {d},
     !.DBIndex = Cardinality(q.seenDBs \cup {d}),
     !.DBTotal = IF @ > 0 /\ Cardinality(q.seenDBs \cup {d}) > @
                 THEN Cardinality(q.seenDBs \cup {d}) ELSE @,
     !.DBRowsEstimated = IF d \in plans THEN Total(Estimate, TablesOf(d)) ELSE 0,
     !.DBTablesTotal = IF d \in plans THEN Cardinality(TablesOf(d)) ELSE 0,
     !.CurrentBytes = 0]

Larger(a, b) == IF a > b THEN a ELSE b

(* Mutant: the estimate is not corrected. *)
EstimateOnly(estimate, rows) == estimate

(* More rows than the estimate: the estimate follows. *)
Clamped(estimate, rows) == Larger(estimate, rows)

(* Mutant: the bytes of the table stay in flight as well. *)
StillInFlight(q) == q.CurrentBytes

InFlightAfterDone(q) == 0

CopyDone(q, t) ==
  [q EXCEPT
     !.queueCompletedRows = @ + Rows[t],
     !.queueCompletedBytes = @ + Rows[t],
     !.dbCompletedRows = @ + Rows[t],
     !.QueueRowsEstimated = Clamped(@, q.queueCompletedRows + Rows[t]),
     !.DBRowsEstimated = Clamped(@, q.dbCompletedRows + Rows[t]),
     !.QueueTablesDone = @ + 1,
     !.DBTablesDone = @ + 1,
     !.CurrentBytes = InFlightAfterDone(q)]

(* What Apply starts from, on an event of database d. *)
Current(d) == IF d = p.CurrentDatabase THEN p ELSE activateDB(p, d)

-----------------------------------------------------------------------------
(* The events of a sync. *)

SyncStart ==
  /\ planning = Queue /\ ~failed /\ db < Queue
  /\ TablesOf(db) \subseteq done
  /\ db' = db + 1
  /\ p' = Current(db + 1)
  /\ UNCHANGED <<plans, planning, copying, done, failed>>

WorkerFree == Cardinality(DOMAIN copying) < Threads

TableCopyStart(t) ==
  /\ ~failed /\ t \in TablesOf(db) \ (done \cup DOMAIN copying)
  /\ WorkerFree
  /\ copying' = [u \in DOMAIN copying \cup {t} |-> IF u = t THEN NoReader ELSE copying[u]]
  /\ p' = [Current(db) EXCEPT !.CurrentBytes = 0]
  /\ UNCHANGED <<plans, planning, db, done, failed>>

(* The reader of t is r from now on, and this is one of its events.        *)
EmitProgress(t, r) ==
  /\ copying' = [copying EXCEPT ![t] = [r EXCEPT !.shown = r.bytes]]
  /\ p' = [Current(db) EXCEPT !.CurrentBytes = r.bytes]

(* NewProgressReader reports that nothing has been read.                   *)
ReaderOpened(t) ==
  /\ t \in DOMAIN copying /\ copying[t].at = "none"
  /\ EmitProgress(t, [copying[t] EXCEPT !.at = "reading"])
  /\ UNCHANGED <<plans, planning, db, done, failed>>

(* Read returns bytes; emitIfDue reports them if the interval has passed.  *)
ReadBytes(t) ==
  LET r == [copying[t] EXCEPT !.bytes = @ + 1] IN
  /\ t \in DOMAIN copying /\ copying[t].at = "reading" /\ copying[t].bytes < Rows[t]
  /\ \/ EmitProgress(t, r)
     \/ copying' = [copying EXCEPT ![t] = r] /\ UNCHANGED p
  /\ UNCHANGED <<plans, planning, db, done, failed>>

(* Mutant: the last event is throttled like the others.                    *)
EmitIfDue(t, r) ==
  \/ EmitProgress(t, r)
  \/ copying' = [copying EXCEPT ![t] = r] /\ UNCHANGED p

EmitFinal(t, r) == EmitProgress(t, r)

(* Read returns the end of the stream, or an error; emitFinal reports what *)
(* was read whenever the last event was.                                   *)
ReadEnds(t) ==
  /\ t \in DOMAIN copying /\ copying[t].at = "reading"
  /\ \/ copying[t].bytes = Rows[t] /\ EmitFinal(t, [copying[t] EXCEPT !.at = "ended"])
     \/ EmitFinal(t, [copying[t] EXCEPT !.at = "broken"])
  /\ UNCHANGED <<plans, planning, db, done, failed>>

TableCopyDone(t) ==
  /\ t \in DOMAIN copying /\ copying[t].at = "ended"
  /\ copying' = [u \in DOMAIN copying \ {t} |-> copying[u]]
  /\ done' = done \cup {t}
  /\ p' = CopyDone(Current(db), t)
  /\ UNCHANGED <<plans, planning, db, failed>>

SyncFailed ==
  /\ ~failed /\ db # NoDB /\ ~(TablesOf(db) \subseteq done)
  /\ failed' = TRUE
  /\ copying' = <<>>
  /\ p' = [Current(db) EXCEPT !.Errors = @ + 1]
  /\ UNCHANGED <<plans, planning, db, done>>

Ended == (failed \/ (db = Queue /\ done = Tables)) /\ UNCHANGED progressVars

ProgressNext ==
  \/ RegisterDB \/ SyncStart
  \/ \E t \in Tables : TableCopyStart(t) \/ ReaderOpened(t) \/ ReadBytes(t) \/ ReadEnds(t)
                        \/ TableCopyDone(t)
  \/ SyncFailed
  \/ Ended

ProgressSpec == ProgressInit /\ [][ProgressNext]_progressVars

-----------------------------------------------------------------------------
(* The rows and tables shown, of the queue and of the current database,    *)
(* are those of the tables that are done, whatever order the workers'      *)
(* events came in.                                                         *)
CountsAreDone ==
  /\ p.QueueTablesDone = Cardinality(done)
  /\ p.queueCompletedRows = Total(Rows, done)
  /\ p.queueCompletedBytes = p.queueCompletedRows
  /\ p.CurrentDatabase = db
  /\ p.DBTablesDone = Cardinality(done \cap TablesOf(db))
  /\ p.dbCompletedRows = Total(Rows, done \cap TablesOf(db))

(* The comment in Apply: "clamp denominator upward when reality exceeds    *)
(* estimate so bars never show >100%"; and the index of the database is    *)
(* never past the total, also when a plan was never registered.            *)
NeverPastWhole ==
  /\ p.queueCompletedRows <= p.QueueRowsEstimated
  /\ p.dbCompletedRows <= p.DBRowsEstimated
  /\ p.DBIndex <= p.DBTotal

(* The bytes shown.  The comment on LiveProgress: its counters are split   *)
(* "so the displayed totals move smoothly without double-counting".        *)
QueueBytesCopied == p.queueCompletedBytes + p.CurrentBytes

(* While no sync has failed, the bytes shown were all copied, each once.   *)
NoDoubleCounting ==
  ~failed => QueueBytesCopied <= Total(Rows, done) + InFlight

(* The progress screen counts what is done, never passes the whole and     *)
(* never counts a byte twice.                                              *)
ProgressInv == ProgressTypeOK /\ CountsAreDone /\ NeverPastWhole /\ NoDoubleCounting

(* The last progress event of a table that is done has all of its bytes,   *)
(* however short the table and however long the interval.                  *)
FinalIsWhole == [][\A t \in done' \ done : copying[t].shown = Rows[t]]_progressVars

(* With one table in flight at a time they never go back.                  *)
ForwardWhenAlone ==
  [][failed' \/ Cardinality(DOMAIN copying \cup DOMAIN copying') > 1
     \/ QueueBytesCopied <= QueueBytesCopied']_progressVars
=============================================================================
