------------------------------ MODULE CopyPool ------------------------------
(***************************************************************************)
(* All tables: internal/engine/native/copy.go, CopyTables.  The goroutine  *)
(* of enqueueCopyJobs hands out the tables over an unbuffered channel, the *)
(* copyWorker goroutines open two connections per table and run CopyTable, *)
(* closeCopyResults closes the result channel once they have all exited,   *)
(* and runCopyWorkers collects the results.  The first error cancels the   *)
(* context that everything runs under.                                     *)
(*                                                                         *)
(* A call of CopyTable is what CopyContract leaves of it: the table may be *)
(* committed while it runs, then it returns (CopyTable shows that the code *)
(* keeps that contract).                                                   *)
(***************************************************************************)
EXTENDS NativeCommon, Sequences

CONSTANTS
  N,          \* len(opts.Tables)
  Threads     \* opts.Threads

ASSUME PoolAssumption == N \in Nat /\ Threads \in Int

Jobs == 1..N
Workers == 1..workerCount(Threads)
NoJob == 0
Conns == {"source", "target"}

VARIABLES
  ctxDone,     \* the caller's context is cancelled
  cancelled,   \* copyCtx was cancelled by the pool
  next,        \* the table enqueueCopyJobs offers next
  jobsClosed,  \* the job channel is closed
  pc,          \* where each worker is
  job,         \* the table it works on
  err,         \* the error of that table so far
  copied,      \* whether CopyTable counted that table as copied
  conns,       \* the connections the worker holds open
  queue,       \* the result channel, a buffer of N
  resClosed,   \* the result channel is closed
  committed,   \* tables committed on the target
  results,     \* the results slice of runCopyWorkers
  firstErr,    \* its firstErr
  ret          \* what CopyTables returned, or "running"

workerVars == <<pc, job, err, copied, conns>>
enqVars    == <<next, jobsClosed>>
mainVars   == <<results, firstErr, ret>>
vars == <<ctxDone, cancelled, enqVars, workerVars, queue, resClosed, committed, mainVars>>

(* copyCtx is a child of the caller's context. *)
Done == ctxDone \/ cancelled

Result == [job : Jobs, copied : BOOLEAN, err : Outcomes]
NoResult == [job |-> NoJob, copied |-> FALSE, err |-> "nil"]

WorkerStates ==
  {"receive", "openSource", "openTarget", "copy", "closeTarget", "report", "cancel", "exited"}

TypeOK ==
  /\ ctxDone \in BOOLEAN /\ cancelled \in BOOLEAN
  /\ next \in 1..(N + 1) /\ jobsClosed \in BOOLEAN
  /\ pc \in [Workers -> WorkerStates]
  /\ job \in [Workers -> Jobs \cup {NoJob}]
  /\ err \in [Workers -> Outcomes]
  /\ copied \in [Workers -> BOOLEAN]
  /\ conns \in [Workers -> SUBSET Conns]
  /\ queue \in Seq(Result)
  /\ resClosed \in BOOLEAN
  /\ committed \subseteq Jobs
  /\ results \in [Jobs -> Result \cup {NoResult}]
  /\ firstErr \in Outcomes
  /\ ret \in Outcomes \cup {"running"}

(* With no tables CopyTables returns before it starts a goroutine. *)
Init ==
  /\ ctxDone \in BOOLEAN /\ cancelled = FALSE
  /\ next = 1 /\ jobsClosed = (N = 0)
  /\ pc = [w \in Workers |-> IF N = 0 THEN "exited" ELSE "receive"]
  /\ job = [w \in Workers |-> NoJob]
  /\ err = [w \in Workers |-> "nil"]
  /\ copied = [w \in Workers |-> FALSE]
  /\ conns = [w \in Workers |-> {}]
  /\ queue = <<>> /\ resClosed = (N = 0)
  /\ committed = {}
  /\ results = [j \in Jobs |-> NoResult]
  /\ firstErr = "nil"
  /\ ret = IF N = 0 THEN "nil" ELSE "running"

CancelCaller ==
  /\ ~ctxDone
  /\ ctxDone' = TRUE
  /\ UNCHANGED <<cancelled, enqVars, workerVars, queue, resClosed, committed, mainVars>>

-----------------------------------------------------------------------------
(* enqueueCopyJobs: a select between the done context and the send.  When  *)
(* both are ready Go picks either.                                         *)

JobLeft == next <= N

Dispatch(w) ==
  /\ ~jobsClosed /\ JobLeft
  /\ pc[w] = "receive"
  /\ next' = next + 1
  /\ job' = [job EXCEPT ![w] = next]
  /\ pc' = [pc EXCEPT ![w] = "openSource"]
  /\ err' = [err EXCEPT ![w] = "nil"]
  /\ copied' = [copied EXCEPT ![w] = FALSE]
  /\ UNCHANGED <<ctxDone, cancelled, jobsClosed, conns, queue, resClosed, committed, mainVars>>

(* Mutant: a send with no select on the context. *)
AllDispatched == next = N + 1

EnqueueEnds == next = N + 1 \/ Done

CloseJobs ==
  /\ ~jobsClosed
  /\ EnqueueEnds
  /\ jobsClosed' = TRUE
  /\ UNCHANGED <<ctxDone, cancelled, next, workerVars, queue, resClosed, committed, mainVars>>

-----------------------------------------------------------------------------
(* copyWorker and copyTableWithFactories *)

(* The worker's range over the job channel ends. *)
Drained(w) ==
  /\ pc[w] = "receive" /\ jobsClosed
  /\ pc' = [pc EXCEPT ![w] = "exited"]
  /\ UNCHANGED <<ctxDone, cancelled, enqVars, job, err, copied, conns, queue,
                 resClosed, committed, mainVars>>

OpenSource(w) ==
  /\ pc[w] = "openSource"
  /\ \E e \in Outcomes :
       /\ MayReturn(e, TRUE, Done)
       /\ err' = [err EXCEPT ![w] = e]
       /\ IF e = "nil"
          THEN /\ conns' = [conns EXCEPT ![w] = @ \cup {"source"}]
               /\ pc' = [pc EXCEPT ![w] = "openTarget"]
          ELSE /\ pc' = [pc EXCEPT ![w] = "report"]
               /\ UNCHANGED conns
  /\ UNCHANGED <<ctxDone, cancelled, enqVars, job, copied, queue, resClosed,
                 committed, mainVars>>

(* When the target cannot be reached the source connection is closed here. *)
SourceClosed(w) == conns[w] \ {"source"}

OpenTarget(w) ==
  /\ pc[w] = "openTarget"
  /\ \E e \in Outcomes :
       /\ MayReturn(e, TRUE, Done)
       /\ err' = [err EXCEPT ![w] = e]
       /\ IF e = "nil"
          THEN /\ conns' = [conns EXCEPT ![w] = @ \cup {"target"}]
               /\ pc' = [pc EXCEPT ![w] = "copy"]
          ELSE /\ conns' = [conns EXCEPT ![w] = SourceClosed(w)]
               /\ pc' = [pc EXCEPT ![w] = "report"]
  /\ UNCHANGED <<ctxDone, cancelled, enqVars, job, copied, queue, resClosed,
                 committed, mainVars>>

(* CopyTable, as CopyContract has it: the target commits the rows, ... *)
CommitTable(w) ==
  /\ pc[w] = "copy" /\ job[w] \notin committed
  /\ committed' = committed \cup {job[w]}
  /\ UNCHANGED <<ctxDone, cancelled, enqVars, workerVars, queue, resClosed, mainVars>>

(* ... and the call returns, the source connection closed on every path    *)
(* but one: a name that QuoteQualified refuses, of which the catalogue has *)
(* none.                                                                   *)
CopyReturns(w) ==
  /\ pc[w] = "copy"
  /\ \E e \in Outcomes :
       /\ MayReturn(e, job[w] \in committed, Done)
       /\ err' = [err EXCEPT ![w] = e]
       /\ copied' = [copied EXCEPT ![w] = (e = "nil")]
  /\ conns' = [conns EXCEPT ![w] = @ \ {"source"}]
  /\ pc' = [pc EXCEPT ![w] = "closeTarget"]
  /\ UNCHANGED <<ctxDone, cancelled, enqVars, job, queue, resClosed, committed, mainVars>>

(* target.Close under context.WithoutCancel; its failure is joined last,   *)
(* and the result keeps its count.                                         *)
CloseTarget(w) ==
  /\ pc[w] = "closeTarget"
  /\ conns' = [conns EXCEPT ![w] = @ \ {"target"}]
  /\ \E e \in {"nil", "fault"} : err' = [err EXCEPT ![w] = Join(@, e)]
  /\ pc' = [pc EXCEPT ![w] = "report"]
  /\ UNCHANGED <<ctxDone, cancelled, enqVars, job, copied, queue, resClosed,
                 committed, mainVars>>

(* Mutant: the error stays in the result and is not sent. *)
ResultWithoutError(w) == [job |-> job[w], copied |-> copied[w], err |-> "nil"]

ResultOf(w) == [job |-> job[w], copied |-> copied[w], err |-> err[w]]

(* Mutant: the channel has room for one result of each worker. *)
RoomPerWorker == Len(queue) < workerCount(Threads)

Room == Len(queue) < N

(* The result is sent before the error cancels the context. *)
Report(w) ==
  /\ pc[w] = "report"
  /\ Room
  /\ queue' = Append(queue, ResultOf(w))
  /\ pc' = [pc EXCEPT ![w] = IF err[w] = "nil" THEN "receive" ELSE "cancel"]
  /\ UNCHANGED <<ctxDone, cancelled, enqVars, job, err, copied, conns, resClosed,
                 committed, mainVars>>

CancelOnError(w) ==
  /\ pc[w] = "cancel"
  /\ cancelled' = TRUE
  /\ pc' = [pc EXCEPT ![w] = "exited"]
  /\ UNCHANGED <<ctxDone, enqVars, job, err, copied, conns, queue, resClosed,
                 committed, mainVars>>

-----------------------------------------------------------------------------
(* closeCopyResults and the collecting loop of runCopyWorkers *)

(* Mutant: the wait group counts tables instead of workers. *)
JobsTaken == jobsClosed

WorkersExited == \A w \in Workers : pc[w] = "exited"

CloseResults ==
  /\ ~resClosed
  /\ WorkersExited
  /\ resClosed' = TRUE
  /\ UNCHANGED <<ctxDone, cancelled, enqVars, workerVars, queue, committed, mainVars>>

(* Mutant: every later error replaces the first one. *)
LastError(e) == Join(e, firstErr)

FirstError(e) == Join(firstErr, e)

Collect ==
  /\ ret = "running" /\ queue # <<>>
  /\ LET r == Head(queue) IN
       /\ results' = [results EXCEPT ![r.job] = r]
       /\ firstErr' = FirstError(r.err)
       /\ cancelled' = (cancelled \/ r.err # "nil")
  /\ queue' = Tail(queue)
  /\ UNCHANGED <<ctxDone, enqVars, workerVars, resClosed, committed, ret>>

(* The loop ends on the closed, drained channel; the deferred cancel runs. *)
Return ==
  /\ ret = "running" /\ resClosed /\ queue = <<>>
  /\ ret' = firstErr
  /\ cancelled' = TRUE
  /\ UNCHANGED <<ctxDone, enqVars, workerVars, queue, resClosed, committed, results, firstErr>>

-----------------------------------------------------------------------------
Enqueuer == CloseJobs \/ \E w \in Workers : Dispatch(w)

Worker(w) ==
  \/ Drained(w) \/ OpenSource(w) \/ OpenTarget(w)
  \/ CommitTable(w) \/ CopyReturns(w) \/ CloseTarget(w)
  \/ Report(w) \/ CancelOnError(w)

Collector == Collect \/ Return

(* CopyTables has returned and its last goroutine has ended. *)
Finished == ret # "running" /\ jobsClosed /\ UNCHANGED vars

Next ==
  \/ CancelCaller
  \/ Enqueuer
  \/ \E w \in Workers : Worker(w)
  \/ CloseResults
  \/ Collector
  \/ Finished

(* Every goroutine is scheduled, and every connection attempt, copy and    *)
(* close eventually returns.                                               *)
Fairness ==
  /\ WF_vars(Enqueuer)
  /\ \A w \in Workers : WF_vars(Worker(w))
  /\ WF_vars(CloseResults)
  /\ WF_vars(Collector)

Spec == Init /\ [][Next]_vars
FairSpec == Spec /\ Fairness

-----------------------------------------------------------------------------
CopiedTables == {j \in Jobs : results[j].copied}

(* CopyTables reports the failure that stopped it: the cancellation error  *)
(* of a table that another table's failure interrupted never comes first.  *)
RootCauseFirst == firstErr = "ctx" => ctxDone

(* Without a cancelling caller, no error means every table was committed   *)
(* and counted; whatever the error, only committed tables are counted.     *)
NilMeansAllCopied ==
  ret # "running" =>
    /\ ret = "nil" /\ ~ctxDone => CopiedTables = Jobs
    /\ CopiedTables \subseteq committed

(* When CopyTables returns no worker runs, no connection is open and no    *)
(* result is lost in the channel: the engine closes the snapshot and the   *)
(* target right after.                                                     *)
QuietAfterReturn ==
  ret # "running" =>
    /\ \A w \in Workers : pc[w] = "exited" /\ conns[w] = {}
    /\ queue = <<>>

(* No worker sends on the closed result channel, which would panic. *)
NoSendOnClosed == resClosed => \A w \in Workers : pc[w] # "report"

(* No worker waits to send its result, however far behind the collector    *)
(* is: a failed one cancels the others at once, and a sound one goes on.   *)
ReportNeverBlocks == \A w \in Workers : pc[w] = "report" => Room

(* At no time do the enqueuer, the workers, the closer and the collector   *)
(* all wait for each other: until CopyTables has returned and the enqueuer *)
(* has ended, one of them can go on.                                       *)
NeverStuck ==
  ret = "running" \/ ~jobsClosed =>
    \/ ~jobsClosed /\ EnqueueEnds
    \/ ~jobsClosed /\ JobLeft /\ \E w \in Workers : pc[w] = "receive"
    \/ \E w \in Workers :
         \/ pc[w] \in {"openSource", "openTarget", "copy", "closeTarget", "cancel"}
         \/ pc[w] = "receive" /\ jobsClosed
         \/ pc[w] = "report" /\ Room
    \/ WorkersExited /\ ~resClosed
    \/ ret = "running" /\ (queue # <<>> \/ resClosed)

(* The goroutines of CopyTables wait for nothing that does not come, and   *)
(* leave nothing behind.                                                   *)
PoolInv == ReportNeverBlocks /\ NeverStuck /\ QuietAfterReturn

(* CopyTables returns and its enqueuer ends, even when every worker has    *)
(* exited on an error with tables left to hand out.                        *)
PoolReturns == <>(ret # "running" /\ jobsClosed)

-----------------------------------------------------------------------------
(* The inductive invariant behind RootCauseFirst, NilMeansAllCopied,       *)
(* QuietAfterReturn, NoSendOnClosed and ReportNeverBlocks, in named parts. *)

(* Who has ended, and what is known once they have. *)
Quiet ==
  /\ resClosed => WorkersExited
  /\ ret # "running" => resClosed /\ queue = <<>> /\ ret = firstErr
  /\ jobsClosed => next = N + 1 \/ Done
  /\ \A w \in Workers : pc[w] = "exited" => jobsClosed \/ cancelled

(* A worker holds the connections that its place in                        *)
(* copyTableWithFactories calls for.                                       *)
ConnsByPlace ==
  \A w \in Workers :
    conns[w] = CASE pc[w] = "openTarget"  -> {"source"}
                 [] pc[w] = "copy"        -> {"source", "target"}
                 [] pc[w] = "closeTarget" -> {"target"}
                 [] OTHER                 -> {}

(* A real failure is already in firstErr, or in the channel ahead of every *)
(* cancellation error.                                                     *)
CauseKnown ==
  \/ firstErr = "fault"
  \/ \E i \in 1..Len(queue) :
       /\ queue[i].err = "fault"
       /\ \A k \in 1..i : queue[k].err # "ctx"

(* Unless the caller cancelled, the pool cancels only after a failure that *)
(* is known, and nothing fails for the cancellation before.                *)
CauseFirst ==
  ~ctxDone =>
    /\ ret = "running" /\ (cancelled \/ \E w \in Workers : pc[w] = "cancel") => CauseKnown
    /\ ret = "running" /\ ~CauseKnown =>
         /\ \A w \in Workers : err[w] # "ctx"
         /\ \A i \in 1..Len(queue) : queue[i].err # "ctx"
    /\ firstErr # "ctx"

Working == {"openSource", "openTarget", "copy", "closeTarget", "report"}

(* A result without an error is that of a copied table, and a table counts *)
(* as copied only once it is committed.                                    *)
SoundResult(j, c, e) ==
  /\ e = "nil" => c
  /\ c => j \in committed

ResultsSound ==
  /\ \A w \in Workers :
       pc[w] \in {"closeTarget", "report"} => SoundResult(job[w], copied[w], err[w])
  /\ \A w \in Workers : pc[w] \in Working => job[w] \in Jobs
  /\ \A w \in Workers : pc[w] \in {"openSource", "openTarget", "copy"} => ~copied[w]
  /\ \A i \in 1..Len(queue) : SoundResult(queue[i].job, queue[i].copied, queue[i].err)
  /\ \A j \in Jobs : results[j].copied => j \in committed
  /\ \A j \in Jobs : results[j].err # "nil" => firstErr # "nil"
  /\ \A j \in Jobs : results[j].job # NoJob => results[j].copied \/ results[j].err # "nil"

(* A table that was handed out is with a worker, in the channel or in the  *)
(* results.                                                                *)
NoTableLost ==
  \A j \in 1..(next - 1) :
    \/ \E w \in Workers : pc[w] \in Working /\ job[w] = j
    \/ \E i \in 1..Len(queue) : queue[i].job = j
    \/ results[j].job # NoJob

(* A table that was handed out is in one place only: with one worker, or   *)
(* in one result.                                                          *)
OneHolder ==
  /\ \A w \in Workers : pc[w] \in Working => job[w] < next
  /\ \A v, w \in Workers :
       pc[v] \in Working /\ pc[w] \in Working /\ job[v] = job[w] => v = w
  /\ \A i \in 1..Len(queue) :
       /\ queue[i].job < next
       /\ \A k \in 1..Len(queue) : queue[i].job = queue[k].job => i = k
       /\ \A w \in Workers : pc[w] \in Working => job[w] # queue[i].job

(* A clean return left no table behind. *)
CleanReturn == ret = "nil" /\ ~ctxDone => next = N + 1

IInv ==
  /\ TypeOK /\ Quiet /\ ConnsByPlace /\ CauseFirst
  /\ ResultsSound /\ NoTableLost /\ OneHolder /\ CleanReturn

-----------------------------------------------------------------------------
(* CopyTables keeps the contract of a copy of all its tables, except that  *)
(* a cancelled caller may be told that there was no error.                 *)
Contract == INSTANCE CopyContract WITH Items <- Jobs, SilentAbort <- TRUE

KeepsContract == Contract!ContractSpec
=============================================================================
