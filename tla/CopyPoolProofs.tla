--------------------------- MODULE CopyPoolProofs ---------------------------
(***************************************************************************)
(* Proofs about CopyPool for any number of tables and any thread count:    *)
(* the invariant IInv is inductive, and the safety properties follow.      *)
(***************************************************************************)
EXTENDS CopyPool, FiniteSetTheorems, TLAPS

USE DEF Jobs, NoJob, Outcomes, Done

(* workerCount never answers less than one. *)
LEMMA WorkersNonempty == Workers # {}
  BY PoolAssumption, 1 \in 1..workerCount(Threads) DEF Workers, workerCount

(* One step of the specification is one action, or changes nothing. *)
LEMMA StepCases ==
  ASSUME [Next]_vars
  PROVE  \/ CancelCaller \/ CloseJobs \/ CloseResults \/ Collect \/ Return
         \/ \E w \in Workers :
              \/ Dispatch(w) \/ Drained(w) \/ OpenSource(w) \/ OpenTarget(w)
              \/ CommitTable(w) \/ CopyReturns(w) \/ CloseTarget(w)
              \/ Report(w) \/ CancelOnError(w)
         \/ UNCHANGED vars
  BY DEF Next, Enqueuer, Worker, Collector, Finished

(* What sending on and receiving from the result channel does to it. *)
LEMMA SendResult ==
  ASSUME TypeOK, NEW w \in Workers, Report(w), job[w] \in Jobs
  PROVE  /\ ResultOf(w) \in Result
         /\ queue' \in Seq(Result)
         /\ Len(queue') = Len(queue) + 1
         /\ \A i \in 1..Len(queue) : queue'[i] = queue[i]
         /\ queue'[Len(queue) + 1] = ResultOf(w)
<1>1. ResultOf(w) \in Result
  BY DEF TypeOK, ResultOf, Result
<1>2. queue' = Append(queue, ResultOf(w))
  BY DEF Report
<1>3. QED BY <1>1, <1>2 DEF TypeOK

(* Receiving takes the oldest result off the channel. *)
LEMMA ReceiveResult ==
  ASSUME TypeOK, Collect
  PROVE  /\ queue' \in Seq(Result)
         /\ Len(queue) \in Nat /\ Len(queue) >= 1
         /\ Head(queue) = queue[1] /\ queue[1] \in Result
         /\ Len(queue') = Len(queue) - 1
         /\ \A i \in 1..Len(queue') : queue'[i] = queue[i + 1]
  BY DEF TypeOK, Collect

-----------------------------------------------------------------------------
(* Type correctness needs to know where a worker with a table is. *)
WorkingJobs == \A w \in Workers : pc[w] \in Working => job[w] \in Jobs

(* The types hold at the start. *)
LEMMA TypeInit == Init => TypeOK /\ WorkingJobs
<1> SUFFICES ASSUME Init PROVE TypeOK /\ WorkingJobs
  OBVIOUS
<1>1. /\ ctxDone \in BOOLEAN /\ cancelled \in BOOLEAN /\ jobsClosed \in BOOLEAN
      /\ resClosed \in BOOLEAN
  BY DEF Init
<1>2. /\ next \in 1..(N + 1) /\ committed \subseteq Jobs /\ firstErr \in Outcomes
      /\ ret \in Outcomes \cup {"running"}
  BY PoolAssumption DEF Init
<1>3. /\ pc \in [Workers -> WorkerStates] /\ job \in [Workers -> Jobs \cup {NoJob}]
      /\ err \in [Workers -> Outcomes] /\ copied \in [Workers -> BOOLEAN]
      /\ conns \in [Workers -> SUBSET Conns]
  BY DEF Init, WorkerStates
<1>4. queue \in Seq(Result) /\ results \in [Jobs -> Result \cup {NoResult}]
  BY DEF Init
<1>5. WorkingJobs
  BY DEF Init, WorkingJobs, Working
<1>6. QED BY <1>1, <1>2, <1>3, <1>4, <1>5 DEF TypeOK

(* Every step keeps the types, and a worker at work on a table. *)
LEMMA TypeStep ==
  ASSUME TypeOK, WorkingJobs, [Next]_vars
  PROVE  TypeOK' /\ WorkingJobs'
<1> USE PoolAssumption DEF TypeOK, WorkingJobs, Working, WorkerStates
<1>1. CASE CancelCaller
  BY <1>1 DEF CancelCaller, enqVars, workerVars, mainVars
<1>2. CASE CloseJobs
  BY <1>2 DEF CloseJobs, enqVars, workerVars, mainVars
<1>3. CASE CloseResults
  BY <1>3 DEF CloseResults, enqVars, workerVars, mainVars
<1>4. CASE Collect
  <2>1. queue' \in Seq(Result) /\ Head(queue) \in Result
    BY <1>4, ReceiveResult
  <2>2. results' \in [Jobs -> Result \cup {NoResult}]
    BY <1>4, <2>1 DEF Collect, Result
  <2>3. firstErr' \in Outcomes /\ cancelled' \in BOOLEAN
    BY <1>4, <2>1 DEF Collect, Result, FirstError, Join
  <2>4. QED BY <1>4, <2>1, <2>2, <2>3 DEF Collect, enqVars, workerVars
<1>5. CASE Return
  BY <1>5 DEF Return, enqVars, workerVars
<1>6. ASSUME NEW w \in Workers, Dispatch(w) PROVE TypeOK' /\ WorkingJobs'
  BY <1>6 DEF Dispatch, JobLeft, mainVars
<1>7. ASSUME NEW w \in Workers, Drained(w) PROVE TypeOK' /\ WorkingJobs'
  BY <1>7 DEF Drained, enqVars, mainVars
<1>8. ASSUME NEW w \in Workers, OpenSource(w) PROVE TypeOK' /\ WorkingJobs'
  BY <1>8 DEF OpenSource, enqVars, mainVars, MayReturn, Conns
<1>9. ASSUME NEW w \in Workers, OpenTarget(w) PROVE TypeOK' /\ WorkingJobs'
  BY <1>9 DEF OpenTarget, SourceClosed, enqVars, mainVars, MayReturn, Conns
<1>10. ASSUME NEW w \in Workers, CommitTable(w) PROVE TypeOK' /\ WorkingJobs'
  BY <1>10 DEF CommitTable, enqVars, workerVars, mainVars
<1>11. ASSUME NEW w \in Workers, CopyReturns(w) PROVE TypeOK' /\ WorkingJobs'
  BY <1>11 DEF CopyReturns, enqVars, mainVars, MayReturn
<1>12. ASSUME NEW w \in Workers, CloseTarget(w) PROVE TypeOK' /\ WorkingJobs'
  BY <1>12 DEF CloseTarget, enqVars, mainVars, Join
<1>13. ASSUME NEW w \in Workers, Report(w) PROVE TypeOK' /\ WorkingJobs'
  <2>1. queue' \in Seq(Result)
    BY <1>13, SendResult DEF Report
  <2>2. QED BY <1>13, <2>1 DEF Report, enqVars, mainVars
<1>14. ASSUME NEW w \in Workers, CancelOnError(w) PROVE TypeOK' /\ WorkingJobs'
  BY <1>14 DEF CancelOnError, enqVars, mainVars
<1>15. CASE UNCHANGED vars
  BY <1>15 DEF vars, enqVars, workerVars, mainVars
<1>16. QED
  BY StepCases, <1>1, <1>2, <1>3, <1>4, <1>5, <1>6, <1>7, <1>8, <1>9, <1>10, <1>11, <1>12,
     <1>13, <1>14, <1>15

-----------------------------------------------------------------------------
(* Nothing moves again once it has ended. *)
LEMMA QuietStep ==
  ASSUME TypeOK, Quiet, [Next]_vars
  PROVE  Quiet'
<1> USE DEF TypeOK, Quiet, WorkersExited
<1>1. CASE CancelCaller
  BY <1>1 DEF CancelCaller, enqVars, workerVars, mainVars
<1>2. CASE CloseJobs
  BY <1>2 DEF CloseJobs, workerVars, mainVars, EnqueueEnds
<1>3. CASE CloseResults
  BY <1>3 DEF CloseResults, enqVars, workerVars, mainVars, WorkersExited
<1>4. CASE Collect
  BY <1>4 DEF Collect, enqVars, workerVars
<1>5. CASE Return
  BY <1>5 DEF Return, enqVars, workerVars
<1>6. ASSUME NEW w \in Workers, Dispatch(w) PROVE Quiet'
  BY <1>6 DEF Dispatch, mainVars, JobLeft
<1>7. ASSUME NEW w \in Workers, Drained(w) PROVE Quiet'
  BY <1>7 DEF Drained, enqVars, mainVars
<1>8. ASSUME NEW w \in Workers, OpenSource(w) PROVE Quiet'
  BY <1>8 DEF OpenSource, enqVars, mainVars, MayReturn
<1>9. ASSUME NEW w \in Workers, OpenTarget(w) PROVE Quiet'
  BY <1>9 DEF OpenTarget, enqVars, mainVars, MayReturn, SourceClosed
<1>10. ASSUME NEW w \in Workers, CommitTable(w) PROVE Quiet'
  BY <1>10 DEF CommitTable, enqVars, workerVars, mainVars
<1>11. ASSUME NEW w \in Workers, CopyReturns(w) PROVE Quiet'
  BY <1>11 DEF CopyReturns, enqVars, mainVars, MayReturn
<1>12. ASSUME NEW w \in Workers, CloseTarget(w) PROVE Quiet'
  BY <1>12 DEF CloseTarget, enqVars, mainVars, Join
<1>13. ASSUME NEW w \in Workers, Report(w) PROVE Quiet'
  BY <1>13 DEF Report, enqVars, mainVars
<1>14. ASSUME NEW w \in Workers, CancelOnError(w) PROVE Quiet'
  BY <1>14 DEF CancelOnError, enqVars, mainVars
<1>15. CASE UNCHANGED vars
  BY <1>15 DEF vars, enqVars, workerVars, mainVars
<1>16. QED
  BY StepCases, <1>1, <1>2, <1>3, <1>4, <1>5, <1>6, <1>7, <1>8, <1>9, <1>10, <1>11, <1>12,
     <1>13, <1>14, <1>15

(* The connections follow the worker's place. *)
LEMMA ConnsStep ==
  ASSUME TypeOK, ConnsByPlace, [Next]_vars
  PROVE  ConnsByPlace'
<1> USE DEF TypeOK, ConnsByPlace
<1>1. CASE CancelCaller
  BY <1>1 DEF CancelCaller, enqVars, workerVars, mainVars
<1>2. CASE CloseJobs
  BY <1>2 DEF CloseJobs, workerVars, mainVars, EnqueueEnds
<1>3. CASE CloseResults
  BY <1>3 DEF CloseResults, enqVars, workerVars, mainVars, WorkersExited
<1>4. CASE Collect
  BY <1>4 DEF Collect, enqVars, workerVars
<1>5. CASE Return
  BY <1>5 DEF Return, enqVars, workerVars
<1>6. ASSUME NEW w \in Workers, Dispatch(w) PROVE ConnsByPlace'
  BY <1>6 DEF Dispatch, mainVars, JobLeft
<1>7. ASSUME NEW w \in Workers, Drained(w) PROVE ConnsByPlace'
  BY <1>7 DEF Drained, enqVars, mainVars
<1>8. ASSUME NEW w \in Workers, OpenSource(w) PROVE ConnsByPlace'
  BY <1>8 DEF OpenSource, enqVars, mainVars, MayReturn
<1>9. ASSUME NEW w \in Workers, OpenTarget(w) PROVE ConnsByPlace'
  BY <1>9 DEF OpenTarget, enqVars, mainVars, MayReturn, SourceClosed
<1>10. ASSUME NEW w \in Workers, CommitTable(w) PROVE ConnsByPlace'
  BY <1>10 DEF CommitTable, enqVars, workerVars, mainVars
<1>11. ASSUME NEW w \in Workers, CopyReturns(w) PROVE ConnsByPlace'
  BY <1>11 DEF CopyReturns, enqVars, mainVars, MayReturn
<1>12. ASSUME NEW w \in Workers, CloseTarget(w) PROVE ConnsByPlace'
  BY <1>12 DEF CloseTarget, enqVars, mainVars, Join
<1>13. ASSUME NEW w \in Workers, Report(w) PROVE ConnsByPlace'
  BY <1>13 DEF Report, enqVars, mainVars
<1>14. ASSUME NEW w \in Workers, CancelOnError(w) PROVE ConnsByPlace'
  BY <1>14 DEF CancelOnError, enqVars, mainVars
<1>15. CASE UNCHANGED vars
  BY <1>15 DEF vars, enqVars, workerVars, mainVars
<1>16. QED
  BY StepCases, <1>1, <1>2, <1>3, <1>4, <1>5, <1>6, <1>7, <1>8, <1>9, <1>10, <1>11, <1>12,
     <1>13, <1>14, <1>15

(* Once a failure is known it stays known, and it is known before anything is
   cancelled. *)
LEMMA CauseFirstStep ==
  ASSUME TypeOK, Quiet, ResultsSound, CauseFirst, [Next]_vars
  PROVE  CauseFirst'
<1> USE DEF TypeOK, Quiet, CauseFirst
<1>1. CASE CancelCaller
  BY <1>1 DEF CancelCaller, enqVars, workerVars, mainVars
<1>2. CASE CloseJobs
  BY <1>2 DEF CloseJobs, workerVars, mainVars, CauseKnown
<1>3. CASE CloseResults
  BY <1>3 DEF CloseResults, enqVars, workerVars, mainVars, CauseKnown
<1>4. CASE Collect
  <2>1. /\ Len(queue) >= 1 /\ queue[1] \in Result
        /\ Len(queue') = Len(queue) - 1
        /\ \A i \in 1..Len(queue') : queue'[i] = queue[i + 1]
    BY <1>4, ReceiveResult
  <2>2. /\ firstErr' = IF firstErr = "nil" THEN queue[1].err ELSE firstErr
        /\ cancelled' = (cancelled \/ queue[1].err # "nil")
        /\ ret = "running"
        /\ UNCHANGED <<ctxDone, pc, err, ret>>
    BY <1>4, ReceiveResult DEF Collect, FirstError, Join, workerVars
  <2>3. queue[1].err \in Outcomes
    BY <2>1 DEF Result
  <2>4. CASE ctxDone
    BY <2>2, <2>4
  <2>5. CASE ~ctxDone /\ firstErr = "fault"
    BY <2>2, <2>5 DEF CauseKnown
  <2>6. CASE ~ctxDone /\ firstErr = "nil" /\ queue[1].err = "fault"
    BY <2>2, <2>6 DEF CauseKnown
  <2>7. CASE ~ctxDone /\ firstErr = "nil" /\ queue[1].err # "fault"
    <3>1. queue[1].err = "nil"
      BY <2>1, <2>2, <2>3, <2>7 DEF CauseKnown
    <3>2. ASSUME CauseKnown PROVE CauseKnown'
      <4>1. PICK i \in 1..Len(queue) :
              queue[i].err = "fault" /\ \A k \in 1..i : queue[k].err # "ctx"
        BY <3>2, <2>7 DEF CauseKnown
      <4>2. i - 1 \in 1..Len(queue')
        BY <4>1, <3>1, <2>1
      <4>3. queue'[i - 1].err = "fault" /\ \A k \in 1..(i - 1) : queue'[k].err # "ctx"
        <5>1. queue'[i - 1] = queue[i]
          BY <4>1, <4>2, <2>1
        <5>2. \A k \in 1..(i - 1) : queue'[k] = queue[k + 1] /\ k + 1 \in 1..i
          BY <4>1, <4>2, <2>1
        <5>3. QED BY <4>1, <5>1, <5>2
      <4>4. QED BY <4>2, <4>3 DEF CauseKnown
    <3>3. ASSUME CauseKnown' PROVE CauseKnown
      <4>1. PICK i \in 1..Len(queue') :
              queue'[i].err = "fault" /\ \A k \in 1..i : queue'[k].err # "ctx"
        BY <3>3, <2>2, <2>7, <3>1 DEF CauseKnown
      <4>2. i + 1 \in 1..Len(queue) /\ queue[i + 1].err = "fault"
        BY <4>1, <2>1
      <4>3. \A k \in 1..(i + 1) : queue[k].err # "ctx"
        <5> SUFFICES ASSUME NEW k \in 1..(i + 1) PROVE queue[k].err # "ctx"
          OBVIOUS
        <5>1. CASE k = 1
          BY <5>1, <3>1
        <5>2. CASE k # 1
          <6>1. k - 1 \in 1..i /\ queue'[k - 1] = queue[(k - 1) + 1]
            BY <5>2, <4>1, <2>1
          <6>2. QED BY <6>1, <4>1
        <5>3. QED BY <5>1, <5>2
      <4>4. QED BY <4>2, <4>3 DEF CauseKnown
    <3>4. \A i \in 1..Len(queue') : queue'[i] = queue[i + 1] /\ i + 1 \in 1..Len(queue)
      BY <2>1
    <3>5. QED BY <2>2, <2>7, <3>1, <3>2, <3>3, <3>4
  <2>8. QED BY <2>4, <2>5, <2>6, <2>7
<1>5. CASE Return
  BY <1>5 DEF Return, enqVars, workerVars
<1>6. ASSUME NEW w \in Workers, Dispatch(w) PROVE CauseFirst'
  BY <1>6 DEF Dispatch, mainVars, CauseKnown
<1>7. ASSUME NEW w \in Workers, Drained(w) PROVE CauseFirst'
  BY <1>7 DEF Drained, enqVars, mainVars, CauseKnown
<1>8. ASSUME NEW w \in Workers, OpenSource(w) PROVE CauseFirst'
  BY <1>8 DEF OpenSource, enqVars, mainVars, MayReturn, CauseKnown
<1>9. ASSUME NEW w \in Workers, OpenTarget(w) PROVE CauseFirst'
  BY <1>9 DEF OpenTarget, enqVars, mainVars, MayReturn, CauseKnown
<1>10. ASSUME NEW w \in Workers, CommitTable(w) PROVE CauseFirst'
  BY <1>10 DEF CommitTable, enqVars, workerVars, mainVars, CauseKnown
<1>11. ASSUME NEW w \in Workers, CopyReturns(w) PROVE CauseFirst'
  BY <1>11 DEF CopyReturns, enqVars, mainVars, MayReturn, CauseKnown
<1>12. ASSUME NEW w \in Workers, CloseTarget(w) PROVE CauseFirst'
  BY <1>12 DEF CloseTarget, enqVars, mainVars, Join, CauseKnown
<1>13. ASSUME NEW w \in Workers, Report(w) PROVE CauseFirst'
  <2>1. /\ queue' \in Seq(Result) /\ Len(queue') = Len(queue) + 1
        /\ \A i \in 1..Len(queue) : queue'[i] = queue[i]
        /\ queue'[Len(queue) + 1].err = err[w]
    <3>1. job[w] \in Jobs
      BY <1>13 DEF Report, ResultsSound, Working
    <3>2. ResultOf(w).err = err[w]
      BY DEF ResultOf
    <3>3. QED BY <1>13, <3>1, <3>2, SendResult
  <2>2. /\ pc[w] = "report" /\ pc'[w] = IF err[w] = "nil" THEN "receive" ELSE "cancel"
        /\ \A v \in Workers \ {w} : pc'[v] = pc[v]
        /\ UNCHANGED <<ctxDone, cancelled, err, firstErr, ret>>
    BY <1>13 DEF Report, enqVars, mainVars
  <2>3. CauseKnown => CauseKnown'
    <3> SUFFICES ASSUME CauseKnown, firstErr # "fault" PROVE CauseKnown'
      BY <2>2 DEF CauseKnown
    <3>1. PICK i \in 1..Len(queue) :
            queue[i].err = "fault" /\ \A k \in 1..i : queue[k].err # "ctx"
      BY DEF CauseKnown
    <3>2. i \in 1..Len(queue') /\ \A k \in 1..i : queue'[k] = queue[k]
      BY <2>1
    <3>3. queue'[i].err = "fault" /\ \A k \in 1..i : queue'[k].err # "ctx"
      BY <3>1, <3>2
    <3>4. QED BY <3>2, <3>3 DEF CauseKnown
  <2>4. ~ctxDone /\ ret = "running" /\ ~CauseKnown /\ err[w] = "fault" => CauseKnown'
    <3> SUFFICES ASSUME ~ctxDone, ret = "running", ~CauseKnown, err[w] = "fault"
                 PROVE  CauseKnown'
      OBVIOUS
    <3>1. Len(queue) + 1 \in 1..Len(queue')
      BY <2>1
    <3>2. \A k \in 1..(Len(queue) + 1) : queue'[k].err # "ctx"
      BY <2>1
    <3>3. QED BY <3>1, <3>2, <2>1 DEF CauseKnown
  <2>5. CASE ctxDone \/ CauseKnown'
    BY <2>2, <2>5
  <2>6. CASE ~ctxDone /\ ~CauseKnown'
    <3>1. ret = "running" /\ ~CauseKnown
      BY <2>2, <2>3, <2>6 DEF WorkersExited
    <3>2. err[w] = "nil" /\ ~cancelled /\ \A v \in Workers : pc'[v] # "cancel"
      BY <2>2, <2>4, <2>6, <3>1
    <3>3. \A i \in 1..Len(queue') : queue'[i].err # "ctx"
      <4>1. \A i \in 1..Len(queue') : i \in 1..Len(queue) \/ i = Len(queue) + 1
        BY <2>1
      <4>2. QED BY <4>1, <2>1, <2>6, <3>1, <3>2
    <3>4. QED BY <2>2, <2>6, <3>1, <3>2, <3>3
  <2>7. QED BY <2>5, <2>6
<1>14. ASSUME NEW w \in Workers, CancelOnError(w) PROVE CauseFirst'
  BY <1>14 DEF CancelOnError, enqVars, mainVars, CauseKnown
<1>15. CASE UNCHANGED vars
  BY <1>15 DEF vars, enqVars, workerVars, mainVars, CauseKnown
<1>16. QED
  BY StepCases, <1>1, <1>2, <1>3, <1>4, <1>5, <1>6, <1>7, <1>8, <1>9, <1>10, <1>11, <1>12,
     <1>13, <1>14, <1>15

(* A result says no more than what was committed, from the worker to the slice. *)
LEMMA ResultsSoundStep ==
  ASSUME TypeOK, Quiet, ResultsSound, [Next]_vars
  PROVE  ResultsSound'
<1> USE DEF TypeOK, ResultsSound, Working
<1>1. CASE CancelCaller
  BY <1>1 DEF CancelCaller, SoundResult, enqVars, workerVars, mainVars
<1>2. CASE CloseJobs
  BY <1>2 DEF CloseJobs, SoundResult, workerVars, mainVars, EnqueueEnds
<1>3. CASE CloseResults
  BY <1>3 DEF CloseResults, SoundResult, enqVars, workerVars, mainVars, WorkersExited
<1>4. CASE Collect
  <2>1. /\ Len(queue) >= 1 /\ queue[1] \in Result /\ Head(queue) = queue[1]
        /\ Len(queue') = Len(queue) - 1
        /\ \A i \in 1..Len(queue') : queue'[i] = queue[i + 1] /\ i + 1 \in 1..Len(queue)
    BY <1>4, ReceiveResult
  <2>2. SoundResult(queue[1].job, queue[1].copied, queue[1].err)
    BY <2>1
  <2>3. queue[1].job \in Jobs /\ queue[1].err \in Outcomes /\ queue[1].copied \in BOOLEAN
    BY <2>1 DEF Result
  <2>4. /\ results' = [results EXCEPT ![queue[1].job] = queue[1]]
        /\ firstErr' = IF firstErr = "nil" THEN queue[1].err ELSE firstErr
        /\ UNCHANGED <<pc, job, err, copied, committed>>
    BY <1>4, <2>1 DEF Collect, FirstError, Join, workerVars
  <2>5. \A i \in 1..Len(queue') : SoundResult(queue'[i].job, queue'[i].copied, queue'[i].err)
    BY <2>1
  <2>6. \A j \in Jobs : results'[j] = IF j = queue[1].job THEN queue[1] ELSE results[j]
    BY <2>3, <2>4
  <2>7. QED BY <2>2, <2>3, <2>4, <2>5, <2>6 DEF SoundResult
<1>5. CASE Return
  BY <1>5 DEF Return, SoundResult, enqVars, workerVars
<1>6. ASSUME NEW w \in Workers, Dispatch(w) PROVE ResultsSound'
  BY <1>6 DEF Dispatch, SoundResult, mainVars, JobLeft
<1>7. ASSUME NEW w \in Workers, Drained(w) PROVE ResultsSound'
  BY <1>7 DEF Drained, SoundResult, enqVars, mainVars
<1>8. ASSUME NEW w \in Workers, OpenSource(w) PROVE ResultsSound'
  BY <1>8 DEF OpenSource, SoundResult, enqVars, mainVars, MayReturn
<1>9. ASSUME NEW w \in Workers, OpenTarget(w) PROVE ResultsSound'
  BY <1>9 DEF OpenTarget, SoundResult, enqVars, mainVars, MayReturn, SourceClosed
<1>10. ASSUME NEW w \in Workers, CommitTable(w) PROVE ResultsSound'
  BY <1>10 DEF CommitTable, SoundResult, enqVars, workerVars, mainVars
<1>11. ASSUME NEW w \in Workers, CopyReturns(w) PROVE ResultsSound'
  BY <1>11 DEF CopyReturns, SoundResult, enqVars, mainVars, MayReturn
<1>12. ASSUME NEW w \in Workers, CloseTarget(w) PROVE ResultsSound'
  BY <1>12 DEF CloseTarget, SoundResult, enqVars, mainVars, Join
<1>13. ASSUME NEW w \in Workers, Report(w) PROVE ResultsSound'
  <2>1. job[w] \in Jobs /\ SoundResult(job[w], copied[w], err[w])
    BY <1>13 DEF Report
  <2>2. /\ Len(queue') = Len(queue) + 1
        /\ \A i \in 1..Len(queue) : queue'[i] = queue[i]
        /\ queue'[Len(queue) + 1] = ResultOf(w)
    BY <1>13, <2>1, SendResult
  <2>3. \A i \in 1..Len(queue') : i \in 1..Len(queue) \/ i = Len(queue) + 1
    BY <2>2
  <2>4. \A i \in 1..Len(queue') : SoundResult(queue'[i].job, queue'[i].copied, queue'[i].err)
    BY <2>1, <2>2, <2>3 DEF ResultOf
  <2>5. QED BY <1>13, <2>4 DEF Report, SoundResult, enqVars, mainVars
<1>14. ASSUME NEW w \in Workers, CancelOnError(w) PROVE ResultsSound'
  BY <1>14 DEF CancelOnError, SoundResult, enqVars, mainVars
<1>15. CASE UNCHANGED vars
  BY <1>15 DEF vars, SoundResult, enqVars, workerVars, mainVars
<1>16. QED
  BY StepCases, <1>1, <1>2, <1>3, <1>4, <1>5, <1>6, <1>7, <1>8, <1>9, <1>10, <1>11, <1>12,
     <1>13, <1>14, <1>15

(* A table moves from the worker to the channel to the slice and is never dropped. *)
LEMMA NoTableLostStep ==
  ASSUME TypeOK, ResultsSound, NoTableLost, [Next]_vars
  PROVE  NoTableLost'
<1> USE PoolAssumption DEF TypeOK, NoTableLost, Working
<1>1. CASE CancelCaller
  BY <1>1 DEF CancelCaller, enqVars, workerVars, mainVars
<1>2. CASE CloseJobs
  BY <1>2 DEF CloseJobs, workerVars, mainVars, EnqueueEnds
<1>3. CASE CloseResults
  BY <1>3 DEF CloseResults, enqVars, workerVars, mainVars, WorkersExited
<1>4. CASE Collect
  <2>1. /\ Len(queue) >= 1 /\ queue[1] \in Result /\ Head(queue) = queue[1]
        /\ Len(queue') = Len(queue) - 1
        /\ \A i \in 1..Len(queue') : queue'[i] = queue[i + 1]
    BY <1>4, ReceiveResult
  <2>2. queue[1].job \in Jobs
    BY <2>1 DEF Result
  <2>3. /\ results' = [results EXCEPT ![queue[1].job] = queue[1]]
        /\ UNCHANGED <<next, pc, job>>
    BY <1>4, <2>1 DEF Collect, workerVars, enqVars
  <2>4. \A j \in Jobs : results'[j] = IF j = queue[1].job THEN queue[1] ELSE results[j]
    BY <2>2, <2>3
  <2>5. ASSUME NEW i \in 1..Len(queue)
        PROVE  \/ \E k \in 1..Len(queue') : queue'[k].job = queue[i].job
               \/ results'[queue[i].job].job # NoJob
    <3>1. CASE i = 1
      BY <2>2, <2>4, <3>1
    <3>2. CASE i # 1
      <4>1. i - 1 \in 1..Len(queue') /\ queue'[i - 1] = queue[i]
        BY <2>1, <3>2
      <4>2. QED BY <4>1
    <3>3. QED BY <3>1, <3>2
  <2>6. \A j \in 1..(next - 1) : j \in Jobs
    BY PoolAssumption
  <2>7. SUFFICES ASSUME NEW j \in 1..(next - 1)
                 PROVE  \/ \E u \in Workers : pc'[u] \in Working /\ job'[u] = j
                        \/ \E k \in 1..Len(queue') : queue'[k].job = j
                        \/ results'[j].job # NoJob
    BY <2>3
  <2>8. CASE \E v \in Workers : pc[v] \in Working /\ job[v] = j
    BY <2>3, <2>8
  <2>9. CASE \E i \in 1..Len(queue) : queue[i].job = j
    BY <2>5, <2>9
  <2>10. CASE results[j].job # NoJob
    BY <2>2, <2>4, <2>6, <2>10
  <2>11. QED BY <2>8, <2>9, <2>10
<1>5. CASE Return
  <2>1. UNCHANGED <<next, pc, job, queue, results>>
    BY <1>5 DEF Return, enqVars, workerVars
  <2>2. QED BY <2>1
<1>6. ASSUME NEW w \in Workers, Dispatch(w) PROVE NoTableLost'
  <2>1. /\ next' = next + 1 /\ next \in Nat
        /\ pc[w] = "receive" /\ pc'[w] \in Working /\ job'[w] = next
        /\ \A v \in Workers \ {w} : pc'[v] = pc[v] /\ job'[v] = job[v]
        /\ UNCHANGED <<queue, results>>
    BY <1>6 DEF Dispatch, mainVars
  <2>2. \A v \in Workers : pc[v] \in Working => pc'[v] \in Working /\ job'[v] = job[v]
    BY <2>1
  <2>3. ASSUME NEW j \in 1..(next' - 1)
        PROVE  \/ \E v \in Workers : pc'[v] \in Working /\ job'[v] = j
               \/ \E i \in 1..Len(queue') : queue'[i].job = j
               \/ results'[j].job # NoJob
    <3>1. CASE j = next
      BY <2>1, <3>1
    <3>2. CASE j \in 1..(next - 1)
      BY <2>1, <2>2, <3>2
    <3>3. QED BY <2>1, <3>1, <3>2
  <2>4. QED BY <2>3
<1>7. ASSUME NEW w \in Workers, Drained(w) PROVE NoTableLost'
  BY <1>7 DEF Drained, enqVars, mainVars
<1>8. ASSUME NEW w \in Workers, OpenSource(w) PROVE NoTableLost'
  BY <1>8 DEF OpenSource, enqVars, mainVars, MayReturn
<1>9. ASSUME NEW w \in Workers, OpenTarget(w) PROVE NoTableLost'
  BY <1>9 DEF OpenTarget, enqVars, mainVars, MayReturn, SourceClosed
<1>10. ASSUME NEW w \in Workers, CommitTable(w) PROVE NoTableLost'
  BY <1>10 DEF CommitTable, enqVars, workerVars, mainVars
<1>11. ASSUME NEW w \in Workers, CopyReturns(w) PROVE NoTableLost'
  BY <1>11 DEF CopyReturns, enqVars, mainVars, MayReturn
<1>12. ASSUME NEW w \in Workers, CloseTarget(w) PROVE NoTableLost'
  BY <1>12 DEF CloseTarget, enqVars, mainVars, Join
<1>13. ASSUME NEW w \in Workers, Report(w) PROVE NoTableLost'
  <2>1. /\ Len(queue') = Len(queue) + 1
        /\ \A i \in 1..Len(queue) : queue'[i] = queue[i]
        /\ queue'[Len(queue) + 1].job = job[w]
    <3>1. job[w] \in Jobs
      BY <1>13 DEF Report, ResultsSound
    <3>2. ResultOf(w).job = job[w]
      BY DEF ResultOf
    <3>3. QED BY <1>13, <3>1, <3>2, SendResult
  <2>2. /\ \A v \in Workers \ {w} : pc'[v] = pc[v]
        /\ UNCHANGED <<next, job, results>>
    BY <1>13 DEF Report, enqVars, mainVars
  <2>3. ASSUME NEW j \in 1..(next - 1), NEW v \in Workers, pc[v] \in Working, job[v] = j
        PROVE  \/ \E u \in Workers : pc'[u] \in Working /\ job'[u] = j
               \/ \E i \in 1..Len(queue') : queue'[i].job = j
    <3>1. CASE v = w
      BY <2>1, <2>3, <3>1, Len(queue) + 1 \in 1..Len(queue')
    <3>2. CASE v # w
      BY <2>2, <2>3, <3>2
    <3>3. QED BY <3>1, <3>2
  <2>4. ASSUME NEW i \in 1..Len(queue)
        PROVE  i \in 1..Len(queue') /\ queue'[i].job = queue[i].job
    BY <2>1
  <2>5. SUFFICES ASSUME NEW j \in 1..(next - 1)
                 PROVE  \/ \E u \in Workers : pc'[u] \in Working /\ job'[u] = j
                        \/ \E i \in 1..Len(queue') : queue'[i].job = j
                        \/ results'[j].job # NoJob
    BY <2>2
  <2>6. CASE \E v \in Workers : pc[v] \in Working /\ job[v] = j
    BY <2>3, <2>6
  <2>7. CASE \E i \in 1..Len(queue) : queue[i].job = j
    BY <2>4, <2>7
  <2>8. CASE results[j].job # NoJob
    BY <2>2, <2>8
  <2>9. QED BY <2>6, <2>7, <2>8
<1>14. ASSUME NEW w \in Workers, CancelOnError(w) PROVE NoTableLost'
  BY <1>14 DEF CancelOnError, enqVars, mainVars
<1>15. CASE UNCHANGED vars
  BY <1>15 DEF vars, enqVars, workerVars, mainVars
<1>16. QED
  BY StepCases, <1>1, <1>2, <1>3, <1>4, <1>5, <1>6, <1>7, <1>8, <1>9, <1>10, <1>11, <1>12,
     <1>13, <1>14, <1>15

(* A table that leaves the enqueuer goes to one worker, and from there to  *)
(* one place in the channel.                                               *)
LEMMA OneHolderStep ==
  ASSUME TypeOK, ResultsSound, OneHolder, [Next]_vars
  PROVE  OneHolder'
<1> USE DEF TypeOK, OneHolder, Working
<1>1. CASE CancelCaller \/ CloseJobs \/ CloseResults \/ Return \/ UNCHANGED vars
  <2>1. UNCHANGED <<next, pc, job, queue>>
    BY <1>1 DEF CancelCaller, CloseJobs, CloseResults, Return, vars, enqVars, workerVars
  <2>2. QED BY <2>1
<1>2. CASE Collect
  <2>1. /\ Len(queue') = Len(queue) - 1 /\ Len(queue) \in Nat
        /\ \A i \in 1..Len(queue') : queue'[i] = queue[i + 1] /\ i + 1 \in 1..Len(queue)
    BY <1>2, ReceiveResult
  <2>2. UNCHANGED <<next, pc, job>>
    BY <1>2 DEF Collect, enqVars, workerVars
  <2>3. ASSUME NEW i \in 1..Len(queue')
        PROVE  /\ queue'[i].job < next'
               /\ \A w \in Workers : pc'[w] \in Working => job'[w] # queue'[i].job
    <3>1. i + 1 \in 1..Len(queue) /\ queue'[i].job = queue[i + 1].job
      BY <2>1, <2>3
    <3>2. /\ queue[i + 1].job < next
          /\ \A w \in Workers : pc[w] \in Working => job[w] # queue[i + 1].job
      BY <3>1
    <3>3. QED BY <2>2, <3>1, <3>2
  <2>4. ASSUME NEW i \in 1..Len(queue'), NEW k \in 1..Len(queue'), queue'[i].job = queue'[k].job
        PROVE  i = k
    <3>1. queue[i + 1].job = queue[k + 1].job
      BY <2>1, <2>4
    <3>2. i + 1 = k + 1
      BY <2>1, <3>1
    <3>3. QED BY <2>1, <3>2
  <2>5. QED BY <2>2, <2>3, <2>4
<1>3. ASSUME NEW w \in Workers, Dispatch(w) PROVE OneHolder'
  <2>1. /\ next' = next + 1 /\ next \in Nat
        /\ job'[w] = next
        /\ \A v \in Workers \ {w} : pc'[v] = pc[v] /\ job'[v] = job[v]
        /\ UNCHANGED queue
    BY PoolAssumption, <1>3 DEF Dispatch
  <2>2. ASSUME NEW v \in Workers \ {w}, pc'[v] \in Working
        PROVE  job'[v] < next
    BY <2>1, <2>2
  <2>3. \A v \in Workers : pc'[v] \in Working => job'[v] \in Nat
    BY PoolAssumption, <1>3, <2>1 DEF Dispatch, ResultsSound
  <2>4. \A i \in 1..Len(queue) : queue[i].job \in Nat
    <3>1. \A i \in 1..Len(queue) : queue[i] \in Result
      OBVIOUS
    <3>2. QED BY <3>1, PoolAssumption DEF Result
  <2>5. /\ \A v \in Workers : pc'[v] \in Working => job'[v] < next'
        /\ \A u, v \in Workers :
             pc'[u] \in Working /\ pc'[v] \in Working /\ job'[u] = job'[v] => u = v
    BY <2>1, <2>2, <2>3
  <2>6. \A i \in 1..Len(queue) :
          /\ queue[i].job < next'
          /\ \A v \in Workers : pc'[v] \in Working => job'[v] # queue[i].job
    BY <2>1, <2>4
  <2>7. QED BY <2>1, <2>5, <2>6
<1>4. ASSUME NEW w \in Workers,
             \/ Drained(w) \/ OpenSource(w) \/ OpenTarget(w) \/ CommitTable(w)
             \/ CopyReturns(w) \/ CloseTarget(w) \/ CancelOnError(w)
      PROVE  OneHolder'
  <2>1. UNCHANGED <<next, job, queue>>
    BY <1>4 DEF Drained, OpenSource, OpenTarget, CommitTable, CopyReturns, CloseTarget,
                CancelOnError, enqVars, workerVars
  <2>2. \A v \in Workers : pc'[v] \in Working => pc[v] \in Working
    BY <1>4 DEF Drained, OpenSource, OpenTarget, CommitTable, CopyReturns, CloseTarget,
                CancelOnError, workerVars
  <2>3. QED BY <2>1, <2>2
<1>5. ASSUME NEW w \in Workers, Report(w) PROVE OneHolder'
  <2>1. pc[w] \in Working /\ job[w] \in Jobs
    BY <1>5 DEF Report, ResultsSound
  <2>2. /\ Len(queue') = Len(queue) + 1 /\ Len(queue) \in Nat
        /\ \A i \in 1..Len(queue) : queue'[i] = queue[i]
        /\ queue'[Len(queue) + 1].job = job[w]
    <3>1. ResultOf(w).job = job[w]
      BY DEF ResultOf
    <3>2. QED BY <1>5, <2>1, <3>1, SendResult
  <2>3. /\ \A v \in Workers \ {w} : pc'[v] = pc[v]
        /\ pc'[w] \notin Working
        /\ UNCHANGED <<next, job>>
    BY <1>5 DEF Report, enqVars
  <2>4. \A v \in Workers : pc'[v] \in Working => v # w /\ pc[v] \in Working
    BY <2>3
  <2>5. \A i \in 1..Len(queue') : i \in 1..Len(queue) \/ i = Len(queue) + 1
    BY <2>2
  <2>6. ASSUME NEW i \in 1..Len(queue')
        PROVE  /\ queue'[i].job < next'
               /\ \A v \in Workers : pc'[v] \in Working => job'[v] # queue'[i].job
    BY <2>1, <2>2, <2>3, <2>4, <2>5
  <2>7. ASSUME NEW i \in 1..Len(queue'), NEW k \in 1..Len(queue'), queue'[i].job = queue'[k].job
        PROVE  i = k
    BY <2>1, <2>2, <2>5, <2>7
  <2>8. QED BY <2>3, <2>4, <2>6, <2>7
<1>6. QED BY StepCases, <1>1, <1>2, <1>3, <1>4, <1>5

(* No error at the end: nothing was cancelled, a worker saw the job channel
   closed, and so every table had been handed out. *)
LEMMA CleanReturnStep ==
  ASSUME TypeOK, Quiet, CauseFirst, CleanReturn, [Next]_vars
  PROVE  CleanReturn'
<1> USE DEF TypeOK, CleanReturn
<1>1. CASE CancelCaller
  BY <1>1 DEF CancelCaller, enqVars, workerVars, mainVars
<1>2. CASE CloseJobs
  BY <1>2 DEF CloseJobs, workerVars, mainVars, EnqueueEnds
<1>3. CASE CloseResults
  BY <1>3 DEF CloseResults, enqVars, workerVars, mainVars, WorkersExited
<1>4. CASE Collect
  BY <1>4 DEF Collect, enqVars, workerVars
<1>5. CASE Return
  <2> SUFFICES ASSUME firstErr = "nil", ~ctxDone PROVE next = N + 1
    BY <1>5 DEF Return, enqVars
  <2>1. ret = "running" /\ resClosed /\ queue = <<>>
    BY <1>5 DEF Return
  <2>2. ~CauseKnown
    BY <2>1 DEF CauseKnown
  <2>3. ~cancelled
    BY <2>1, <2>2 DEF CauseFirst
  <2>4. PICK w \in Workers : pc[w] = "exited"
    BY <2>1, WorkersNonempty DEF Quiet, WorkersExited
  <2>5. jobsClosed
    BY <2>3, <2>4 DEF Quiet
  <2>6. QED BY <2>3, <2>5 DEF Quiet
<1>6. ASSUME NEW w \in Workers, Dispatch(w) PROVE CleanReturn'
  <2>1. pc[w] # "exited"
    BY <1>6 DEF Dispatch
  <2>2. ret = "running"
    BY <2>1 DEF Quiet, WorkersExited
  <2>3. QED BY <1>6, <2>2 DEF Dispatch, mainVars
<1>7. ASSUME NEW w \in Workers, Drained(w) PROVE CleanReturn'
  BY <1>7 DEF Drained, enqVars, mainVars
<1>8. ASSUME NEW w \in Workers, OpenSource(w) PROVE CleanReturn'
  BY <1>8 DEF OpenSource, enqVars, mainVars, MayReturn
<1>9. ASSUME NEW w \in Workers, OpenTarget(w) PROVE CleanReturn'
  BY <1>9 DEF OpenTarget, enqVars, mainVars, MayReturn, SourceClosed
<1>10. ASSUME NEW w \in Workers, CommitTable(w) PROVE CleanReturn'
  BY <1>10 DEF CommitTable, enqVars, workerVars, mainVars
<1>11. ASSUME NEW w \in Workers, CopyReturns(w) PROVE CleanReturn'
  BY <1>11 DEF CopyReturns, enqVars, mainVars, MayReturn
<1>12. ASSUME NEW w \in Workers, CloseTarget(w) PROVE CleanReturn'
  BY <1>12 DEF CloseTarget, enqVars, mainVars, Join
<1>13. ASSUME NEW w \in Workers, Report(w) PROVE CleanReturn'
  BY <1>13 DEF Report, enqVars, mainVars
<1>14. ASSUME NEW w \in Workers, CancelOnError(w) PROVE CleanReturn'
  BY <1>14 DEF CancelOnError, enqVars, mainVars
<1>15. CASE UNCHANGED vars
  BY <1>15 DEF vars, enqVars, workerVars, mainVars
<1>16. QED
  BY StepCases, <1>1, <1>2, <1>3, <1>4, <1>5, <1>6, <1>7, <1>8, <1>9, <1>10, <1>11, <1>12,
     <1>13, <1>14, <1>15

-----------------------------------------------------------------------------
(* The state before the first step. *)
LEMMA InvInit == Init => IInv
<1> SUFFICES ASSUME Init PROVE IInv
  OBVIOUS
<1>1. TypeOK
  BY TypeInit
<1>2. Quiet
  <2>1. CASE N = 0
    BY <2>1, next = N + 1, firstErr = "nil", queue = <<>>
       DEF Init, Quiet, WorkersExited
  <2>2. CASE N # 0
    BY <2>2 DEF Init, Quiet
  <2>3. QED BY <2>1, <2>2
<1>3. ConnsByPlace
  BY DEF Init, ConnsByPlace
<1>4. CauseFirst
  BY DEF Init, CauseFirst, CauseKnown
<1>5. ResultsSound
  BY DEF Init, ResultsSound, Working, NoResult
<1>6. NoTableLost
  BY DEF Init, NoTableLost
<1>7. CleanReturn
  BY DEF Init, CleanReturn
<1>8. OneHolder
  BY DEF Init, OneHolder, Working
<1>9. QED BY <1>1, <1>2, <1>3, <1>4, <1>5, <1>6, <1>7, <1>8 DEF IInv

(* Every step keeps the invariant. *)
LEMMA InvStep == IInv /\ [Next]_vars => IInv'
<1> SUFFICES ASSUME IInv, [Next]_vars PROVE IInv'
  OBVIOUS
<1>1. TypeOK /\ Quiet /\ ConnsByPlace /\ CauseFirst /\ ResultsSound /\ NoTableLost
      /\ OneHolder /\ CleanReturn
  BY DEF IInv
<1>2. WorkingJobs
  BY <1>1 DEF ResultsSound, WorkingJobs
<1>3. QED
  BY <1>1, <1>2, TypeStep, QuietStep, ConnsStep, CauseFirstStep, ResultsSoundStep,
     NoTableLostStep, OneHolderStep, CleanReturnStep
     DEF IInv

(* CopyTables never forgets a table, a failure or a connection, for any    *)
(* number of tables and workers and any interleaving of them.              *)
THEOREM Invariance == Spec => []IInv
<1>1. QED BY InvInit, InvStep, PTL DEF Spec

(* The types of CopyTables' state (copy.go:113-140, 203-311). *)
THEOREM TypeCorrect == Spec => []TypeOK
<1>1. IInv => TypeOK
  BY DEF IInv
<1>2. QED BY <1>1, Invariance, PTL

(* The first error collected is a real failure unless the caller cancelled *)
(* (copy.go:218-232: firstErr is the first result, and the worker reports  *)
(* before it cancels).                                                     *)
THEOREM RootCause == Spec => []RootCauseFirst
<1>1. IInv => RootCauseFirst
  BY DEF IInv, CauseFirst, RootCauseFirst
<1>2. QED BY <1>1, Invariance, PTL

(* What IInv says of a return without error. *)
LEMMA NilMeansCopied == IInv => NilMeansAllCopied
<1> SUFFICES ASSUME IInv, ret # "running" PROVE
      /\ ret = "nil" /\ ~ctxDone => CopiedTables = Jobs
      /\ CopiedTables \subseteq committed
  BY DEF NilMeansAllCopied
<1>1. CopiedTables \subseteq committed
  BY DEF IInv, ResultsSound, CopiedTables
<1>2. ASSUME ret = "nil", ~ctxDone, NEW j \in Jobs PROVE results[j].copied
  <2>1. next = N + 1
    BY <1>2 DEF IInv, CleanReturn
  <2>2. WorkersExited /\ queue = <<>> /\ firstErr = "nil"
    BY <1>2 DEF IInv, Quiet
  <2>3. results[j].job # NoJob
    BY <2>1, <2>2, PoolAssumption DEF IInv, NoTableLost, WorkersExited, Working
  <2>4. QED BY <2>2, <2>3 DEF IInv, ResultsSound
<1>3. QED BY <1>1, <1>2 DEF CopiedTables

(* No error and no cancelled caller: every table is committed and counted  *)
(* (copy.go:203-233, aggregateCopyResults).                                *)
THEOREM AllCopied == Spec => []NilMeansAllCopied
  BY NilMeansCopied, Invariance, PTL

(* The numbers up to n are n. *)
LEMMA UpTo ==
  ASSUME NEW n \in Nat
  PROVE  IsFiniteSet(1..n) /\ Cardinality(1..n) = n
<1>1. 1 \in Int /\ n \in Int /\ (IF 1 > n THEN 0 ELSE n - 1 + 1) = n
  OBVIOUS
<1>2. QED BY <1>1, FS_Interval

(* The table of a worker about to report and those of the results in the   *)
(* channel are different ones, so there are fewer results than tables.     *)
LEMMA RoomToReport == IInv => ReportNeverBlocks
<1>1. ASSUME IInv, NEW w \in Workers, pc[w] = "report"
      PROVE  Room
  <2> USE <1>1 DEF IInv, OneHolder, ResultsSound, Working
  <2> DEFINE places == 1..Len(queue)
             others == Jobs \ {job[w]}
             table == [i \in places |-> queue[i].job]
  <2>1. queue \in Seq(Result) /\ Len(queue) \in Nat
    BY DEF TypeOK
  <2>2. \A i \in places : queue[i] \in Result
    BY <2>1
  <2>3. table \in [places -> others]
    BY <2>2 DEF Result
  <2>4. ASSUME NEW i \in places, NEW k \in places, table[i] = table[k]
        PROVE  i = k
    <3>1. queue[i].job = queue[k].job
      BY <2>4
    <3>2. QED BY <3>1
  <2>5. IsFiniteSet(places) /\ Cardinality(places) = Len(queue)
    BY <2>1, UpTo
  <2>6. IsFiniteSet(others) /\ Cardinality(others) = N - 1
    <3>1. IsFiniteSet(Jobs) /\ Cardinality(Jobs) = N
      BY PoolAssumption, UpTo
    <3>2. job[w] \in Jobs
      OBVIOUS
    <3> HIDE DEF Jobs
    <3>3. QED BY <3>1, <3>2, FS_RemoveElement
  <2>7. ~(N - 1 < Len(queue))
    <3> HIDE DEF places, others, table
    <3>1. QED BY <2>3, <2>4, <2>5, <2>6, FS_PigeonHole
  <2>8. QED BY <2>1, <2>7, PoolAssumption DEF Room
<1>2. QED BY <1>1 DEF ReportNeverBlocks

(* A worker about to report never waits for the collector (copy.go:210,    *)
(* the buffer of the channel): its error cancels the others at once.       *)
THEOREM ReportsAtOnce == Spec => []ReportNeverBlocks
  BY RoomToReport, Invariance, PTL

(* The pool never comes to a state in which all its goroutines wait for    *)
(* each other, for any number of tables and workers: a worker has room to  *)
(* report, and with no worker left the enqueuer sees the cancelled context *)
(* (copy.go:235-266).                                                      *)
THEOREM PoolNeverStuck == Spec => []NeverStuck
<1>1. ASSUME IInv, ret = "running" \/ ~jobsClosed
      PROVE  \/ ~jobsClosed /\ EnqueueEnds
             \/ ~jobsClosed /\ JobLeft /\ \E w \in Workers : pc[w] = "receive"
             \/ \E w \in Workers :
                  \/ pc[w] \in {"openSource", "openTarget", "copy", "closeTarget", "cancel"}
                  \/ pc[w] = "receive" /\ jobsClosed
                  \/ pc[w] = "report" /\ Room
             \/ WorkersExited /\ ~resClosed
             \/ ret = "running" /\ (queue # <<>> \/ resClosed)
  <2> USE <1>1
  <2>1. TypeOK /\ Quiet /\ ReportNeverBlocks
    BY RoomToReport DEF IInv
  <2>2. CASE \E w \in Workers : pc[w] # "exited"
    <3>1. PICK w \in Workers : pc[w] # "exited"
      BY <2>2
    <3>2. CASE pc[w] = "receive" /\ ~jobsClosed
      <4>1. JobLeft \/ EnqueueEnds
        BY <2>1, PoolAssumption DEF TypeOK, JobLeft, EnqueueEnds
      <4>2. QED BY <3>2, <4>1
    <3>3. CASE pc[w] # "receive" \/ jobsClosed
      BY <2>1, <3>1, <3>3 DEF TypeOK, WorkerStates, ReportNeverBlocks
    <3>4. QED BY <3>2, <3>3
  <2>3. CASE WorkersExited
    <3>1. PICK w \in Workers : pc[w] = "exited"
      BY <2>3, WorkersNonempty DEF WorkersExited
    <3>2. jobsClosed \/ EnqueueEnds
      BY <2>1, <3>1 DEF Quiet, EnqueueEnds
    <3>3. QED BY <2>3, <3>2
  <2>4. QED BY <2>2, <2>3 DEF WorkersExited
<1>2. IInv => NeverStuck
  BY <1>1 DEF NeverStuck
<1>3. QED BY <1>2, Invariance, PTL

(* After CopyTables has returned, no worker runs, no connection is open    *)
(* and the result channel is drained (copy.go:246-291).                    *)
THEOREM NothingLeftBehind == Spec => []QuietAfterReturn
<1>1. IInv => QuietAfterReturn
  BY DEF IInv, Quiet, WorkersExited, ConnsByPlace, QuietAfterReturn
<1>2. QED BY <1>1, Invariance, PTL

(* No goroutine of CopyTables waits for what does not come, for any number *)
(* of tables and workers, and none is left behind (copy.go:203-291).       *)
THEOREM PoolIsSound == Spec => []PoolInv
  BY ReportsAtOnce, PoolNeverStuck, NothingLeftBehind, PTL DEF PoolInv

(* The result channel is closed only after the last send (copy.go:246-249).*)
THEOREM ChannelSafe == Spec => []NoSendOnClosed
<1>1. IInv => NoSendOnClosed
  BY DEF IInv, Quiet, WorkersExited, NoSendOnClosed
<1>2. QED BY <1>1, Invariance, PTL

-----------------------------------------------------------------------------
(* The pool starts where its contract starts. *)
LEMMA ContractStart == Init => Contract!ContractInit
  BY DEF Init, Contract!ContractInit

(* A step of the pool is a step of its contract or none. *)
LEMMA ContractStep ==
  IInv /\ IInv' /\ [Next]_vars => [Contract!ContractNext]_Contract!contractVars
<1> SUFFICES ASSUME IInv, IInv', [Next]_vars
             PROVE  Contract!ContractNext \/ UNCHANGED <<ctxDone, committed, ret>>
  BY DEF Contract!contractVars
<1>1. CASE CancelCaller
  BY <1>1 DEF CancelCaller, mainVars, Contract!ContractNext, Contract!CancelContext
<1>2. CASE Return
  <2>1. /\ ret = "running" /\ ret' = firstErr /\ firstErr' = firstErr
        /\ UNCHANGED <<ctxDone, committed>>
    BY <1>2 DEF Return
  <2>2. firstErr \in Outcomes
    BY DEF IInv, TypeOK
  <2>3. firstErr = "ctx" => ctxDone
    BY DEF IInv, CauseFirst
  <2>4. firstErr = "nil" /\ ~ctxDone => committed = Jobs
    <3>1. NilMeansAllCopied'
      BY NilMeansCopied, PTL
    <3>2. ret' # "running" /\ committed' \subseteq Jobs
      BY <2>1, <2>2 DEF IInv, TypeOK
    <3>3. ASSUME firstErr = "nil", ~ctxDone PROVE Jobs \subseteq committed
      BY <2>1, <3>1, <3>2, <3>3 DEF NilMeansAllCopied
    <3>4. QED BY <2>1, <3>2, <3>3
  <2>5. Contract!MayReturn(firstErr, committed = Jobs \/ ctxDone, ctxDone)
    BY <2>2, <2>3, <2>4 DEF Contract!MayReturn, Contract!Outcomes
  <2>6. Contract!Return(firstErr)
    BY <2>1, <2>5 DEF Contract!Return
  <2>7. QED BY <2>2, <2>6 DEF Contract!ContractNext, Contract!Outcomes
<1>3. ASSUME NEW w \in Workers, CommitTable(w) PROVE Contract!ContractNext
  <2>1. pc[w] = "copy" /\ job[w] \notin committed /\ committed' = committed \cup {job[w]}
        /\ UNCHANGED <<ctxDone, ret>>
    BY <1>3 DEF CommitTable, mainVars
  <2>2. job[w] \in Jobs
    BY <2>1 DEF IInv, ResultsSound, Working
  <2>3. ret = "running"
    BY <2>1 DEF IInv, Quiet, WorkersExited
  <2>4. Contract!CommitItem(job[w])
    BY <2>1, <2>2, <2>3 DEF Contract!CommitItem
  <2>5. QED BY <2>2, <2>4 DEF Contract!ContractNext
<1>4. CASE CloseJobs \/ CloseResults \/ Collect
  BY <1>4 DEF CloseJobs, CloseResults, Collect, mainVars
<1>5. ASSUME NEW w \in Workers,
             \/ Dispatch(w) \/ Drained(w) \/ OpenSource(w) \/ OpenTarget(w)
             \/ CopyReturns(w) \/ CloseTarget(w) \/ Report(w) \/ CancelOnError(w)
      PROVE  UNCHANGED <<ctxDone, committed, ret>>
  BY <1>5 DEF Dispatch, Drained, OpenSource, OpenTarget, CopyReturns, CloseTarget, Report,
     CancelOnError, mainVars
<1>6. CASE UNCHANGED vars
  BY <1>6 DEF vars, mainVars
<1>7. QED BY StepCases, <1>1, <1>2, <1>3, <1>4, <1>5, <1>6

(* CopyTables implements CopyContract: it commits tables while it runs and *)
(* returns once, without error only when all of them are committed or its  *)
(* caller has cancelled.                                                   *)
THEOREM PoolKeepsContract == Spec => KeepsContract
<1>1. QED
  BY Invariance, ContractStart, ContractStep, PTL
     DEF Spec, KeepsContract, Contract!ContractSpec
=============================================================================
