----------------------------- MODULE CopyProofs -----------------------------
(***************************************************************************)
(* Proofs about the copy of a table and about what is shown of it.         *)
(*                                                                         *)
(* CopyTable, for a stream of any length and any number of writes of other *)
(* clients: what is committed, what is reported, and that the copy of a    *)
(* table keeps the contract that CopyPool relies on.                       *)
(*                                                                         *)
(* LiveProgress, for any databases, tables, rows, estimates and number of  *)
(* workers: the totals shown are those of the tables that are done.  These *)
(* totals are folds over sets; what a fold is of every finite set is shown *)
(* first, by taking a least set of which it would be false.                *)
(***************************************************************************)
EXTENDS CopyTable, LiveProgress, SequenceTheorems, FiniteSetTheorems, TLAPS

-----------------------------------------------------------------------------
(* The copy of a table. *)

(* What was sent was read, at the version of the snapshot. *)
StreamSound ==
  /\ src = "copy" => view = SnapshotVersion
  /\ received = [i \in 1..sent |-> SnapshotVersion]

(* The write end is closed once, after the last chunk or with an error.    *)
(* The cleanup may add an error of its own afterwards.                     *)
WriterSound ==
  /\ src \in {"begin", "adopt", "copy"} => srcErr = "nil"
  /\ src \in {"begin", "adopt", "copy", "closeWriter"} <=> pipeW = "open"
  /\ src = "closeWriter" /\ srcErr = "nil" => sent = Chunks
  /\ pipeW = "nil" => sent = Chunks
  /\ pipeW \notin {"open", "nil"} => srcErr = pipeW
  /\ src = "done" => ~srcConn

(* The target commits only at end of file, and ends without an error only  *)
(* if it has committed.                                                    *)
TargetSound ==
  /\ committed => pipeW = "nil"
  /\ tgt = "copy" => tgtErr = "nil" /\ ~committed
  /\ tgt = "closeReader" => tgtErr # "nil"
  /\ tgt = "done" /\ tgtErr = "nil" => committed
  /\ pipeR # "open" => pipeR = tgtErr /\ tgtErr # "nil"

(* CopyTable cancels only after the target has ended, and because it ended *)
(* with an error.                                                          *)
CallerSound ==
  /\ main = "awaitTarget" => ~cancelled
  /\ main # "awaitTarget" => tgt = "done"
  /\ main = "awaitSource" => (cancelled <=> tgtErr # "nil")
  /\ main = "returned" <=> ret # "running"
  /\ main = "returned" => src = "done" /\ ret = ReturnedError

(* Every error is the failure of a server or the caller's cancellation,    *)
(* save that the source may be interrupted after the target's failure.     *)
CausesReal ==
  /\ tgtErr \in Servers => tgtErr \in faults
  /\ tgtErr = "ctx" => ctxDone
  /\ srcErr \in Servers => srcErr \in faults
  /\ srcErr = "ctx" => ctxDone \/ tgtErr # "nil"

CInv ==
  /\ TypeOK
  /\ StreamSound /\ WriterSound /\ TargetSound /\ CallerSound /\ CausesReal

(* One step of the specification is one action, or changes nothing. *)
LEMMA StepCases ==
  ASSUME [Next]_vars
  PROVE  \/ SourceWrite \/ SnapshotLost \/ CancelCaller
         \/ SrcBegin \/ SrcAdopt \/ SrcCopyEnds \/ SrcCloseWriter \/ SrcCleanup
         \/ Transfer
         \/ TgtCommit \/ TgtCopyFails \/ TgtCloseReader
         \/ AwaitTarget \/ AwaitSource
         \/ UNCHANGED vars
  BY DEF Next, Source, Target, Caller, Returned

(* A chunk that is transferred lengthens the sound stream by one. *)
LEMMA AppendKeeps ==
  ASSUME NEW n \in Nat, NEW x
  PROVE  Append([i \in 1..n |-> x], x) = [i \in 1..(n + 1) |-> x]
<1> DEFINE s == [i \in 1..n |-> x]
           t == [i \in 1..(n + 1) |-> x]
<1>1. s \in Seq({x}) /\ Len(s) = n /\ t \in Seq({x}) /\ Len(t) = n + 1
  OBVIOUS
<1>2. Append(s, x) \in Seq({x}) /\ Len(Append(s, x)) = n + 1
  BY <1>1
<1>3. \A i \in 1..(n + 1) : Append(s, x)[i] = t[i]
  BY <1>1
<1> HIDE DEF s, t
<1>4. Append(s, x) = t
  BY <1>1, <1>2, <1>3, SeqEqual
<1>5. QED BY <1>4 DEF s, t

(* A copy starts with nothing sent, read, closed or failed. *)
LEMMA CopyInit == Init => CInv
<1> SUFFICES ASSUME Init PROVE CInv
  OBVIOUS
<1>1. TypeOK
  <2>1. /\ snapshot \in BOOLEAN /\ ctxDone \in BOOLEAN /\ cancelled \in BOOLEAN
        /\ srcConn \in BOOLEAN /\ committed \in BOOLEAN
    BY DEF Init
  <2>2. faults \subseteq Servers /\ received \in Seq(0..MaxVersion)
    BY DEF Init
  <2>3. QED
    BY <2>1, <2>2, ChunksIsNat, MaxVersionIsNat
       DEF Init, TypeOK, SnapshotVersion, Errors, Servers
<1>2. StreamSound
  BY DEF Init, StreamSound
<1>3. QED
  BY <1>1, <1>2
     DEF Init, CInv, WriterSound, TargetSound, CallerSound, CausesReal, Errors, Servers

(* A server that fails is a server. *)
LEMMA FaultsStep ==
  ASSUME TypeOK, [Next]_vars
  PROVE  faults' \subseteq Servers
<1>1. faults \subseteq Servers /\ "source" \in Servers /\ "target" \in Servers
  BY DEF TypeOK, Servers
<1>2. \/ faults' = faults \/ faults' = faults \cup {"source"}
      \/ \E s \in Servers, e \in Errors : StatementFails(s, e)
  BY <1>1, StepCases, Zenon
     DEF SourceWrite, SnapshotLost, CancelCaller, SrcBegin, SrcAdopt, SrcCopyEnds,
         SrcCloseWriter, SrcCleanup, Transfer, TgtCommit, TgtCopyFails, TgtCloseReader,
         AwaitTarget, AwaitSource, vars
<1>3. QED BY <1>1, <1>2 DEF StatementFails

(* The state of a copy keeps its types. *)
LEMMA TypesStep ==
  ASSUME TypeOK, [Next]_vars
  PROVE  TypeOK'
<1>0. faults' \subseteq Servers
  BY FaultsStep
<1> USE ChunksIsNat, MaxVersionIsNat, <1>0 DEF srcVars, tgtVars, envVars, pipeVars, mainVars
<1>1. CASE SourceWrite
  BY <1>1 DEF SourceWrite, TypeOK
<1>2. CASE SnapshotLost
  <2>1. snapshot' \in BOOLEAN
    BY <1>2 DEF SnapshotLost
  <2>2. UNCHANGED <<srcVars, tgtVars, version, ctxDone, pipeVars, mainVars, faults>>
    BY <1>2 DEF SnapshotLost
  <2>3. QED BY <2>1, <2>2 DEF TypeOK
<1>3. CASE CancelCaller
  BY <1>3 DEF CancelCaller, TypeOK
<1>4. CASE SrcBegin \/ SrcAdopt \/ SrcCopyEnds
  BY <1>4 DEF SrcBegin, SrcAdopt, SrcCopyEnds, StatementFails, SrcError, AdoptedVersion,
              SnapshotVersion, TypeOK, Errors, Servers
<1>5. CASE SrcCloseWriter
  BY <1>5 DEF SrcCloseWriter, WriterEnd, TypeOK
<1>6. CASE SrcCleanup
  <2>1. srcErr' \in Errors /\ srcConn' \in BOOLEAN
    BY <1>6 DEF SrcCleanup, TypeOK, Errors, Servers
  <2>2. src' = "done" /\ UNCHANGED <<view, sent, tgtVars, envVars, pipeVars, mainVars>>
    BY <1>6 DEF SrcCleanup
  <2>3. QED BY <2>1, <2>2 DEF TypeOK
<1>7. CASE Transfer
  BY <1>7 DEF Transfer, ChunkLeft, TypeOK
<1>8. CASE TgtCommit
  <2>1. tgtErr' \in Errors /\ committed' \in BOOLEAN
    BY <1>8 DEF TgtCommit, StatementFails, TgtError, TypeOK
  <2>2. /\ tgt' \in {"closeReader", "done"}
        /\ UNCHANGED <<received, srcVars, envVars, pipeVars, mainVars>>
    BY <1>8 DEF TgtCommit, TgtError
  <2>3. QED BY <2>1, <2>2 DEF TypeOK
<1>9. CASE TgtCopyFails
  BY <1>9 DEF TgtCopyFails, StatementFails, TgtError, TypeOK, Errors, Servers
<1>10. CASE TgtCloseReader
  BY <1>10 DEF TgtCloseReader, TypeOK
<1>11. CASE AwaitTarget
  BY <1>11 DEF AwaitTarget, TypeOK
<1>12. CASE AwaitSource
  BY <1>12 DEF AwaitSource, ReturnedError, TypeOK
<1>13. CASE UNCHANGED vars
  BY <1>13 DEF vars, TypeOK
<1>14. QED
  BY StepCases, <1>1, <1>2, <1>3, <1>4, <1>5, <1>6, <1>7, <1>8, <1>9, <1>10, <1>11, <1>12, <1>13

(* The stream, the two ends of the pipe, the caller and the causes of the  *)
(* errors keep each other sound.                                           *)
LEMMA CopyStep == CInv /\ [Next]_vars => CInv'
<1> SUFFICES ASSUME CInv, [Next]_vars PROVE CInv'
  OBVIOUS
<1>0. TypeOK'
  BY TypesStep DEF CInv
<1> USE <1>0, ChunksIsNat
    DEF CInv, TypeOK, StreamSound, WriterSound, TargetSound, CallerSound, CausesReal,
        ReturnedError, Errors, Servers, srcVars, tgtVars, envVars, pipeVars, mainVars
<1>1. CASE SourceWrite
  BY <1>1 DEF SourceWrite
<1>2. CASE SnapshotLost
  BY <1>2 DEF SnapshotLost
<1>3. CASE CancelCaller
  BY <1>3 DEF CancelCaller
<1>4. CASE SrcBegin
  BY <1>4 DEF SrcBegin, StatementFails, SrcError
<1>5. CASE SrcAdopt
  BY <1>5 DEF SrcAdopt, StatementFails, SrcError, AdoptedVersion
<1>6. CASE SrcCopyEnds
  BY <1>6 DEF SrcCopyEnds, StatementFails, SrcError
<1>7. CASE SrcCloseWriter
  BY <1>7 DEF SrcCloseWriter, WriterEnd
<1>8. CASE SrcCleanup
  BY <1>8 DEF SrcCleanup
<1>9. CASE Transfer
  BY <1>9 DEF Transfer, ChunkLeft
<1>10. CASE TgtCommit
  BY <1>10 DEF TgtCommit, StatementFails, TgtError
<1>11. CASE TgtCopyFails
  BY <1>11 DEF TgtCopyFails, StatementFails, TgtError
<1>12. CASE TgtCloseReader
  BY <1>12 DEF TgtCloseReader
<1>13. CASE AwaitTarget
  BY <1>13 DEF AwaitTarget
<1>14. CASE AwaitSource
  BY <1>14 DEF AwaitSource, SourceDone
<1>15. CASE UNCHANGED vars
  BY <1>15 DEF vars
<1>16. QED
  BY StepCases, <1>1, <1>2, <1>3, <1>4, <1>5, <1>6, <1>7, <1>8, <1>9, <1>10, <1>11, <1>12,
     <1>13, <1>14, <1>15

(* The invariant holds throughout a copy. *)
LEMMA CopyInvariance == Spec => []CInv
  BY CopyInit, CopyStep, PTL DEF Spec

(* The source, the target and the caller never all wait for each other:    *)
(* whoever leaves the pipe closes its end, and the source is cancelled     *)
(* when the target has failed.                                             *)
LEMMA SomeoneGoesOn == CInv => NeverStuck
<1> SUFFICES ASSUME CInv, main # "returned" PROVE NeverStuck
  BY DEF NeverStuck
<1>1. /\ src \in {"begin", "adopt", "copy", "closeWriter", "cleanup", "done"}
      /\ tgt \in {"copy", "closeReader", "done"}
      /\ main \in {"awaitTarget", "awaitSource"}
  BY DEF CInv, TypeOK
<1>2. CASE main = "awaitTarget"
  <2>1. tgt = "copy" /\ src = "done" => pipeW # "open"
    BY DEF CInv, WriterSound
  <2>2. QED BY <1>1, <1>2, <2>1 DEF NeverStuck
<1>3. CASE main = "awaitSource"
  <2>1. tgt = "done" /\ (cancelled <=> tgtErr # "nil")
    BY <1>3 DEF CInv, CallerSound
  <2>2. src = "copy" => cancelled
    BY <2>1 DEF CInv, WriterSound, TargetSound
  <2>3. QED BY <1>1, <1>3, <2>2 DEF NeverStuck
<1>4. QED BY <1>1, <1>2, <1>3

(* No error is returned only for committed rows, and CopyTable is the last *)
(* to end (copy.go:49-74): the caller closes the target connection and the *)
(* snapshot when no goroutine uses them any more.  Until then one of its   *)
(* goroutines can go on (copy.go:161, 186, 76-84).                         *)
THEOREM CopyIsSound == Spec => []Inv
<1>1. CInv => Inv
  BY SomeoneGoesOn
     DEF CInv, Inv, NilMeansCommitted, NothingOutlivesCopy, WriterSound, TargetSound,
         CallerSound, ReturnedError
<1>2. QED BY <1>1, CopyInvariance, PTL

(* What the target commits is the whole table as the snapshot saw it, for  *)
(* a stream of any length (copy.go:77-100): the end of file that commits   *)
(* it is written after the last chunk only.                                *)
THEOREM CopyIsSnapshot == Spec => []CommittedIsSnapshot
<1>1. CInv => CommittedIsSnapshot
  BY DEF CInv, CommittedIsSnapshot, StreamSound, WriterSound, TargetSound
<1>2. QED BY <1>1, CopyInvariance, PTL

(* The error returned is the failure that started it (copy.go:58-74).      *)
THEOREM CopyReportsCause == Spec => []ReportsRootCause
<1>1. CInv => ReportsRootCause
  <2> SUFFICES ASSUME CInv PROVE ReportsRootCause
    OBVIOUS
  <2>1. ret \in Errors => main = "returned"
    BY DEF CInv, CallerSound, Errors, Servers
  <2>2. QED
    BY <2>1 DEF CInv, ReportsRootCause, CallerSound, CausesReal, ReturnedError, Errors, Servers
<1>2. QED BY <1>1, CopyInvariance, PTL

-----------------------------------------------------------------------------
(* The refinement of CopyContract. *)

(* What the contract calls the returned error. *)
Outcome(e) == IF e \in Servers THEN "fault" ELSE e

(* The target's commit is the contract's commit of the one item. *)
LEMMA CommitMaps ==
  ASSUME CInv, TgtCommit
  PROVE  Contract!CommitItem("table") \/ UNCHANGED Contract!contractVars
<1>1. ret = "running" /\ ~committed
  BY DEF CInv, CallerSound, TargetSound, TgtCommit
<1>2. UNCHANGED <<ctxDone, ret>>
  BY DEF TgtCommit, envVars, mainVars
<1>3. CASE committed'
  BY <1>1, <1>2, <1>3 DEF Contract!CommitItem, Servers
<1>4. CASE ~committed'
  BY <1>1, <1>2, <1>4 DEF Contract!contractVars
<1>5. QED BY <1>3, <1>4

(* The return of CopyTable is one that the contract allows. *)
LEMMA ReturnMaps ==
  ASSUME CInv, AwaitSource
  PROVE  \E e \in Contract!Outcomes : Contract!Return(e)
<1>1. tgt = "done" /\ ret = "running" /\ ret' = ReturnedError /\ UNCHANGED <<ctxDone, committed>>
  BY DEF CInv, CallerSound, AwaitSource, envVars, tgtVars
<1>2. ReturnedError \in Errors
  BY DEF CInv, TypeOK, ReturnedError
<1>3. ReturnedError = "nil" => committed
  BY <1>1 DEF CInv, TargetSound, ReturnedError
<1>4. ReturnedError = "ctx" => ctxDone
  BY DEF CInv, CausesReal, ReturnedError
<1>5. Outcome(ReturnedError) \in Contract!Outcomes
  BY <1>2 DEF Outcome, Errors, Contract!Outcomes
<1>6. Contract!Return(Outcome(ReturnedError))
  BY <1>1, <1>2, <1>3, <1>4, <1>5
     DEF Contract!Return, Contract!MayReturn, Contract!Outcomes, Outcome, Errors, Servers
<1>7. QED BY <1>5, <1>6

(* A copy of one table is a copy of one item in the sense of the contract  *)
(* that CopyPool builds on (copy.go:32-100): every step is a step of       *)
(* CopyContract or leaves its variables alone.                             *)
THEOREM CopyKeepsContract == Spec => KeepsContract
<1>1. Init => Contract!ContractInit
  BY DEF Init, Contract!ContractInit, Servers
<1>2. CInv /\ [Next]_vars => [Contract!ContractNext]_Contract!contractVars
  <2> SUFFICES ASSUME CInv, [Next]_vars
               PROVE  [Contract!ContractNext]_Contract!contractVars
    OBVIOUS
  <2>1. CASE \/ SourceWrite \/ SnapshotLost \/ SrcBegin \/ SrcAdopt \/ SrcCopyEnds
             \/ SrcCloseWriter \/ SrcCleanup \/ Transfer \/ TgtCopyFails
             \/ TgtCloseReader \/ AwaitTarget \/ UNCHANGED vars
    <3>1. UNCHANGED <<ctxDone, committed, ret>>
      BY <2>1 DEF SourceWrite, SnapshotLost, SrcBegin, SrcAdopt, SrcCopyEnds, SrcCloseWriter,
                  SrcCleanup, Transfer, TgtCopyFails, TgtCloseReader, AwaitTarget,
                  vars, tgtVars, envVars, mainVars
    <3>2. QED BY <3>1 DEF Contract!contractVars
  <2>2. CASE CancelCaller
    <3>1. ctxDone' = TRUE /\ UNCHANGED <<committed, ret>>
      BY <2>2 DEF CancelCaller, tgtVars, mainVars
    <3>2. QED BY <3>1 DEF Contract!ContractNext, Contract!CancelContext
  <2>3. CASE TgtCommit
    BY <2>3, CommitMaps DEF Contract!ContractNext
  <2>4. CASE AwaitSource
    BY <2>4, ReturnMaps DEF Contract!ContractNext
  <2>5. QED BY StepCases, <2>1, <2>2, <2>3, <2>4
<1>3. QED
  BY <1>1, <1>2, CopyInvariance, PTL DEF Spec, KeepsContract, Contract!ContractSpec

-----------------------------------------------------------------------------
(* Sums over finite sets. *)

LEMMA LeastNumber ==
  ASSUME NEW N \in SUBSET Nat, N # {}
  PROVE  \E m \in N : \A n \in N : m <= n
<1>1. PICK m \in N : \A n \in N : ~ (<<n, m>> \in OpToRel(<, Nat))
  BY NatLessThanWellFounded, WFMin
<1>2. \A n \in N : <<n, m>> \in OpToRel(<, Nat) <=> n < m
  BY DEF OpToRel
<1>3. \A n \in N : ~ (n < m)
  BY <1>1, <1>2, Zenon
<1> QED  BY <1>3

First(s) == CHOOSE t \in s : TRUE

(* g adds up f over the subsets of S. *)
AddsUp(f, S, g) ==
  g = [s \in SUBSET S |-> IF s = {} THEN 0 ELSE f[First(s)] + g[s \ {First(s)}]]

LEMMA TotalIs ==
  ASSUME NEW f, NEW S
  PROVE  Total(f, S) = (CHOOSE g : AddsUp(f, S, g))[S]
BY DEF Total, MapThenSumSet, MapThenFoldSet, AddsUp, First

LEMMA FirstIn ==
  ASSUME NEW s, s # {}
  PROVE  First(s) \in s
BY DEF First

(* g adds up f over the subsets of S with at most n elements. *)
AddsUpTo(f, S, n, g) ==
  \A s \in SUBSET S : Cardinality(s) <= n =>
     g[s] = IF s = {} THEN 0 ELSE f[First(s)] + g[s \ {First(s)}]

LEMMA AddingUpTo ==
  ASSUME NEW S, IsFiniteSet(S), NEW f
  PROVE  \A n \in Nat : \E g : AddsUpTo(f, S, n, g)
<1> DEFINE Bad == {n \in Nat : ~ \E g : AddsUpTo(f, S, n, g)}
<1>0. \A s \in SUBSET S : IsFiniteSet(s) /\ Cardinality(s) \in Nat
  BY FS_Subset, FS_CardinalityType
<1>1. SUFFICES ASSUME Bad # {} PROVE FALSE
  OBVIOUS
<1>2. PICK m \in Bad : \A n \in Bad : m <= n
  BY <1>1, LeastNumber
<1>3. m # 0
  <2> DEFINE g == [s \in SUBSET S |-> 0]
  <2>1. AddsUpTo(f, S, 0, g)
    BY <1>0, FS_EmptySet DEF AddsUpTo
  <2> QED  BY <2>1
<1>4. m \in Nat /\ m - 1 \in Nat /\ m - 1 \notin Bad
  BY <1>2, <1>3
<1>5. PICK h : AddsUpTo(f, S, m - 1, h)
  BY <1>4
<1> DEFINE g == [s \in SUBSET S |-> IF s = {} THEN 0 ELSE f[First(s)] + h[s \ {First(s)}]]
<1>6. \A s \in SUBSET S : Cardinality(s) <= m - 1 => g[s] = h[s]
  BY <1>5 DEF AddsUpTo
<1>7. \A s \in SUBSET S : s # {} /\ Cardinality(s) <= m =>
         s \ {First(s)} \in SUBSET S /\ Cardinality(s \ {First(s)}) <= m - 1
  <2> TAKE s \in SUBSET S
  <2> HAVE s # {} /\ Cardinality(s) <= m
  <2>1. Cardinality(s \ {First(s)}) = Cardinality(s) - 1
    BY <1>0, FirstIn, FS_RemoveElement
  <2> QED  BY <2>1, <1>0, <1>4
<1>8. AddsUpTo(f, S, m, g)
  BY <1>6, <1>7 DEF AddsUpTo
<1> QED  BY <1>2, <1>8

LEMMA AddingUp ==
  ASSUME NEW S, IsFiniteSet(S), NEW f
  PROVE  \E g : AddsUp(f, S, g)
<1>1. /\ Cardinality(S) \in Nat
      /\ \A s \in SUBSET S : IsFiniteSet(s) /\ Cardinality(s) <= Cardinality(S)
  BY FS_Subset, FS_CardinalityType
<1>2. PICK h : AddsUpTo(f, S, Cardinality(S), h)
  BY <1>1, AddingUpTo
<1> DEFINE g == [s \in SUBSET S |-> h[s]]
<1>3. AddsUp(f, S, g)
  BY <1>1, <1>2 DEF AddsUp, AddsUpTo
<1> QED  BY <1>3

LEMMA TotalAddsUp ==
  ASSUME NEW S, IsFiniteSet(S), NEW f
  PROVE  \E g : AddsUp(f, S, g) /\ g[S] = Total(f, S)
BY AddingUp, TotalIs

LEMMA TotalEmpty ==
  ASSUME NEW f
  PROVE  Total(f, {}) = 0
<1>1. PICK g : AddsUp(f, {}, g) /\ g[{}] = Total(f, {})
  BY FS_EmptySet, TotalAddsUp
<1> QED  BY <1>1 DEF AddsUp

(* What a sum adds up over S, it adds up over the subsets of S. *)
LEMMA SameSums ==
  ASSUME NEW S, IsFiniteSet(S), NEW f, NEW g, AddsUp(f, S, g),
         NEW T \in SUBSET S, NEW h, AddsUp(f, T, h)
  PROVE  \A s \in SUBSET T : h[s] = g[s]
<1> DEFINE Bad == {n \in Nat : \E s \in SUBSET T : Cardinality(s) = n /\ h[s] # g[s]}
<1>0. \A s \in SUBSET T : s \in SUBSET S /\ IsFiniteSet(s) /\ Cardinality(s) \in Nat
  BY FS_Subset, FS_CardinalityType
<1>1. SUFFICES ASSUME Bad # {} PROVE FALSE
  BY <1>0
<1>2. PICK m \in Bad : \A n \in Bad : m <= n
  BY <1>1, LeastNumber
<1>3. PICK s \in SUBSET T : Cardinality(s) = m /\ h[s] # g[s]
  BY <1>2
<1>4. CASE s = {}
  BY <1>0, <1>3, <1>4 DEF AddsUp
<1>5. CASE s # {}
  <2> DEFINE r == s \ {First(s)}
  <2>1. r \in SUBSET T /\ Cardinality(r) \in Nat /\ Cardinality(r) < m
    BY <1>0, <1>3, <1>5, FirstIn, FS_RemoveElement
  <2>2. h[r] = g[r]
    BY <2>1, <1>2
  <2>3. h[s] = f[First(s)] + h[r]
    BY <1>5 DEF AddsUp
  <2>4. g[s] = f[First(s)] + g[r]
    BY <1>5, <1>0 DEF AddsUp
  <2> QED  BY <1>3, <2>2, <2>3, <2>4
<1> QED  BY <1>4, <1>5

(* A sum is that of one of its terms and of the others. *)
LEMMA TotalFirst ==
  ASSUME NEW S, IsFiniteSet(S), S # {}, NEW f
  PROVE  Total(f, S) = f[First(S)] + Total(f, S \ {First(S)})
<1> DEFINE T == S \ {First(S)}
<1>1. PICK g : AddsUp(f, S, g) /\ g[S] = Total(f, S)
  BY TotalAddsUp
<1>2. PICK h : AddsUp(f, T, h) /\ h[T] = Total(f, T)
  BY TotalAddsUp, FS_RemoveElement
<1>3. h[T] = g[T]
  BY <1>1, <1>2, SameSums
<1>4. g[S] = f[First(S)] + g[T]
  BY <1>1 DEF AddsUp
<1> QED  BY <1>1, <1>2, <1>3, <1>4

LEMMA TotalIsNat ==
  ASSUME NEW S, IsFiniteSet(S), NEW f, \A t \in S : f[t] \in Nat
  PROVE  Total(f, S) \in Nat
<1> DEFINE Bad == {n \in Nat : \E s \in SUBSET S : Cardinality(s) = n /\ Total(f, s) \notin Nat}
<1>0. \A s \in SUBSET S : IsFiniteSet(s) /\ Cardinality(s) \in Nat
  BY FS_Subset, FS_CardinalityType
<1>1. SUFFICES ASSUME Bad # {} PROVE FALSE
  BY <1>0
<1>2. PICK m \in Bad : \A n \in Bad : m <= n
  BY <1>1, LeastNumber
<1>3. PICK s \in SUBSET S : Cardinality(s) = m /\ Total(f, s) \notin Nat
  BY <1>2
<1>4. s # {}
  BY <1>3, TotalEmpty
<1>5. First(s) \in s /\ Cardinality(s \ {First(s)}) = Cardinality(s) - 1
  BY <1>0, <1>4, FirstIn, FS_RemoveElement
<1>6. Total(f, s \ {First(s)}) \in Nat
  BY <1>0, <1>2, <1>3, <1>5
<1>7. Total(f, s) = f[First(s)] + Total(f, s \ {First(s)})
  BY <1>0, <1>4, TotalFirst
<1>8. f[First(s)] \in Nat
  BY <1>5
<1> QED  BY <1>3, <1>6, <1>7, <1>8

(* The order in which a sum is added up does not matter. *)
LEMMA TotalWithout ==
  ASSUME NEW S, IsFiniteSet(S), NEW f, \A t \in S : f[t] \in Nat
  PROVE  \A t \in S : Total(f, S) = f[t] + Total(f, S \ {t})
<1> DEFINE Bad == {n \in Nat : \E s \in SUBSET S : /\ Cardinality(s) = n
                      /\ \E t \in s : Total(f, s) # f[t] + Total(f, s \ {t})}
<1>0. \A s \in SUBSET S : IsFiniteSet(s) /\ Cardinality(s) \in Nat
  BY FS_Subset, FS_CardinalityType
<1>1. SUFFICES ASSUME Bad # {} PROVE FALSE
  BY <1>0
<1>2. PICK m \in Bad : \A n \in Bad : m <= n
  BY <1>1, LeastNumber
<1>3. PICK s \in SUBSET S : /\ Cardinality(s) = m
                            /\ \E t \in s : Total(f, s) # f[t] + Total(f, s \ {t})
  BY <1>2
<1>4. PICK t \in s : Total(f, s) # f[t] + Total(f, s \ {t})
  BY <1>3
<1> DEFINE u == First(s)
<1>5. u \in s /\ Total(f, s) = f[u] + Total(f, s \ {u})
  BY <1>0, <1>4, FirstIn, TotalFirst
<1>6. t # u
  BY <1>4, <1>5
<1>7. /\ s \ {u} \in SUBSET S /\ Cardinality(s \ {u}) = m - 1
      /\ s \ {t} \in SUBSET S /\ Cardinality(s \ {t}) = m - 1
  BY <1>0, <1>3, <1>4, <1>5, FS_RemoveElement
<1>8. m \in Nat /\ m - 1 \in Nat /\ m - 1 \notin Bad
  BY <1>2, <1>0, <1>7
<1>9. Total(f, s \ {u}) = f[t] + Total(f, (s \ {u}) \ {t})
  BY <1>6, <1>7, <1>8
<1>10. Total(f, s \ {t}) = f[u] + Total(f, (s \ {t}) \ {u})
  BY <1>5, <1>6, <1>7, <1>8
<1>11. (s \ {u}) \ {t} = (s \ {t}) \ {u}
  OBVIOUS
<1>12. Total(f, (s \ {u}) \ {t}) \in Nat /\ f[t] \in Nat /\ f[u] \in Nat
  BY <1>0, <1>4, <1>5, <1>7, TotalIsNat, FS_RemoveElement
<1> QED  BY <1>4, <1>5, <1>9, <1>10, <1>11, <1>12

LEMMA TotalWith ==
  ASSUME NEW S, IsFiniteSet(S), NEW t, t \notin S,
         NEW f, \A u \in S \cup {t} : f[u] \in Nat
  PROVE  Total(f, S \cup {t}) = Total(f, S) + f[t]
<1>1. IsFiniteSet(S \cup {t}) /\ (S \cup {t}) \ {t} = S
  BY FS_AddElement
<1>2. Total(f, S \cup {t}) = f[t] + Total(f, (S \cup {t}) \ {t})
  BY <1>1, TotalWithout
<1>3. Total(f, S) \in Nat /\ f[t] \in Nat
  BY TotalIsNat
<1> QED  BY <1>1, <1>2, <1>3

(* A sum is at least each of its terms.                                    *)
LEMMA TermOfTotal ==
  ASSUME NEW S, IsFiniteSet(S), NEW f, \A t \in S : f[t] \in Nat, NEW t \in S
  PROVE  f[t] <= Total(f, S)
<1>1. Total(f, S) = f[t] + Total(f, S \ {t})
  BY TotalWithout
<1>2. Total(f, S \ {t}) \in Nat /\ f[t] \in Nat
  BY TotalIsNat, FS_RemoveElement
<1> QED  BY <1>1, <1>2

-----------------------------------------------------------------------------
(* The progress screen. *)

(* The databases are synced one after another, and all that is done is of  *)
(* those up to the current one.                                            *)
QueueInOrder ==
  /\ p.seenDBs = 1..db /\ p.DBIndex = db /\ p.DBTotal = Queue
  /\ \A t \in done : DBOf[t] <= db

(* An event never shows more than was read, and the last one all of it.    *)
ReaderSound ==
  \A t \in DOMAIN copying :
    /\ copying[t].shown <= copying[t].bytes
    /\ copying[t].at = "none" => copying[t].bytes = 0
    /\ copying[t].at = "ended" => copying[t].bytes = Rows[t] /\ copying[t].shown = Rows[t]

(* The bytes in flight are those of the last event of a table in a worker. *)
LastShown ==
  ~failed => /\ p.Errors = 0
             /\ \/ p.CurrentBytes = 0
                \/ \E t \in DOMAIN copying : p.CurrentBytes = copying[t].shown

ProgressInd ==
  /\ ProgressTypeOK
  /\ CountsAreDone /\ NeverPastWhole
  /\ QueueInOrder /\ ReaderSound /\ LastShown

(* Every set of tables is finite and has sums.                             *)
LEMMA SumsAreNat ==
  ASSUME NEW S \in SUBSET Tables
  PROVE  /\ IsFiniteSet(S) /\ Cardinality(S) \in Nat
         /\ Total(Rows, S) \in Nat /\ Total(Estimate, S) \in Nat
<1>1. IsFiniteSet(S) /\ Cardinality(S) \in Nat
  BY ProgressAssumption, FS_Subset, FS_CardinalityType
<1>2. \A t \in S : Rows[t] \in Nat /\ Estimate[t] \in Nat
  BY ProgressAssumption
<1> QED  BY <1>1, <1>2, TotalIsNat

LEMMA CopyingIsFinite ==
  ASSUME ProgressTypeOK
  PROVE  DOMAIN copying \in SUBSET Tables /\ IsFiniteSet(DOMAIN copying)
<1>1. DOMAIN copying \in SUBSET Tables
  BY DEF ProgressTypeOK, TablesOf
<1> QED  BY <1>1, SumsAreNat

LEMMA ShownWasCopied ==
  ASSUME ProgressInd
  PROVE  NoDoubleCounting
<1> SUFFICES ASSUME ~failed
             PROVE  p.queueCompletedBytes + p.CurrentBytes <= Total(Rows, done) + InFlight
  BY DEF NoDoubleCounting, QueueBytesCopied
<1> DEFINE bytes == [t \in DOMAIN copying |-> copying[t].bytes]
<1>1. IsFiniteSet(DOMAIN copying)
  BY CopyingIsFinite DEF ProgressInd
<1>2. \A t \in DOMAIN copying : /\ bytes[t] \in Nat /\ copying[t].shown \in Nat
                                /\ copying[t].shown <= bytes[t]
  BY DEF ProgressInd, ProgressTypeOK, ReaderSound, Readers
<1>3. InFlight \in Nat /\ \A t \in DOMAIN copying : bytes[t] <= InFlight
  <2> HIDE DEF bytes
  <2>1. InFlight = Total(bytes, DOMAIN copying)
    BY DEF InFlight, bytes
  <2> QED  BY <1>1, <1>2, <2>1, TotalIsNat, TermOfTotal
<1>4. p.CurrentBytes \in Nat /\ p.CurrentBytes <= InFlight
  <2>1. CASE p.CurrentBytes = 0
    BY <1>3, <2>1
  <2>2. CASE \E t \in DOMAIN copying : p.CurrentBytes = copying[t].shown
    <3>1. PICK t \in DOMAIN copying : p.CurrentBytes = copying[t].shown
      BY <2>2
    <3> HIDE DEF bytes
    <3> QED  BY <1>2, <1>3, <3>1
  <2> QED  BY <2>1, <2>2 DEF ProgressInd, LastShown
<1>5. p.queueCompletedBytes = Total(Rows, done) /\ Total(Rows, done) \in Nat
  BY SumsAreNat DEF ProgressInd, CountsAreDone, ProgressTypeOK
<1> QED  BY <1>3, <1>4, <1>5

LEMMA ProgressStarts == ProgressInit => ProgressInd
<1> SUFFICES ASSUME ProgressInit PROVE ProgressInd
  OBVIOUS
<1>1. DOMAIN copying = {}
  BY DEF ProgressInit
<1>2. ProgressTypeOK
  <2>1. p \in Counters
    BY ProgressAssumption DEF ProgressInit, NoDB, Counters
  <2>2. Cardinality(DOMAIN copying) <= Threads
    BY <1>1, FS_EmptySet, ProgressAssumption
  <2>3. /\ plans \subseteq 1..Queue /\ planning \in 0..Queue /\ db \in 0..Queue
        /\ done \subseteq Tables /\ failed \in BOOLEAN
    <3>1. plans = {} /\ planning = 0 /\ db = 0 /\ done = {} /\ failed = FALSE
      BY DEF ProgressInit, NoDB
    <3>2. 0 \in 0..Queue
      BY ProgressAssumption
    <3>3. failed \in BOOLEAN
      BY <3>1
    <3> QED  BY <3>1, <3>2, <3>3, Zenon
  <2> QED  BY <1>1, <2>1, <2>2, <2>3 DEF ProgressTypeOK
<1> USE DEF ProgressInit, NoDB
<1>3. TablesOf(db) = {} /\ done \cap TablesOf(db) = {}
  BY ProgressAssumption DEF TablesOf
<1>4. CountsAreDone
  BY <1>3, FS_EmptySet, TotalEmpty DEF CountsAreDone
<1>5. NeverPastWhole
  BY ProgressAssumption DEF NeverPastWhole
<1>6. QueueInOrder
  <2>1. 1..0 = {}
    OBVIOUS
  <2> QED  BY <2>1 DEF QueueInOrder
<1>7. ReaderSound /\ LastShown
  BY <1>1 DEF ReaderSound, LastShown
<1> QED  BY <1>2, <1>4, <1>5, <1>6, <1>7 DEF ProgressInd

(* An event of the current database is applied to p as it is.              *)
LEMMA CurrentIsP ==
  ASSUME ProgressInd
  PROVE  Current(db) = p
BY DEF Current, ProgressInd, CountsAreDone

(* The totals of tables that are done stay as they are.                    *)
SameTotals ==
  /\ p'.CurrentDatabase = p.CurrentDatabase /\ p'.seenDBs = p.seenDBs
  /\ p'.DBTotal = p.DBTotal /\ p'.DBIndex = p.DBIndex
  /\ p'.queueCompletedRows = p.queueCompletedRows
  /\ p'.queueCompletedBytes = p.queueCompletedBytes
  /\ p'.QueueTablesDone = p.QueueTablesDone
  /\ p'.dbCompletedRows = p.dbCompletedRows /\ p'.DBTablesDone = p.DBTablesDone
  /\ p'.DBRowsEstimated = p.DBRowsEstimated
  /\ p'.QueueRowsEstimated >= p.QueueRowsEstimated

LEMMA TotalsKept ==
  ASSUME ProgressInd, p' \in Counters, SameTotals, UNCHANGED <<db, done>>
  PROVE  CountsAreDone' /\ NeverPastWhole' /\ QueueInOrder'
<1>1. CountsAreDone'
  BY DEF ProgressInd, CountsAreDone, SameTotals, TablesOf
<1>2. NeverPastWhole'
  BY DEF ProgressInd, ProgressTypeOK, NeverPastWhole, SameTotals, Counters
<1>3. QueueInOrder'
  BY DEF ProgressInd, QueueInOrder, SameTotals
<1> QED  BY <1>1, <1>2, <1>3

LEMMA RegisterDBKeeps ==
  ASSUME ProgressInd, RegisterDB
  PROVE  ProgressInd'
<1> DEFINE plan == Total(Estimate, TablesOf(planning'))
<1>1. plan \in Nat
  BY SumsAreNat DEF TablesOf
<1>2. /\ planning' \in 0..Queue /\ plans' \subseteq 1..Queue
      /\ UNCHANGED <<db, copying, done, failed>>
  BY ProgressAssumption DEF RegisterDB, ProgressInd, ProgressTypeOK
<1>3. p' = p \/ p' = [p EXCEPT !.QueueRowsEstimated = @ + plan]
  BY DEF RegisterDB
<1>4. p \in Counters
  BY DEF ProgressInd, ProgressTypeOK
<1> HIDE DEF plan
<1>5. p' \in Counters
  BY <1>1, <1>3, <1>4 DEF Counters
<1>6. SameTotals /\ p'.CurrentBytes = p.CurrentBytes /\ p'.Errors = p.Errors
  BY <1>1, <1>3, <1>4 DEF SameTotals, Counters
<1>7. ProgressTypeOK'
  BY <1>2, <1>5 DEF ProgressInd, ProgressTypeOK, TablesOf
<1>8. CountsAreDone' /\ NeverPastWhole' /\ QueueInOrder'
  BY <1>2, <1>5, <1>6, TotalsKept
<1>9. ReaderSound' /\ LastShown'
  BY <1>2, <1>6 DEF ProgressInd, ReaderSound, LastShown
<1> QED  BY <1>7, <1>8, <1>9 DEF ProgressInd

(* What activateDB makes of the counters when the next database starts.    *)
LEMMA Activated ==
  ASSUME ProgressInd, db < Queue, NEW q, q = activateDB(p, db + 1)
  PROVE  /\ q \in Counters
         /\ q.CurrentDatabase = db + 1 /\ q.seenDBs = 1..(db + 1)
         /\ q.DBIndex = db + 1 /\ q.DBTotal = Queue
         /\ q.DBTablesDone = 0 /\ q.dbCompletedRows = 0 /\ q.CurrentBytes = 0
         /\ q.queueCompletedRows = p.queueCompletedRows
         /\ q.queueCompletedBytes = p.queueCompletedBytes
         /\ q.QueueTablesDone = p.QueueTablesDone
         /\ q.QueueRowsEstimated = p.QueueRowsEstimated
         /\ q.Errors = p.Errors
<1> DEFINE seen == p.seenDBs \cup {db + 1}
           rows == IF db + 1 \in plans THEN Total(Estimate, TablesOf(db + 1)) ELSE 0
           tables == IF db + 1 \in plans THEN Cardinality(TablesOf(db + 1)) ELSE 0
<1>1. p \in Counters /\ db \in Nat /\ Queue \in Nat
  BY ProgressAssumption DEF ProgressInd, ProgressTypeOK
<1>2. seen = 1..(db + 1) /\ Cardinality(seen) = db + 1
  <2>1. p.seenDBs = 1..db
    BY DEF ProgressInd, QueueInOrder
  <2>2. seen = 1..(db + 1)
    BY <1>1, <2>1
  <2>3. Cardinality(1..(db + 1)) = db + 1
    BY <1>1, FS_Interval
  <2> QED  BY <2>2, <2>3
<1>3. p.DBTotal = Queue
  BY DEF ProgressInd, QueueInOrder
<1>4. rows \in Nat /\ tables \in Nat
  BY SumsAreNat DEF TablesOf
<1> HIDE DEF rows, tables
<1> DEFINE r == Reset(p)
<1>5. /\ r \in Counters /\ r.DBTablesDone = 0 /\ r.dbCompletedRows = 0
      /\ r.seenDBs = p.seenDBs /\ r.DBTotal = p.DBTotal
      /\ r.queueCompletedRows = p.queueCompletedRows
      /\ r.queueCompletedBytes = p.queueCompletedBytes
      /\ r.QueueTablesDone = p.QueueTablesDone
      /\ r.QueueRowsEstimated = p.QueueRowsEstimated
      /\ r.Errors = p.Errors
  BY <1>1 DEF Reset, Counters
<1>6. q = [r EXCEPT !.CurrentDatabase = db + 1,
             !.seenDBs = 1..(db + 1), !.DBIndex = db + 1, !.DBTotal = Queue,
             !.DBRowsEstimated = rows, !.DBTablesTotal = tables, !.CurrentBytes = 0]
  <2> HIDE DEF r
  <2>1. r.seenDBs \cup {db + 1} = 1..(db + 1) /\ r.DBTotal = Queue
    BY <1>2, <1>3, <1>5
  <2>2. ~ (Queue > 0 /\ db + 1 > Queue)
    BY <1>1
  <2>3. q = [r EXCEPT !.CurrentDatabase = db + 1,
             !.seenDBs = r.seenDBs \cup {db + 1}, !.DBIndex = Cardinality(seen),
             !.DBTotal = IF r.DBTotal > 0 /\ Cardinality(seen) > r.DBTotal
                         THEN Cardinality(seen) ELSE r.DBTotal,
             !.DBRowsEstimated = rows, !.DBTablesTotal = tables, !.CurrentBytes = 0]
    BY DEF activateDB, rows, tables, r
  <2> HIDE DEF seen
  <2> QED  BY <1>1, <1>2, <2>1, <2>2, <2>3
<1>7. db + 1 \in 0..Queue /\ 1..(db + 1) \in SUBSET (1..Queue) /\ db + 1 \in Nat
  BY <1>1
<1> HIDE DEF rows, tables, r
<1>8. q \in Counters
  BY <1>4, <1>5, <1>6, <1>7, <1>1 DEF Counters
<1>9. /\ q.CurrentDatabase = db + 1 /\ q.seenDBs = 1..(db + 1)
      /\ q.DBIndex = db + 1 /\ q.DBTotal = Queue /\ q.CurrentBytes = 0
  BY <1>5, <1>6 DEF Counters
<1>10. /\ q.DBTablesDone = 0 /\ q.dbCompletedRows = 0
       /\ q.queueCompletedRows = r.queueCompletedRows
       /\ q.queueCompletedBytes = r.queueCompletedBytes
       /\ q.QueueTablesDone = r.QueueTablesDone
       /\ q.QueueRowsEstimated = r.QueueRowsEstimated
       /\ q.Errors = r.Errors
  BY <1>5, <1>6 DEF Counters
<1> QED  BY <1>5, <1>8, <1>9, <1>10

LEMMA SyncStartKeeps ==
  ASSUME ProgressInd, SyncStart
  PROVE  ProgressInd'
<1>1. /\ db \in 0..Queue /\ db < Queue /\ db' = db + 1
      /\ UNCHANGED <<plans, planning, copying, done, failed>>
      /\ p.CurrentDatabase = db
  BY DEF SyncStart, ProgressInd, ProgressTypeOK, CountsAreDone
<1>2. p' = activateDB(p, db + 1)
  BY <1>1 DEF SyncStart, Current
<1>3. DOMAIN copying = {}
  BY DEF SyncStart, ProgressInd, ProgressTypeOK
<1>4. done \cap TablesOf(db + 1) = {}
  BY <1>1 DEF ProgressInd, QueueInOrder, TablesOf
<1> USE <1>1, <1>2, Activated
<1>5. ProgressTypeOK'
  BY <1>3, ProgressAssumption DEF ProgressInd, ProgressTypeOK
<1>6. CountsAreDone'
  BY <1>4, FS_EmptySet, TotalEmpty DEF ProgressInd, CountsAreDone
<1>7. NeverPastWhole'
  BY DEF ProgressInd, NeverPastWhole, Counters
<1>8. QueueInOrder'
  BY ProgressAssumption DEF ProgressInd, ProgressTypeOK, QueueInOrder
<1>9. ReaderSound' /\ LastShown'
  BY DEF ProgressInd, ReaderSound, LastShown
<1> QED  BY <1>5, <1>6, <1>7, <1>8, <1>9 DEF ProgressInd

LEMMA TableCopyStartKeeps ==
  ASSUME ProgressInd, NEW t \in Tables, TableCopyStart(t)
  PROVE  ProgressInd'
<1>1. /\ ~failed /\ t \in TablesOf(db) /\ t \notin done /\ t \notin DOMAIN copying
      /\ copying' = [u \in DOMAIN copying \cup {t} |-> IF u = t THEN NoReader ELSE copying[u]]
      /\ UNCHANGED <<plans, planning, db, done, failed>>
  BY DEF TableCopyStart
<1>2. p' = [p EXCEPT !.CurrentBytes = 0]
  BY CurrentIsP DEF TableCopyStart
<1>3. DOMAIN copying' = DOMAIN copying \cup {t}
  BY <1>1
<1>4. \A u \in DOMAIN copying' : copying'[u] = IF u = t THEN NoReader ELSE copying[u]
  BY <1>1, <1>3
<1>5. NoReader \in Readers /\ NoReader.bytes = 0 /\ NoReader.shown = 0 /\ NoReader.at = "none"
  BY DEF NoReader, Readers
<1>6. p \in Counters
  BY DEF ProgressInd, ProgressTypeOK
<1>7. p' \in Counters /\ p'.CurrentBytes = 0 /\ p'.Errors = p.Errors /\ SameTotals
  BY <1>2, <1>6 DEF Counters, SameTotals
<1>8. ProgressTypeOK'
  <2>1. Cardinality(DOMAIN copying') <= Threads
    <3>1. IsFiniteSet(DOMAIN copying) /\ Cardinality(DOMAIN copying) \in Nat
      BY CopyingIsFinite, FS_CardinalityType DEF ProgressInd
    <3>2. Cardinality(DOMAIN copying') = Cardinality(DOMAIN copying) + 1
      BY <1>1, <1>3, <3>1, FS_AddElement
    <3> QED  BY <3>1, <3>2, ProgressAssumption DEF TableCopyStart, WorkerFree
  <2>2. DOMAIN copying' \subseteq TablesOf(db') \ done'
    BY <1>1, <1>3 DEF ProgressInd, ProgressTypeOK, TablesOf
  <2>3. \A u \in DOMAIN copying' : copying'[u] \in Readers /\ copying'[u].bytes <= Rows[u]
    BY <1>3, <1>4, <1>5, ProgressAssumption DEF ProgressInd, ProgressTypeOK
  <2> QED  BY <1>1, <1>7, <2>1, <2>2, <2>3 DEF ProgressInd, ProgressTypeOK
<1>9. CountsAreDone' /\ NeverPastWhole' /\ QueueInOrder'
  BY <1>1, <1>7, TotalsKept DEF ProgressInd
<1>10. ReaderSound'
  BY <1>3, <1>4, <1>5 DEF ProgressInd, ReaderSound
<1>11. LastShown'
  BY <1>1, <1>7 DEF ProgressInd, LastShown
<1> QED  BY <1>8, <1>9, <1>10, <1>11 DEF ProgressInd

(* A table in a worker has another reader, and its last event is shown.    *)
LEMMA ReaderKeeps ==
  ASSUME ProgressInd, NEW t \in DOMAIN copying, NEW r \in Readers,
         copying' = [copying EXCEPT ![t] = r],
         UNCHANGED <<plans, planning, db, done, failed>>,
         p' \in Counters, SameTotals, p'.Errors = p.Errors,
         r.bytes <= Rows[t], r.shown <= r.bytes, r.at # "none",
         r.at = "ended" => r.bytes = Rows[t] /\ r.shown = Rows[t],
         \/ p'.CurrentBytes = r.shown
         \/ p'.CurrentBytes = p.CurrentBytes /\ r.shown = copying[t].shown
  PROVE  ProgressInd'
<1>1. /\ DOMAIN copying' = DOMAIN copying
      /\ \A u \in DOMAIN copying : copying'[u] = IF u = t THEN r ELSE copying[u]
  OBVIOUS
<1>2. ProgressTypeOK'
  BY <1>1 DEF ProgressInd, ProgressTypeOK, TablesOf
<1>3. CountsAreDone' /\ NeverPastWhole' /\ QueueInOrder'
  BY TotalsKept
<1>4. ReaderSound'
  BY <1>1 DEF ProgressInd, ReaderSound
<1>5. LastShown'
  BY <1>1 DEF ProgressInd, LastShown
<1> QED  BY <1>2, <1>3, <1>4, <1>5 DEF ProgressInd

LEMMA EmitProgressKeeps ==
  ASSUME ProgressInd, NEW t \in DOMAIN copying, NEW r \in Readers,
         EmitProgress(t, r), UNCHANGED <<plans, planning, db, done, failed>>,
         r.bytes <= Rows[t], r.at # "none", r.at = "ended" => r.bytes = Rows[t]
  PROVE  ProgressInd'
<1> DEFINE q == [r EXCEPT !.shown = r.bytes]
<1>1. /\ q \in Readers /\ q.bytes = r.bytes /\ q.shown = r.bytes /\ q.at = r.at
      /\ copying' = [copying EXCEPT ![t] = q]
  BY DEF EmitProgress, Readers
<1>2. p' = [p EXCEPT !.CurrentBytes = r.bytes]
  BY CurrentIsP DEF EmitProgress
<1>3. p \in Counters /\ r.bytes \in Nat
  BY DEF ProgressInd, ProgressTypeOK, Readers
<1>4. p' \in Counters /\ p'.CurrentBytes = r.bytes /\ p'.Errors = p.Errors /\ SameTotals
  BY <1>2, <1>3 DEF Counters, SameTotals
<1> HIDE DEF q
<1>5. /\ q.bytes <= Rows[t] /\ q.shown <= q.bytes /\ q.at # "none"
      /\ q.at = "ended" => q.bytes = Rows[t] /\ q.shown = Rows[t]
      /\ p'.CurrentBytes = q.shown
  BY <1>1, <1>3, <1>4
<1>6. q \in Readers /\ copying' = [copying EXCEPT ![t] = q]
  BY <1>1
<1> QED  BY <1>4, <1>5, <1>6, ReaderKeeps

LEMMA ReaderOpenedKeeps ==
  ASSUME ProgressInd, NEW t \in Tables, ReaderOpened(t)
  PROVE  ProgressInd'
<1> DEFINE r == [copying[t] EXCEPT !.at = "reading"]
<1>1. t \in DOMAIN copying /\ copying[t] \in Readers /\ copying[t].bytes <= Rows[t]
  BY DEF ReaderOpened, ProgressInd, ProgressTypeOK
<1>2. r \in Readers /\ r.at = "reading" /\ r.bytes = copying[t].bytes
  BY <1>1 DEF Readers
<1>3. EmitProgress(t, r) /\ UNCHANGED <<plans, planning, db, done, failed>>
  BY DEF ReaderOpened
<1> HIDE DEF r
<1> QED  BY <1>1, <1>2, <1>3, EmitProgressKeeps

LEMMA ReadBytesKeeps ==
  ASSUME ProgressInd, NEW t \in Tables, ReadBytes(t)
  PROVE  ProgressInd'
<1> DEFINE r == [copying[t] EXCEPT !.bytes = @ + 1]
<1>1. /\ t \in DOMAIN copying /\ copying[t] \in Readers
      /\ copying[t].at = "reading" /\ copying[t].bytes < Rows[t] /\ Rows[t] \in Nat
      /\ copying[t].shown <= copying[t].bytes
      /\ UNCHANGED <<plans, planning, db, done, failed>>
  BY ProgressAssumption DEF ReadBytes, ProgressInd, ProgressTypeOK, ReaderSound
<1>2. /\ r \in Readers /\ r.at = "reading" /\ r.shown = copying[t].shown
      /\ r.bytes <= Rows[t] /\ r.shown <= r.bytes
  BY <1>1 DEF Readers
<1>3. \/ EmitProgress(t, r)
      \/ copying' = [copying EXCEPT ![t] = r] /\ UNCHANGED p
  BY DEF ReadBytes
<1>4. p \in Counters
  BY DEF ProgressInd, ProgressTypeOK
<1> HIDE DEF r
<1>5. CASE EmitProgress(t, r)
  BY <1>1, <1>2, <1>5, EmitProgressKeeps
<1>6. CASE copying' = [copying EXCEPT ![t] = r] /\ UNCHANGED p
  <2>1. SameTotals /\ p'.Errors = p.Errors /\ p' \in Counters
    BY <1>4, <1>6 DEF SameTotals, Counters
  <2> QED  BY <1>1, <1>2, <1>6, <2>1, ReaderKeeps
<1> QED  BY <1>3, <1>5, <1>6

LEMMA ReadEndsKeeps ==
  ASSUME ProgressInd, NEW t \in Tables, ReadEnds(t)
  PROVE  ProgressInd'
<1>1. /\ t \in DOMAIN copying /\ copying[t] \in Readers /\ copying[t].bytes <= Rows[t]
      /\ UNCHANGED <<plans, planning, db, done, failed>>
  BY DEF ReadEnds, ProgressInd, ProgressTypeOK
<1>2. PICK r \in Readers : /\ EmitProgress(t, r) /\ r.bytes = copying[t].bytes
                           /\ \/ r.at = "ended" /\ r.bytes = Rows[t]
                              \/ r.at = "broken"
  <2> DEFINE ended == [copying[t] EXCEPT !.at = "ended"]
             broken == [copying[t] EXCEPT !.at = "broken"]
  <2>1. /\ ended \in Readers /\ ended.at = "ended" /\ ended.bytes = copying[t].bytes
        /\ broken \in Readers /\ broken.at = "broken" /\ broken.bytes = copying[t].bytes
    BY <1>1 DEF Readers
  <2>2. \/ copying[t].bytes = Rows[t] /\ EmitProgress(t, ended)
        \/ EmitProgress(t, broken)
    BY DEF ReadEnds, EmitFinal
  <2> HIDE DEF ended, broken
  <2> QED  BY <2>1, <2>2
<1> QED  BY <1>1, <1>2, EmitProgressKeeps

LEMMA OneMoreTable ==
  ASSUME NEW S \in SUBSET Tables, NEW t \in Tables, t \notin S
  PROVE  /\ Total(Rows, S \cup {t}) = Total(Rows, S) + Rows[t]
         /\ Cardinality(S \cup {t}) = Cardinality(S) + 1
<1>1. IsFiniteSet(S)
  BY SumsAreNat
<1>2. \A u \in S \cup {t} : Rows[u] \in Nat
  BY ProgressAssumption
<1> QED  BY <1>1, <1>2, TotalWith, FS_AddElement

LEMMA TableCopyDoneKeeps ==
  ASSUME ProgressInd, NEW t \in Tables, TableCopyDone(t)
  PROVE  ProgressInd'
<1> DEFINE mine == done \cap TablesOf(db)
<1>1. /\ t \in DOMAIN copying /\ t \in TablesOf(db) /\ t \notin done
      /\ done' = done \cup {t} /\ UNCHANGED <<plans, planning, db, failed>>
      /\ copying' = [u \in DOMAIN copying \ {t} |-> copying[u]]
  BY DEF TableCopyDone, ProgressInd, ProgressTypeOK
<1>2. /\ DOMAIN copying' = DOMAIN copying \ {t}
      /\ \A u \in DOMAIN copying' : copying'[u] = copying[u]
  BY <1>1
<1>3. p' = CopyDone(p, t)
  BY CurrentIsP DEF TableCopyDone
<1>4. p \in Counters /\ Rows[t] \in Nat
  BY ProgressAssumption DEF ProgressInd, ProgressTypeOK
<1> DEFINE queueRows == p.queueCompletedRows + Rows[t]
           queueBytes == p.queueCompletedBytes + Rows[t]
           dbRows == p.dbCompletedRows + Rows[t]
           queueTables == p.QueueTablesDone + 1
           dbTables == p.DBTablesDone + 1
           queueEstimate == Clamped(p.QueueRowsEstimated, queueRows)
           dbEstimate == Clamped(p.DBRowsEstimated, dbRows)
<1>5. /\ queueRows \in Nat /\ queueEstimate \in Nat /\ queueRows <= queueEstimate
      /\ dbRows \in Nat /\ dbEstimate \in Nat /\ dbRows <= dbEstimate
      /\ queueBytes \in Nat /\ queueTables \in Nat /\ dbTables \in Nat
  BY <1>4 DEF Counters, Clamped, Larger
<1>6. /\ p' \in Counters /\ p'.CurrentBytes = 0 /\ p'.Errors = p.Errors
      /\ p'.CurrentDatabase = p.CurrentDatabase /\ p'.seenDBs = p.seenDBs
      /\ p'.DBTotal = p.DBTotal /\ p'.DBIndex = p.DBIndex
      /\ p'.queueCompletedRows = queueRows /\ p'.QueueRowsEstimated = queueEstimate
      /\ p'.queueCompletedBytes = queueBytes
      /\ p'.dbCompletedRows = dbRows /\ p'.DBRowsEstimated = dbEstimate
      /\ p'.QueueTablesDone = queueTables
      /\ p'.DBTablesDone = dbTables
  <2>1. p' = [p EXCEPT !.queueCompletedRows = queueRows,
                       !.queueCompletedBytes = queueBytes,
                       !.dbCompletedRows = dbRows,
                       !.QueueRowsEstimated = queueEstimate,
                       !.DBRowsEstimated = dbEstimate,
                       !.QueueTablesDone = queueTables,
                       !.DBTablesDone = dbTables,
                       !.CurrentBytes = 0]
    BY <1>3 DEF CopyDone, InFlightAfterDone
  <2> HIDE DEF queueRows, queueBytes, dbRows, queueTables, dbTables, queueEstimate, dbEstimate
  <2>2. p' \in Counters
    BY <1>4, <1>5, <2>1 DEF Counters
  <2>3. /\ p'.CurrentBytes = 0 /\ p'.Errors = p.Errors
        /\ p'.CurrentDatabase = p.CurrentDatabase /\ p'.seenDBs = p.seenDBs
        /\ p'.DBTotal = p.DBTotal /\ p'.DBIndex = p.DBIndex
    BY <1>4, <2>1 DEF Counters
  <2>4. /\ p'.queueCompletedRows = queueRows /\ p'.QueueRowsEstimated = queueEstimate
        /\ p'.queueCompletedBytes = queueBytes
        /\ p'.dbCompletedRows = dbRows /\ p'.DBRowsEstimated = dbEstimate
        /\ p'.QueueTablesDone = queueTables
        /\ p'.DBTablesDone = dbTables
    BY <1>4, <2>1 DEF Counters
  <2> QED  BY <2>2, <2>3, <2>4
<1>7. /\ Total(Rows, done \cup {t}) = Total(Rows, done) + Rows[t]
      /\ Cardinality(done \cup {t}) = Cardinality(done) + 1
  BY <1>1, OneMoreTable DEF ProgressInd, ProgressTypeOK
<1>8. /\ Total(Rows, mine \cup {t}) = Total(Rows, mine) + Rows[t]
      /\ Cardinality(mine \cup {t}) = Cardinality(mine) + 1
  BY <1>1, OneMoreTable DEF ProgressInd, ProgressTypeOK
<1>9. done' \cap TablesOf(db') = mine \cup {t}
  BY <1>1 DEF TablesOf
<1>10. ProgressTypeOK'
  <2>1. Cardinality(DOMAIN copying') <= Threads
    <3>1. IsFiniteSet(DOMAIN copying)
      BY CopyingIsFinite DEF ProgressInd
    <3>2. /\ Cardinality(DOMAIN copying) \in Nat /\ Cardinality(DOMAIN copying') \in Nat
          /\ Cardinality(DOMAIN copying') <= Cardinality(DOMAIN copying)
      BY <1>2, <3>1, FS_Subset, FS_CardinalityType
    <3> QED  BY <3>2, ProgressAssumption DEF ProgressInd, ProgressTypeOK
  <2>2. DOMAIN copying' \subseteq TablesOf(db') \ done'
    BY <1>1, <1>2 DEF ProgressInd, ProgressTypeOK, TablesOf
  <2> QED  BY <1>1, <1>2, <1>6, <2>1, <2>2 DEF ProgressInd, ProgressTypeOK
<1>11. CountsAreDone'
  <2> HIDE DEF mine
  <2>1. CountsAreDone /\ mine = done \cap TablesOf(db)
    BY DEF ProgressInd, mine
  <2> QED  BY <1>1, <1>6, <1>7, <1>8, <1>9, <2>1 DEF CountsAreDone
<1>12. NeverPastWhole'
  BY <1>5, <1>6 DEF ProgressInd, NeverPastWhole, QueueInOrder
<1>13. QueueInOrder'
  BY <1>1, <1>6 DEF ProgressInd, QueueInOrder, TablesOf, ProgressTypeOK
<1>14. ReaderSound' /\ LastShown'
  BY <1>1, <1>2, <1>6 DEF ProgressInd, ReaderSound, LastShown
<1> QED  BY <1>10, <1>11, <1>12, <1>13, <1>14 DEF ProgressInd

LEMMA SyncFailedKeeps ==
  ASSUME ProgressInd, SyncFailed
  PROVE  ProgressInd'
<1>1. /\ failed' = TRUE /\ copying' = <<>> /\ p.Errors = 0
      /\ UNCHANGED <<plans, planning, db, done>>
  BY DEF SyncFailed, ProgressInd, LastShown
<1>2. p' = [p EXCEPT !.Errors = @ + 1]
  BY CurrentIsP DEF SyncFailed
<1>3. DOMAIN copying' = {}
  BY <1>1
<1>4. p \in Counters
  BY DEF ProgressInd, ProgressTypeOK
<1>5. p' \in Counters /\ SameTotals
  BY <1>1, <1>2, <1>4 DEF Counters, SameTotals
<1>6. ProgressTypeOK'
  BY <1>1, <1>3, <1>5, FS_EmptySet, ProgressAssumption DEF ProgressInd, ProgressTypeOK, TablesOf
<1>7. CountsAreDone' /\ NeverPastWhole' /\ QueueInOrder'
  BY <1>1, <1>5, TotalsKept
<1>8. ReaderSound' /\ LastShown'
  BY <1>1, <1>3 DEF ReaderSound, LastShown
<1> QED  BY <1>6, <1>7, <1>8 DEF ProgressInd

LEMMA ProgressStepCases ==
  ASSUME [ProgressNext]_progressVars
  PROVE  \/ RegisterDB \/ SyncStart \/ SyncFailed
         \/ \E t \in Tables : \/ TableCopyStart(t) \/ ReaderOpened(t) \/ ReadBytes(t)
                              \/ ReadEnds(t) \/ TableCopyDone(t)
         \/ UNCHANGED progressVars
BY DEF ProgressNext, Ended

LEMMA ProgressStepKeeps ==
  ASSUME ProgressInd, [ProgressNext]_progressVars
  PROVE  ProgressInd'
<1>1. CASE UNCHANGED progressVars
  BY <1>1 DEF progressVars, ProgressInd, ProgressTypeOK, CountsAreDone, NeverPastWhole,
              QueueInOrder, ReaderSound, LastShown, TablesOf
<1> QED  BY <1>1, ProgressStepCases, RegisterDBKeeps, SyncStartKeeps, SyncFailedKeeps,
            TableCopyStartKeeps, ReaderOpenedKeeps, ReadBytesKeeps, ReadEndsKeeps,
            TableCopyDoneKeeps

LEMMA ProgressIndHolds == ProgressSpec => []ProgressInd
BY ProgressStarts, ProgressStepKeeps, PTL DEF ProgressSpec

(* Apply: the totals shown are those of the tables that are done, whatever *)
(* the order of the workers' events, none passes the whole, and while      *)
(* nothing has failed no byte is counted twice.                            *)
THEOREM ProgressIsSound == ProgressSpec => []ProgressInv
<1>1. ProgressInd => ProgressInv
  BY ShownWasCopied DEF ProgressInd, ProgressInv
<1> QED  BY <1>1, ProgressIndHolds, PTL

(* emitFinal: a table that is done was last shown with all of its bytes.   *)
THEOREM LastEventIsWhole == ProgressSpec => FinalIsWhole
<1>1. ProgressInd /\ [ProgressNext]_progressVars
        => [\A t \in done' \ done : copying[t].shown = Rows[t]]_progressVars
  <2> SUFFICES ASSUME ProgressInd, [ProgressNext]_progressVars, ~UNCHANGED progressVars,
                      NEW t \in done' \ done
               PROVE  copying[t].shown = Rows[t]
    OBVIOUS
  <2>1. CASE UNCHANGED done
    BY <2>1
  <2>2. CASE \E u \in Tables : TableCopyDone(u)
    BY <2>2 DEF TableCopyDone, ProgressInd, ReaderSound
  <2> QED  BY <2>1, <2>2, ProgressStepCases
              DEF RegisterDB, SyncStart, SyncFailed, TableCopyStart, ReaderOpened, ReadBytes,
                  ReadEnds
<1> QED  BY <1>1, ProgressIndHolds, PTL DEF ProgressSpec, FinalIsWhole

(* With one table in a worker, the bytes in flight are not more than those *)
(* read of it.                                                             *)
LEMMA BytesOfLone ==
  ASSUME ProgressInd, ~failed, NEW T, DOMAIN copying \subseteq T, \A t, u \in T : t = u
  PROVE  /\ DOMAIN copying = {} => p.CurrentBytes = 0
         /\ \A t \in DOMAIN copying : /\ copying[t] \in Readers /\ copying[t].bytes <= Rows[t]
                                      /\ p.CurrentBytes <= copying[t].bytes
<1>1. DOMAIN copying = {} => p.CurrentBytes = 0
  BY DEF ProgressInd, LastShown
<1>2. ASSUME NEW t \in DOMAIN copying
      PROVE  /\ copying[t] \in Readers /\ copying[t].bytes <= Rows[t]
             /\ p.CurrentBytes <= copying[t].bytes
  <2>1. /\ copying[t] \in Readers /\ copying[t].bytes \in Nat /\ copying[t].bytes <= Rows[t]
        /\ copying[t].shown <= copying[t].bytes
    BY DEF ProgressInd, ProgressTypeOK, ReaderSound, Readers
  <2>2. p.CurrentBytes = 0 \/ p.CurrentBytes = copying[t].shown
    BY DEF ProgressInd, LastShown
  <2> QED  BY <2>1, <2>2
<1> QED  BY <1>1, <1>2

LEMMA AtMostOne ==
  ASSUME NEW S, IsFiniteSet(S), Cardinality(S) <= 1
  PROVE  \A t, u \in S : t = u
<1>1. CASE Cardinality(S) = 0
  BY <1>1, FS_EmptySet
<1>2. CASE Cardinality(S) = 1
  <2>1. PICK x : S = {x}
    BY <1>2, FS_Singleton
  <2> QED  BY <2>1
<1>3. Cardinality(S) \in Nat
  BY FS_CardinalityType
<1> QED  BY <1>1, <1>2, <1>3

LEMMA BytesGoForward ==
  ASSUME ProgressInd, [ProgressNext]_progressVars, ~failed',
         Cardinality(DOMAIN copying \cup DOMAIN copying') <= 1
  PROVE  QueueBytesCopied <= QueueBytesCopied'
<1> DEFINE T == DOMAIN copying \cup DOMAIN copying'
<1>1. p \in Counters /\ db < Queue + 1 /\ ProgressTypeOK
  BY ProgressAssumption DEF ProgressInd, ProgressTypeOK
<1>2. T \in SUBSET Tables
  BY <1>1, ProgressStepKeeps DEF ProgressInd, ProgressTypeOK, TablesOf
<1>3. \A t, u \in T : t = u
  BY <1>2, SumsAreNat, AtMostOne
<1> HIDE DEF T
<1>4. /\ ~failed /\ DOMAIN copying = {} => p.CurrentBytes = 0
      /\ ~failed => \A t \in DOMAIN copying :
           /\ copying[t] \in Readers /\ copying[t].bytes <= Rows[t]
           /\ p.CurrentBytes <= copying[t].bytes
  BY <1>3, BytesOfLone DEF T
<1>5. p.queueCompletedBytes \in Nat /\ p.CurrentBytes \in Nat
  BY <1>1 DEF Counters
<1> SUFFICES p.queueCompletedBytes + p.CurrentBytes <= p'.queueCompletedBytes + p'.CurrentBytes
  BY DEF QueueBytesCopied
<1>6. ASSUME NEW t \in DOMAIN copying, NEW r \in Readers, EmitProgress(t, r), ~failed,
             copying[t].bytes <= r.bytes
      PROVE  p.queueCompletedBytes + p.CurrentBytes <= p'.queueCompletedBytes + p'.CurrentBytes
  <2>1. p' = [p EXCEPT !.CurrentBytes = r.bytes] /\ r.bytes \in Nat
    BY <1>6, CurrentIsP DEF EmitProgress, Readers
  <2>2. p'.queueCompletedBytes = p.queueCompletedBytes /\ p'.CurrentBytes = r.bytes
    BY <1>1, <2>1 DEF Counters
  <2>3. p.CurrentBytes <= copying[t].bytes /\ copying[t].bytes \in Nat
    BY <1>4, <1>6 DEF Readers
  <2> QED  BY <1>5, <1>6, <2>1, <2>2, <2>3
<1>7. CASE UNCHANGED progressVars
  BY <1>5, <1>7 DEF progressVars
<1>8. CASE RegisterDB
  <2>1. \/ p' = p
        \/ p' = [p EXCEPT !.QueueRowsEstimated = @ + Total(Estimate, TablesOf(planning'))]
    BY <1>8 DEF RegisterDB
  <2>2. p'.queueCompletedBytes = p.queueCompletedBytes /\ p'.CurrentBytes = p.CurrentBytes
    BY <1>1, <2>1 DEF Counters
  <2> QED  BY <1>5, <2>2
<1>9. CASE SyncStart
  <2>1. DOMAIN copying = {} /\ ~failed /\ db < Queue /\ p.CurrentDatabase = db /\ db \in Nat
    <3>1. DOMAIN copying = {}
      BY <1>9 DEF SyncStart, ProgressInd, ProgressTypeOK
    <3>2. ~failed /\ db < Queue /\ db \in Nat
      BY <1>9, ProgressAssumption DEF SyncStart, ProgressInd, ProgressTypeOK
    <3> QED  BY <3>1, <3>2 DEF ProgressInd, CountsAreDone
  <2>2. p' = activateDB(p, db + 1)
    BY <1>9, <2>1 DEF SyncStart, Current
  <2>3. p'.queueCompletedBytes = p.queueCompletedBytes /\ p'.CurrentBytes = 0
    BY <2>1, <2>2, Activated
  <2> QED  BY <1>4, <1>5, <2>1, <2>3
<1>10. CASE \E t \in Tables : TableCopyStart(t)
  <2>1. PICK t \in Tables : TableCopyStart(t)
    BY <1>10
  <2>2. /\ ~failed /\ t \notin DOMAIN copying /\ t \in DOMAIN copying'
        /\ p' = [p EXCEPT !.CurrentBytes = 0]
    BY <2>1, CurrentIsP DEF TableCopyStart
  <2>3. DOMAIN copying = {}
    BY <1>3, <2>2 DEF T
  <2>4. p'.queueCompletedBytes = p.queueCompletedBytes /\ p'.CurrentBytes = 0
    BY <1>1, <2>2 DEF Counters
  <2> QED  BY <1>4, <1>5, <2>2, <2>3, <2>4
<1>11. CASE \E t \in Tables : ReaderOpened(t)
  <2>1. PICK t \in Tables : ReaderOpened(t)
    BY <1>11
  <2> DEFINE r == [copying[t] EXCEPT !.at = "reading"]
  <2>2. t \in DOMAIN copying /\ ~failed /\ EmitProgress(t, r)
    BY <2>1 DEF ReaderOpened
  <2>3. r \in Readers /\ copying[t].bytes <= r.bytes
    BY <1>4, <2>2 DEF Readers
  <2> HIDE DEF r
  <2> QED  BY <1>6, <2>2, <2>3
<1>12. CASE \E t \in Tables : ReadBytes(t)
  <2>1. PICK t \in Tables : ReadBytes(t)
    BY <1>12
  <2> DEFINE r == [copying[t] EXCEPT !.bytes = @ + 1]
  <2>2. t \in DOMAIN copying /\ ~failed /\ (EmitProgress(t, r) \/ UNCHANGED p)
    BY <2>1 DEF ReadBytes
  <2>3. r \in Readers /\ copying[t].bytes <= r.bytes
    BY <1>4, <2>2 DEF Readers
  <2> HIDE DEF r
  <2> QED  BY <1>5, <1>6, <2>2, <2>3
<1>13. CASE \E t \in Tables : ReadEnds(t)
  <2>1. PICK t \in Tables : ReadEnds(t)
    BY <1>13
  <2> DEFINE ended == [copying[t] EXCEPT !.at = "ended"]
             broken == [copying[t] EXCEPT !.at = "broken"]
  <2>2. t \in DOMAIN copying /\ ~failed /\ (EmitProgress(t, ended) \/ EmitProgress(t, broken))
    BY <2>1 DEF ReadEnds, EmitFinal
  <2>3. /\ ended \in Readers /\ copying[t].bytes <= ended.bytes
        /\ broken \in Readers /\ copying[t].bytes <= broken.bytes
    BY <1>4, <2>2 DEF Readers
  <2> HIDE DEF ended, broken
  <2> QED  BY <1>6, <2>2, <2>3
<1>14. CASE \E t \in Tables : TableCopyDone(t)
  <2>1. PICK t \in Tables : TableCopyDone(t)
    BY <1>14
  <2>2. t \in DOMAIN copying /\ ~failed /\ p' = CopyDone(p, t)
    BY <2>1, CurrentIsP DEF TableCopyDone
  <2>3. p'.queueCompletedBytes = p.queueCompletedBytes + Rows[t] /\ p'.CurrentBytes = 0
    BY <1>1, <2>2 DEF CopyDone, InFlightAfterDone, Counters
  <2>4. p.CurrentBytes <= Rows[t] /\ Rows[t] \in Nat
    BY <1>4, <1>5, <2>2, ProgressAssumption DEF Readers
  <2> QED  BY <1>5, <2>3, <2>4
<1>15. ~SyncFailed
  BY DEF SyncFailed
<1> QED  BY <1>7, <1>8, <1>9, <1>10, <1>11, <1>12, <1>13, <1>14, <1>15, ProgressStepCases

(* Apply: with one table copied at a time the bytes shown of the queue     *)
(* never go back, until a sync fails.                                      *)
THEOREM LoneTableGoesForward == ProgressSpec => ForwardWhenAlone
<1>1. ProgressInd /\ [ProgressNext]_progressVars
        => [failed' \/ Cardinality(DOMAIN copying \cup DOMAIN copying') > 1
            \/ QueueBytesCopied <= QueueBytesCopied']_progressVars
  <2> SUFFICES ASSUME ProgressInd, [ProgressNext]_progressVars, ~failed',
                      ~ (Cardinality(DOMAIN copying \cup DOMAIN copying') > 1)
               PROVE  QueueBytesCopied <= QueueBytesCopied'
    OBVIOUS
  <2>1. Cardinality(DOMAIN copying \cup DOMAIN copying') \in Nat
    <3>1. DOMAIN copying \cup DOMAIN copying' \in SUBSET Tables
      BY ProgressStepKeeps DEF ProgressInd, ProgressTypeOK, TablesOf
    <3> QED  BY <3>1, SumsAreNat
  <2> QED  BY <2>1, BytesGoForward
<1> QED  BY <1>1, ProgressIndHolds, PTL DEF ProgressSpec, ForwardWhenAlone
=============================================================================
