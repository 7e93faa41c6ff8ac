----------------------------- MODULE CopyTable ------------------------------
(***************************************************************************)
(* One table: internal/engine/native/copy.go, CopyTable with its two       *)
(* goroutines copyTableSource and copyTableTarget, the io.Pipe between     *)
(* them, and ApplySnapshot / rollbackAndClose of snapshot.go.              *)
(*                                                                         *)
(* The stream of a table is Chunks chunks long.  A chunk is the version of *)
(* the source database it was read at, so the copy is a consistent one     *)
(* exactly when every chunk carries the version the snapshot was exported  *)
(* at.  Other clients keep writing to the source (SourceWrite), the        *)
(* connection that holds the snapshot may die (SnapshotLost), every        *)
(* statement on either server may fail, and the caller may cancel.         *)
(***************************************************************************)
EXTENDS Naturals, Sequences

CONSTANTS
  Chunks,       \* chunks in the table's COPY stream
  MaxVersion    \* bound on the writes other clients make to the source

ASSUME ChunksIsNat == Chunks \in Nat
ASSUME MaxVersionIsNat == MaxVersion \in Nat

VARIABLES
  version,     \* version of the source database, as its clients see it
  snapshot,    \* is the exported snapshot still held by its connection
  ctxDone,     \* the caller's context is cancelled
  cancelled,   \* copyCtx was cancelled by CopyTable itself
  src,         \* where copyTableSource is
  view,        \* version the source transaction reads at
  sent,        \* chunks written to the pipe
  srcErr,      \* its copyErr, then the joined error it reports
  srcConn,     \* the source connection is open
  tgt,         \* where copyTableTarget is
  received,    \* chunks read from the pipe
  tgtErr,      \* its error
  committed,   \* the target server committed the COPY
  pipeW,       \* how the write end was closed: "open", "nil" (EOF), an error
  pipeR,       \* how the read end was closed: "open" or an error
  main,        \* where CopyTable is
  ret,         \* the error it returned
  faults       \* the servers that really failed (history)

srcVars  == <<src, view, sent, srcErr, srcConn>>
tgtVars  == <<tgt, received, tgtErr, committed>>
envVars  == <<version, snapshot, ctxDone>>
pipeVars == <<pipeW, pipeR>>
mainVars == <<main, ret, cancelled>>
vars     == <<srcVars, tgtVars, envVars, pipeVars, mainVars, faults>>

(* The version pg_export_snapshot() was called at. *)
SnapshotVersion == 0

Servers == {"source", "target"}
Errors  == Servers \cup {"nil", "ctx"}

TypeOK ==
  /\ version \in 0..MaxVersion
  /\ snapshot \in BOOLEAN /\ ctxDone \in BOOLEAN /\ cancelled \in BOOLEAN
  /\ src \in {"begin", "adopt", "copy", "closeWriter", "cleanup", "done"}
  /\ view \in 0..MaxVersion
  /\ sent \in 0..Chunks
  /\ srcErr \in Errors
  /\ srcConn \in BOOLEAN
  /\ tgt \in {"copy", "closeReader", "done"}
  /\ received \in Seq(0..MaxVersion)
  /\ tgtErr \in Errors
  /\ committed \in BOOLEAN
  /\ pipeW \in Errors \cup {"open"}
  /\ pipeR \in Errors \cup {"open"}
  /\ main \in {"awaitTarget", "awaitSource", "returned"}
  /\ ret \in Errors \cup {"running"}
  /\ faults \subseteq Servers

Init ==
  /\ version = SnapshotVersion
  /\ snapshot = TRUE /\ ctxDone = FALSE /\ cancelled = FALSE
  /\ src = "begin" /\ view = SnapshotVersion /\ sent = 0 /\ srcErr = "nil" /\ srcConn = TRUE
  /\ tgt = "copy" /\ received = <<>> /\ tgtErr = "nil" /\ committed = FALSE
  /\ pipeW = "open" /\ pipeR = "open"
  /\ main = "awaitTarget" /\ ret = "running"
  /\ faults = {}

-----------------------------------------------------------------------------
(* The environment. *)

SourceWrite ==
  /\ version < MaxVersion
  /\ version' = version + 1
  /\ UNCHANGED <<srcVars, tgtVars, snapshot, ctxDone, pipeVars, mainVars, faults>>

SnapshotLost ==
  /\ snapshot
  /\ snapshot' = FALSE
  /\ UNCHANGED <<srcVars, tgtVars, version, ctxDone, pipeVars, mainVars, faults>>

CancelCaller ==
  /\ ~ctxDone
  /\ ctxDone' = TRUE
  /\ UNCHANGED <<srcVars, tgtVars, version, snapshot, pipeVars, mainVars, faults>>

(* A statement on server s returns the error e: its own failure, or the    *)
(* context's once copyCtx is done.                                         *)
StatementFails(s, e) ==
  \/ e = s /\ faults' = faults \cup {s}
  \/ e = "ctx" /\ (ctxDone \/ cancelled) /\ UNCHANGED faults

-----------------------------------------------------------------------------
(* copyTableSource *)

SrcError(e) == src' = "closeWriter" /\ srcErr' = e

SrcBegin ==
  /\ src = "begin"
  /\ \/ src' = "adopt" /\ UNCHANGED <<srcErr, faults>>
     \/ \E e \in Errors : StatementFails("source", e) /\ SrcError(e)
  /\ UNCHANGED <<view, sent, srcConn, tgtVars, envVars, pipeVars, mainVars>>

(* Mutant: only BEGIN, so the transaction reads what is current. *)
CurrentVersion == version

(* SET TRANSACTION SNAPSHOT: the transaction reads at the exported version *)
(* from here on, whatever other clients have written since.                *)
AdoptedVersion == SnapshotVersion

SrcAdopt ==
  /\ src = "adopt"
  /\ \/ /\ snapshot
        /\ view' = AdoptedVersion
        /\ src' = "copy"
        /\ UNCHANGED <<srcErr, faults>>
     \/ /\ \E e \in Errors : StatementFails("source", e) /\ SrcError(e)
        /\ UNCHANGED view
  /\ UNCHANGED <<sent, srcConn, tgtVars, envVars, pipeVars, mainVars>>

ChunkLeft == sent < Chunks

(* A write to the pipe returns once the reader has consumed it. *)
Transfer ==
  /\ src = "copy" /\ tgt = "copy"
  /\ ChunkLeft
  /\ pipeR = "open"
  /\ sent' = sent + 1
  /\ received' = Append(received, view)
  /\ UNCHANGED <<src, view, srcErr, srcConn, tgt, tgtErr, committed,
                 envVars, pipeVars, mainVars, faults>>

(* CopyTo returns: everything was written, the source server or the        *)
(* context failed, or the reader closed its end with its own error.        *)
SrcCopyEnds ==
  /\ src = "copy"
  /\ \/ /\ sent = Chunks
        /\ src' = "closeWriter"
        /\ UNCHANGED <<srcErr, faults>>
     \/ \E e \in Errors : StatementFails("source", e) /\ SrcError(e)
     \/ /\ pipeR # "open" /\ sent < Chunks
        /\ SrcError(pipeR)
        /\ UNCHANGED faults
  /\ UNCHANGED <<view, sent, srcConn, tgtVars, envVars, pipeVars, mainVars>>

(* Mutant: close the writer only to pass an error on. *)
OnlyOnError == IF srcErr = "nil" THEN "open" ELSE srcErr

(* Mutant: a plain Close, which the reader takes for the end of the rows. *)
AlwaysEOF == "nil"

(* writer.CloseWithError(copyErr): no error is end of file for the reader. *)
WriterEnd == srcErr

SrcCloseWriter ==
  /\ src = "closeWriter"
  /\ pipeW' = WriterEnd
  /\ src' = "cleanup"
  /\ UNCHANGED <<view, sent, srcErr, srcConn, tgtVars, envVars, pipeR, mainVars, faults>>

(* rollbackAndClose under context.WithoutCancel; its failure is joined     *)
(* after copyErr.                                                          *)
SrcCleanup ==
  /\ src = "cleanup"
  /\ src' = "done"
  /\ srcConn' = FALSE
  /\ \/ UNCHANGED <<srcErr, faults>>
     \/ /\ srcErr' = IF srcErr = "nil" THEN "source" ELSE srcErr
        /\ faults' = faults \cup {"source"}
  /\ UNCHANGED <<view, sent, tgtVars, envVars, pipeVars, mainVars>>

-----------------------------------------------------------------------------
(* copyTableTarget *)

TgtError(e) == tgt' = "closeReader" /\ tgtErr' = e

(* CopyFrom has read end of file: CopyDone, and the server commits.  The   *)
(* commit may be refused, and its acknowledgement may be lost.             *)
TgtCommit ==
  /\ tgt = "copy" /\ pipeW = "nil"
  /\ \/ tgt' = "done" /\ committed' = TRUE /\ UNCHANGED <<tgtErr, faults>>
     \/ /\ \E e \in Errors : StatementFails("target", e) /\ TgtError(e)
        /\ committed' \in BOOLEAN
  /\ UNCHANGED <<received, srcVars, envVars, pipeVars, mainVars>>

(* CopyFrom stops before the end of file, and the server discards the      *)
(* rows: the reader got the writer's error, which is sent as CopyFail, or  *)
(* the target server or the context failed.                                *)
TgtCopyFails ==
  /\ tgt = "copy" /\ pipeW # "nil"
  /\ \/ pipeW # "open" /\ TgtError(pipeW) /\ UNCHANGED faults
     \/ \E e \in Errors : StatementFails("target", e) /\ TgtError(e)
  /\ UNCHANGED <<received, committed, srcVars, envVars, pipeVars, mainVars>>

TgtCloseReader ==
  /\ tgt = "closeReader"
  /\ pipeR' = tgtErr
  /\ tgt' = "done"
  /\ UNCHANGED <<received, tgtErr, committed, srcVars, envVars, pipeW, mainVars, faults>>

-----------------------------------------------------------------------------
(* CopyTable itself *)

(* <-targetDone, then cancel() and reader.CloseWithError on its error. *)
AwaitTarget ==
  /\ main = "awaitTarget" /\ tgt = "done"
  /\ main' = "awaitSource"
  /\ cancelled' = (tgtErr # "nil")
  /\ pipeR' = IF tgtErr # "nil" /\ pipeR = "open" THEN tgtErr ELSE pipeR
  /\ UNCHANGED <<ret, srcVars, tgtVars, envVars, pipeW, faults>>

(* Mutant: return at once on the target's error. *)
DoneOrTargetFailed == src = "done" \/ tgtErr # "nil"

SourceDone == src = "done"

(* Mutant: the source's error before the target's. *)
SourceErrorFirst == IF srcErr # "nil" THEN srcErr ELSE tgtErr

(* Mutant: the target's error is dropped once the source has ended well. *)
SourceErrorOnly == srcErr

(* The target's error before the source's. *)
ReturnedError == IF tgtErr # "nil" THEN tgtErr ELSE srcErr

(* <-sourceDone *)
AwaitSource ==
  /\ main = "awaitSource" /\ SourceDone
  /\ main' = "returned"
  /\ cancelled' = TRUE
  /\ ret' = ReturnedError
  /\ UNCHANGED <<srcVars, tgtVars, envVars, pipeVars, faults>>

Source == SrcBegin \/ SrcAdopt \/ SrcCopyEnds \/ SrcCloseWriter \/ SrcCleanup
Target == TgtCommit \/ TgtCopyFails \/ TgtCloseReader
Caller == AwaitTarget \/ AwaitSource

Returned == main = "returned" /\ UNCHANGED vars

Next ==
  \/ SourceWrite \/ SnapshotLost \/ CancelCaller
  \/ Source \/ Transfer \/ Target \/ Caller
  \/ Returned

(* The three goroutines are scheduled by the Go runtime, a statement that   *)
(* can finish eventually does, and one under a done context is             *)
(* interrupted.  A server failure is never forced: while CopyFrom or CopyTo *)
(* waits for the other end of the pipe, only that end can release it.      *)
Fairness ==
  /\ WF_vars(SrcBegin \/ SrcAdopt \/ SrcCloseWriter \/ SrcCleanup)
  /\ WF_vars(SrcCopyEnds /\ UNCHANGED faults)
  /\ WF_vars(Transfer)
  /\ WF_vars(TgtCommit \/ TgtCloseReader)
  /\ WF_vars(TgtCopyFails /\ UNCHANGED faults)
  /\ WF_vars(Caller)

Spec == Init /\ [][Next]_vars
FairSpec == Spec /\ Fairness

-----------------------------------------------------------------------------
(* What the target commits is the whole table as the snapshot saw it: no   *)
(* chunk missing after a source failure, none read at a later version.     *)
CommittedIsSnapshot ==
  committed => received = [i \in 1..Chunks |-> SnapshotVersion]

(* CopyTable returns no error only for a table the target has committed.   *)
NilMeansCommitted == ret = "nil" => committed

(* When CopyTable returns, both goroutines have ended and the source       *)
(* connection is closed: the caller may close the target connection and    *)
(* the snapshot without a goroutine still using them.                      *)
NothingOutlivesCopy ==
  main = "returned" => src = "done" /\ tgt = "done" /\ ~srcConn

(* At no time do the three goroutines all wait for each other: until       *)
(* CopyTable has returned, one of them has a statement to finish, an end   *)
(* of the pipe to close, both ends of it for the next chunk, or what it    *)
(* waits for.                                                              *)
NeverStuck ==
  main # "returned" =>
    \/ src \in {"begin", "adopt", "closeWriter", "cleanup"}
    \/ src = "copy" /\ (sent = Chunks \/ pipeR # "open" \/ tgt = "copy" \/ cancelled)
    \/ tgt = "closeReader"
    \/ tgt = "copy" /\ pipeW # "open"
    \/ main = "awaitTarget" /\ tgt = "done"
    \/ main = "awaitSource" /\ src = "done"

(* CopyTable says nil of committed rows only, is the last to end and is    *)
(* never stuck before.                                                     *)
Inv == TypeOK /\ NilMeansCommitted /\ NothingOutlivesCopy /\ NeverStuck

(* The error CopyTable reports is the failure that started it, never the   *)
(* cancellation or the closed pipe that CopyTable itself answered with.    *)
ReportsRootCause ==
  /\ ret \in Servers => ret \in faults
  /\ ret = "ctx" => ctxDone

(* Neither goroutine waits for the other forever. *)
CopyReturns == <>(main = "returned")

-----------------------------------------------------------------------------
(* CopyTable keeps the contract of a copy of one item. *)
Contract == INSTANCE CopyContract WITH
  Items       <- {"table"},
  SilentAbort <- FALSE,
  committed   <- IF committed THEN {"table"} ELSE {},
  ret         <- IF ret \in Servers THEN "fault" ELSE ret

KeepsContract == Contract!ContractSpec
=============================================================================
