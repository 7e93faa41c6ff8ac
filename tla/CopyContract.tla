---------------------------- MODULE CopyContract ----------------------------
(***************************************************************************)
(* What a caller of a copy is promised, whatever happens underneath.  The  *)
(* items are the tables of one CopyTables call, or the one table of a      *)
(* CopyTable call.  Items are committed one at a time on the target while  *)
(* the call runs; the call then returns once, with no error, with the      *)
(* error of a real failure, or with the caller's own cancellation.  With   *)
(* nothing to copy it may return at once.                                  *)
(*                                                                         *)
(* SilentAbort says whether a call whose caller has cancelled may return   *)
(* without an error and without having copied everything.  CopyTable never *)
(* does; CopyTables does (see CopyPool).                                   *)
(***************************************************************************)
EXTENDS NativeCommon

CONSTANTS Items, SilentAbort

VARIABLES
  ctxDone,     \* the caller's context is cancelled
  committed,   \* the items whose rows the target has committed
  ret          \* "running", or what the call returned

contractVars == <<ctxDone, committed, ret>>

ContractInit ==
  /\ ctxDone \in BOOLEAN
  /\ committed = {}
  /\ ret = "running" \/ (Items = {} /\ ret = "nil")

CancelContext ==
  /\ ctxDone' = TRUE
  /\ UNCHANGED <<committed, ret>>

CommitItem(i) ==
  /\ ret = "running"
  /\ i \in Items \ committed
  /\ committed' = committed \cup {i}
  /\ UNCHANGED <<ctxDone, ret>>

Return(e) ==
  /\ ret = "running"
  /\ MayReturn(e, committed = Items \/ (SilentAbort /\ ctxDone), ctxDone)
  /\ ret' = e
  /\ UNCHANGED <<ctxDone, committed>>

ContractNext ==
  \/ CancelContext
  \/ \E i \in Items : CommitItem(i)
  \/ \E e \in Outcomes : Return(e)

ContractSpec == ContractInit /\ [][ContractNext]_contractVars
=============================================================================
