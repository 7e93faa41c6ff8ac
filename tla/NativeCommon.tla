---------------------------- MODULE NativeCommon ----------------------------
(***************************************************************************)
(* What the modules of internal/engine/native share: the outcome of a call *)
(* and the number of workers.                                              *)
(***************************************************************************)
EXTENDS Integers

(* What a call returns, seen from its caller: "nil", "fault" (a statement, *)
(* a connection or a child process failed) or "ctx" (the error of a        *)
(* cancelled context).                                                     *)
Outcomes == {"nil", "fault", "ctx"}

(* A call may return e: no error only when its work is done, the context's *)
(* error only when its context is done, a fault at any time.               *)
MayReturn(e, whole, done) ==
  /\ e \in Outcomes
  /\ e = "nil" => whole
  /\ e = "ctx" => done

(* errors.Join(first, second), told apart by its leading error. *)
Join(first, second) == IF first = "nil" THEN second ELSE first

workerCount(threads) == IF threads <= 0 THEN 1 ELSE threads
=============================================================================
