------------------------------- MODULE Faults -------------------------------
(***************************************************************************)
(* The failures that come from outside: a call to the operating system     *)
(* that is refused, a process that is killed, a file that is damaged.      *)
(* There are finitely many of them, so that what they do can be checked    *)
(* and what must happen after the last one can be said.                    *)
(***************************************************************************)
EXTENDS Naturals

CONSTANT MaxFaults   \* bound on the failures of a behaviour

ASSUME FaultsAssumption == MaxFaults \in Nat

VARIABLE faults      \* failures so far

Fault == faults < MaxFaults /\ faults' = faults + 1
=============================================================================
