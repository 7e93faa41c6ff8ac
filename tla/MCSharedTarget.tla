--------------------------- MODULE MCSharedTarget ---------------------------
(* A table with a key from a sequence, and one without a key. *)
EXTENDS SharedTarget, TLC

CONSTANTS r1, r2

MCBeginnings == {{"b"}, {"a", "b"}}
MCInitialRows == [a |-> {0}, b |-> {1}]
MCSymmetry == Permutations(Runs)
=============================================================================
