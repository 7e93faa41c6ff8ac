--------------------------- MODULE MCLiveProgress ---------------------------
(* Two databases: three tables, one of them empty, and one table whose     *)
(* rows outgrow its plan.                                                  *)
EXTENDS LiveProgress

MCTables == {"a", "b", "c", "d"}
MCDBOf     == [a |-> 1, b |-> 1, c |-> 1, d |-> 2]
MCRows     == [a |-> 2, b |-> 2, c |-> 0, d |-> 3]
MCEstimate == [a |-> 3, b |-> 1, c |-> 0, d |-> 1]
=============================================================================
