---------------------------- MODULE MCCallOrdering ----------------------------
(* A small instance of CallOrdering: two functions and four declarations,   *)
(* with every kind of count: ignored, at least once, zero, once, twice.     *)
EXTENDS CallOrdering, TLC

CONSTANTS f1, f2

MCFunctions == {f1, f2}
MCCounts == {-2, -1, 0, 1, 2}

=============================================================================
