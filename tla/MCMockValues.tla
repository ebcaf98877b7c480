----------------------------- MODULE MCMockValues -----------------------------
(* A small instance of MockValues: two functions, one type name, counts on  *)
(* both sides of every boundary, three declarations per test.               *)
EXTENDS MockValues, TLC

CONSTANTS f1, f2, t1

MCFunctions == {f1, f2}
MCNames == {t1}
MCCounts == {-2, -1, 0, 1, 2}

=============================================================================
