-------------------------- MODULE MCParameterChecks --------------------------
(* A small instance of ParameterChecks: two functions with two parameters,  *)
(* values that pass and fail a check, and every kind of count.              *)
EXTENDS ParameterChecks, TLC

CONSTANTS f1, f2, p1, p2, x1, x2

MCFunctions == {f1, f2}
MCParameters == {p1, p2}
MCValues == {x1, x2}
MCChecks == {{x1}}
MCCounts == {-2, -1, 0, 1, 2}
=============================================================================
