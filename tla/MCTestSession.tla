---------------------------- MODULE MCTestSession ----------------------------
(***************************************************************************)
(* One function, one value and one call per queue, two addresses, and a    *)
(* group with all five kinds of functions.                                 *)
(***************************************************************************)
EXTENDS TestSession, TLC
CONSTANTS fn, a1, a2

\* Exactly once, and will_return_maybe() or ignore_function_calls().
MCCounts == {1, -2}

\* The addresses are interchangeable.
MCSymmetry == Permutations(Addresses)
=============================================================================
