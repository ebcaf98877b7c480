------------------------------ MODULE MCTestHeap ------------------------------
(* A small instance of TestHeap: three addresses, so that one can be freed   *)
(* and handed out again while others are in use, and two tests.              *)
EXTENDS TestHeap, TLC

CONSTANTS a1, a2, a3

MCAddresses == {a1, a2, a3}
Symmetry == Permutations(MCAddresses)
=============================================================================
