----------------------------- MODULE MCTestRunner -----------------------------
(* A small instance of TestRunner: two groups of up to two tests, so that    *)
(* what one function leaves in the flags meets another test and group.       *)
EXTENDS TestRunner
=============================================================================
