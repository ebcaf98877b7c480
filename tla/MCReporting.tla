----------------------------- MODULE MCReporting -----------------------------
(* Three groups, of up to two tests, one test and none, with two names: a     *)
(* name, and with it an XML file, may come again before or after another one. *)
EXTENDS Reporting, TLC

CONSTANTS g1, g2

MCMaxTests == <<2, 1, 0>>

\* Each format is there, alone in its way of printing and beside others.
MCOutputs == {{"STANDARD", "TAP"}, {"SUBUNIT", "TAP", "XML"}}

MCSymmetry == Permutations(GroupNames)
=============================================================================
