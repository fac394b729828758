-------------------------- MODULE MCRequestBudget --------------------------
(* Instances of RequestBudget for TLC.                                     *)
EXTENDS RequestBudget
CONSTANTS a, b
Two == {a, b}
=============================================================================
