--------------------------- MODULE MCAccessChecks ---------------------------
(* An instance of AccessChecks for TLC.                                     *)
EXTENDS AccessChecks, TLC

CallSymmetry == Permutations(Calls)
=============================================================================
