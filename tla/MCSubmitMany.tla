---------------------------- MODULE MCSubmitMany ----------------------------
(* A call of two URLs by two workers, or two calls that submit the same URL *)
(* at the same time, one after the other, or before and after a crash.      *)
EXTENDS SubmitMany

CONSTANTS c1, c2, u1, u2

MCInputs ==
  {[c \in Calls |-> IF c = c1 THEN <<u1, u2>> ELSE << >>],
   [c \in Calls |-> <<u1>>]}
=============================================================================
