----------------------------- MODULE MCHistory -----------------------------
(* An instance of History for TLC.                                          *)
EXTENDS History, TLC

Digest == [c \in 0..MaxJobs |-> CASE c = 0 -> "other" [] c = 1 -> "same" [] OTHER -> "missing"]

Symmetry == Permutations(Calls) \cup Permutations(Files)
=============================================================================
