--------------------------- MODULE MCRateLimiter ---------------------------
(* Four coroutines on two permits: one runs, one is at the gate, two wait. *)
EXTENDS RateLimiter
=============================================================================
