--------------------------- MODULE MCBulkVerify ---------------------------
(* Three items, the first two of one file and the last a digest, on two    *)
(* workers and in chunks of two: a chunk fills while both work, and one    *)
(* result is left for the end.                                             *)
EXTENDS BulkVerify

CONSTANT f

MCPathOf == <<f, f, NoPath>>
=============================================================================
