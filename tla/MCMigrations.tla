---------------------------- MODULE MCMigrations ----------------------------
(* An instance of Migrations for TLC: an old package and two current ones.  *)
EXTENDS Migrations

Packages == [o \in Openers |-> IF o = "old" THEN 1 ELSE Scripts]
=============================================================================
