-------------------------- MODULE MCFileSnapshots --------------------------
(* Two calls on one file over one thread.  The file changes twice, and a reader   *)
(* that sees half of either content is one step away.  Inodes and contents are    *)
(* alike, so one of each is as good a start as another.                           *)
EXTENDS FileSnapshots

CONSTANTS a, b, i1, i2

MCContents == {<<a, a>>, <<b, b>>}

MCInit == Init /\ inode = i1 /\ content[i1] = <<a, a>>

MCSpec == MCInit /\ [][Next]_vars /\ Fairness
=============================================================================
