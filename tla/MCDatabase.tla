----------------------------- MODULE MCDatabase -----------------------------
(* Database for TLC: the programs, the rows and the contents are alike.     *)
EXTENDS Database, TLC

Symmetry == Permutations(Procs) \cup Permutations(Rows) \cup Permutations(Contents)
=============================================================================
