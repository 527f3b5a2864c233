----------------------------- MODULE MCPrivReg -----------------------------
(* PrivReg for TLC: a key with a default, one with a folder value, and two  *)
(* that no default names, one below the other.                              *)
EXTENDS PrivReg, TLC

MCKeys == {"Cabinet", "Prog00", "Own", "Sub"}
MCUnder == [k \in MCKeys |-> IF k = "Own" THEN {"Own", "Sub"} ELSE {k}]
MCDefaults ==
  [x \in MCKeys \X {"v"} |-> IF x \in {"Cabinet", "Prog00"} \X {"v"} THEN "d" ELSE None]

MCFolderNames == {<<"Prog00", "v">>}

Symmetry == Permutations(Procs)
=============================================================================
