--------------------------- MODULE MCStateEditors ---------------------------
(* An instance of StateEditors for TLC: two shells, the default candidate and *)
(* one other.                                                                  *)
EXTENDS StateEditors, TLC

CONSTANTS p1, p2

Shells == Permutations(Procs)
=============================================================================
