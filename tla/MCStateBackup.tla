----------------------------- MODULE MCStateBackup -----------------------------
(* Instances of StateBackup for TLC.                                       *)
EXTENDS StateBackup, TLC
CONSTANTS j1, j2

(* No property names an invocation.                                        *)
Symmetry == Permutations(Jobs)
=============================================================================
