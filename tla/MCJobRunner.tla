---------------------------- MODULE MCJobRunner -----------------------------
(* Instances of JobRunner for TLC. *)
EXTENDS JobRunner, TLC

CONSTANTS j1, j2, w1, w2

Symmetry == Permutations(Workers)
=============================================================================
