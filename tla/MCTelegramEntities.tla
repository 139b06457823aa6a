------------------------- MODULE MCTelegramEntities -------------------------
(* Instances of TelegramEntities for TLC. *)
EXTENDS TelegramEntities, TLC

CONSTANTS i1, i2, n1, n2, s1, s2

Symmetry == Permutations(Sessions) \cup Permutations(Ids) \cup Permutations(Names)
=============================================================================
