--------------------------- MODULE MCEvidenceGraph --------------------------
(* EvidenceGraph; sessions are interchangeable, and so are nodes.          *)
EXTENDS EvidenceGraph, TLC

CONSTANTS n1, n2, n3, s1, s2

Symmetry == Permutations(Nodes) \cup Permutations(Sessions)
=============================================================================
