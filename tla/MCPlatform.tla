----------------------------- MODULE MCPlatform -----------------------------
(* Instances of Platform for TLC. *)
EXTENDS Platform, TLC

CONSTANTS r1, r2, r3, c1, c2

\* The parts never move together, so they share names: {r1, r2, r3} is Requests
\* and the public users, {c1, c2} is Fetches and Apis, c1 the allow-listed user.
Symmetry == Permutations(Requests)
=============================================================================
