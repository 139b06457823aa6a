--------------------------- MODULE MCWatchMonitor ---------------------------
(* Instances of WatchMonitor for TLC. *)
EXTENDS WatchMonitor

CONSTANTS w1, w2, p1, p2, s1, s2, r1, r2
=============================================================================
