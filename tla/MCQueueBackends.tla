--------------------------- MODULE MCQueueBackends --------------------------
(* Instances of QueueBackends for TLC. *)
EXTENDS QueueBackends
CONSTANTS j1, j2, c1, c2
=============================================================================
