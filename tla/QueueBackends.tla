--------------------------- MODULE QueueBackends ----------------------------
(***************************************************************************)
(* get_default_queue of workers/queue.py: the first call picks the Redis   *)
(* backend if it answers a ping and the in-process one otherwise, and the  *)
(* choice is kept for the life of the process.  Whatever was chosen, the   *)
(* callers see the queue of JobQueue.                                      *)
(***************************************************************************)
EXTENDS Naturals, Sequences

CONSTANTS Jobs, Clients, Delays, MaxTime, MaxLen, MaxCrashes

ASSUME QueueAssumption == /\ Delays \subseteq Nat \ {0}
                          /\ MaxTime \in Nat /\ MaxLen \in Nat /\ MaxCrashes \in Nat

VARIABLES backend,                              \* _default
          list, score, at, due, hand, crashes,  \* RedisJobQueue
          ready, parked, lock, seen,            \* InMemoryJobQueue
          now                                   \* the clock either reads

redisVars == <<list, score, at, due, hand, crashes>>
memoryVars == <<ready, parked, lock, seen>>
vars == <<backend, redisVars, memoryVars, now>>

Redis == INSTANCE RedisJobQueue
Memory == INSTANCE MemoryJobQueue

\* Types of both backends, only one of which is ever used (get_default_queue).
TypeOK == /\ backend \in {"none", "redis", "memory"}
          /\ Redis!TypeOK
          /\ Memory!TypeOK

Init == backend = "none" /\ Redis!Init /\ Memory!Init

GetDefaultQueue == /\ backend = "none"
                   /\ backend' \in {"redis", "memory"}
                   /\ UNCHANGED <<redisVars, memoryVars, now>>

UseRedis == /\ backend = "redis"
            /\ Redis!Next
            /\ UNCHANGED <<backend, memoryVars>>

UseMemory == /\ backend = "memory"
             /\ Memory!Next
             /\ UNCHANGED <<backend, redisVars>>

Next == GetDefaultQueue \/ UseRedis \/ UseMemory

Spec == Init /\ [][Next]_vars
-----------------------------------------------------------------------------
Queue == INSTANCE JobQueue
           WITH ready <- IF backend = "memory" THEN ready ELSE list,
                delayed <- IF backend = "memory" THEN Memory!Parked ELSE Redis!Parked

\* Either backend is the queue the runner relies on: ids come out first in
\* first out, a parked copy becomes ready at most once, and nothing is
\* delivered that was not enqueued, although workers race through Redis's
\* two-command promotion and may die in it.
ImplementsQueue == Queue!QueueSpec

\* RedisJobQueue: workers whose due lists overlap never make two copies of a
\* retry, so a job is never handed to two workers.
SingleCopy == Redis!SingleCopy

\* RedisJobQueue: a parked copy disappears without becoming ready only in the
\* step in which a client crashes.
LossOnlyByCrash == Redis!LossOnlyByCrash

\* InMemoryJobQueue: an entry leaves the delayed list only to become ready,
\* although the clock moves while _promote splits the list.
NothingLost == Memory!NothingLost

\* InMemoryJobQueue: what a dequeue leaves parked was not due when it looked,
\* however much longer backoffs were parked in front of it.
DuePromoted == Memory!DuePromoted

\* An id once parked comes out: no backend drops one while its client lives,
\* and none forgets one that is due (_promote_due, _promote).
KeepsIds == LossOnlyByCrash /\ NothingLost /\ DuePromoted
=============================================================================
