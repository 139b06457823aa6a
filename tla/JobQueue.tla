------------------------------ MODULE JobQueue ------------------------------
(***************************************************************************)
(* What the JobQueue protocol of workers/queue.py promises to its clients. *)
(*                                                                         *)
(* ready is the list of job ids a worker may take now, oldest first, and   *)
(* delayed[j] the number of parked copies of id j whose backoff has not    *)
(* been served yet.  RedisJobQueue and MemoryJobQueue are shown to         *)
(* implement this specification; JobRunner is built on its operations.     *)
(***************************************************************************)
EXTENDS Naturals, Sequences

CONSTANT Jobs          \* the job ids

VARIABLES ready, delayed

queueVars == <<ready, delayed>>

QueueTypeOK == /\ ready \in Seq(Jobs)
               /\ delayed \in [Jobs -> Nat]

QueueInit == /\ ready = <<>>
             /\ delayed = [j \in Jobs |-> 0]

\* enqueue(j), delay = 0
Enqueue(j) == /\ ready' = Append(ready, j)
              /\ UNCHANGED delayed

\* Mutant: the delayed id is forgotten.
ParkNowhere(j) == UNCHANGED queueVars

\* enqueue(j, delay > 0): one more parked copy
Park(j) == /\ delayed' = [delayed EXCEPT ![j] = @ + 1]
           /\ UNCHANGED ready

\* Mutant: the parked copy stays behind.
PromoteKeeps(j) == /\ delayed[j] > 0
                   /\ ready' = Append(ready, j)
                   /\ UNCHANGED delayed

\* One parked copy whose time has come moves to the tail of ready.
Promote(j) == /\ delayed[j] > 0
              /\ delayed' = [delayed EXCEPT ![j] = @ - 1]
              /\ ready' = Append(ready, j)

\* Mutant: the id is handed out and stays in the list.
DequeuePeeks(j) == /\ ready # <<>>
                   /\ j = Head(ready)
                   /\ UNCHANGED queueVars

\* dequeue returns the oldest ready id.
Dequeue(j) == /\ ready # <<>>
              /\ j = Head(ready)
              /\ ready' = Tail(ready)
              /\ UNCHANGED delayed

\* A client that dies while moving a copy takes the copy with it.
Lose(j) == /\ delayed[j] > 0
           /\ delayed' = [delayed EXCEPT ![j] = @ - 1]
           /\ UNCHANGED ready

QueueNext == \E j \in Jobs : \/ Enqueue(j) \/ Park(j) \/ Promote(j)
                             \/ Dequeue(j) \/ Lose(j)

QueueSpec == QueueInit /\ [][QueueNext]_queueVars
=============================================================================
