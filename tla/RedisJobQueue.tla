--------------------------- MODULE RedisJobQueue ----------------------------
(***************************************************************************)
(* RedisJobQueue of workers/queue.py: a list for the ready ids, a sorted   *)
(* set (id -> due time) for the delayed ones, and clients that issue one   *)
(* Redis command at a time.  Each command is atomic; dequeue is not.       *)
(***************************************************************************)
EXTENDS Integers, Sequences, FiniteSets

CONSTANTS Jobs,
          Clients,      \* worker processes calling dequeue
          Delays,       \* the backoffs enqueue is called with
          MaxTime,      \* bound on the clock
          MaxLen,       \* bound on the ready list
          MaxCrashes    \* bound on client crashes inside dequeue

VARIABLES list,      \* toi:jobs:ready, next id to pop first
          score,     \* toi:jobs:delayed, NotParked for an id that is absent
          now,       \* time.time()
          at, due,   \* per client: its place in dequeue, ids it found due
          hand,      \* per client: the ids removed from the set, not yet pushed
          crashes

vars == <<list, score, now, at, due, hand, crashes>>

NotParked == -1

\* Types of the list, the sorted set and the clients in between their commands
\* (RedisJobQueue).
TypeOK == /\ list \in Seq(Jobs)
          /\ score \in [Jobs -> {NotParked} \cup Nat]
          /\ now \in 0..MaxTime
          /\ at \in [Clients -> {"idle", "promote", "push"}]
          /\ due \in [Clients -> SUBSET Jobs]
          /\ hand \in [Clients -> SUBSET Jobs]
          /\ crashes \in 0..MaxCrashes

Init == /\ list = <<>>
        /\ score = [j \in Jobs |-> NotParked]
        /\ now = 0
        /\ at = [c \in Clients |-> "idle"]
        /\ due = [c \in Clients |-> {}]
        /\ hand = [c \in Clients |-> {}]
        /\ crashes = 0

\* Callers enqueue an id only while the queue has no copy of it: the theorem
\* TokensInvariant of JobRunnerProofs.
Absent(j) == /\ \A i \in 1..Len(list) : list[i] # j
             /\ score[j] = NotParked
             /\ \A c \in Clients : j \notin hand[c]

\* enqueue, delay = 0: LPUSH
LPush(j) == /\ Absent(j)
            /\ Len(list) < MaxLen
            /\ list' = Append(list, j)
            /\ UNCHANGED <<score, now, at, due, hand, crashes>>

\* Mutant: the backoff is subtracted.
ZAddBackwards(j) == /\ \E d \in Delays : score' = [score EXCEPT ![j] = now - 1 - d]
                    /\ UNCHANGED <<list, now, at, due, hand, crashes>>

\* enqueue, delay > 0: ZADD, which overwrites the score of a member
ZAdd(j) == /\ Absent(j)
           /\ \E d \in Delays : score' = [score EXCEPT ![j] = now + d]
           /\ UNCHANGED <<list, now, at, due, hand, crashes>>

\* _promote: ZRANGEBYSCORE -inf now
Scan(c) == /\ at[c] = "idle"
           /\ at' = [at EXCEPT ![c] = "promote"]
           /\ due' = [due EXCEPT ![c] = {j \in Jobs : score[j] # NotParked /\ score[j] <= now}]
           /\ UNCHANGED <<list, score, now, hand, crashes>>

\* Mutants: the id is pushed whether or not ZREM removed it; it is removed and
\* never pushed.
ZRemUnchecked(c, j) ==
    /\ at[c] = "promote"
    /\ j \in due[c]
    /\ due' = [due EXCEPT ![c] = @ \ {j}]
    /\ score' = [score EXCEPT ![j] = NotParked]
    /\ at' = [at EXCEPT ![c] = "push"]
    /\ hand' = [hand EXCEPT ![c] = {j}]
    /\ UNCHANGED <<list, now, crashes>>

\* Mutant: the answer of ZREM is ignored and nothing is pushed.
ZRemOnly(c, j) ==
    /\ at[c] = "promote"
    /\ j \in due[c]
    /\ due' = [due EXCEPT ![c] = @ \ {j}]
    /\ score' = [score EXCEPT ![j] = NotParked]
    /\ UNCHANGED <<list, now, at, hand, crashes>>

\* ... for each of them ZREM, which tells whether the member was still there
ZRem(c, j) ==
    /\ at[c] = "promote"
    /\ j \in due[c]
    /\ due' = [due EXCEPT ![c] = @ \ {j}]
    /\ score' = [score EXCEPT ![j] = NotParked]
    /\ \/ /\ score[j] # NotParked
          /\ at' = [at EXCEPT ![c] = "push"]
          /\ hand' = [hand EXCEPT ![c] = {j}]
       \/ /\ score[j] = NotParked
          /\ UNCHANGED <<at, hand>>
    /\ UNCHANGED <<list, now, crashes>>

\* Mutant: RPUSH, so the promoted id overtakes the ready ones.
PushDueInFront(c, j) == /\ at[c] = "push"
                        /\ j \in hand[c]
                        /\ Len(list) < MaxLen
                        /\ list' = <<j>> \o list
                        /\ hand' = [hand EXCEPT ![c] = {}]
                        /\ at' = [at EXCEPT ![c] = "promote"]
                        /\ UNCHANGED <<score, now, due, crashes>>

\* ... and LPUSH if it was
PushDue(c, j) == /\ at[c] = "push"
                 /\ j \in hand[c]
                 /\ Len(list) < MaxLen
                 /\ list' = Append(list, j)
                 /\ hand' = [hand EXCEPT ![c] = {}]
                 /\ at' = [at EXCEPT ![c] = "promote"]
                 /\ UNCHANGED <<score, now, due, crashes>>

\* BRPOP: an id, or nothing when the timeout expires
BRPop(c) == /\ at[c] = "promote"
            /\ due[c] = {}
            /\ \/ list # <<>> /\ list' = Tail(list)
               \/ list = <<>> /\ UNCHANGED list
            /\ at' = [at EXCEPT ![c] = "idle"]
            /\ UNCHANGED <<score, now, due, hand, crashes>>

Crash(c) == /\ at[c] # "idle"
            /\ crashes < MaxCrashes
            /\ crashes' = crashes + 1
            /\ at' = [at EXCEPT ![c] = "idle"]
            /\ due' = [due EXCEPT ![c] = {}]
            /\ hand' = [hand EXCEPT ![c] = {}]
            /\ UNCHANGED <<list, score, now>>

Tick == /\ now < MaxTime
        /\ now' = now + 1
        /\ UNCHANGED <<list, score, at, due, hand, crashes>>

Next == \/ \E j \in Jobs : LPush(j) \/ ZAdd(j)
        \/ \E c \in Clients : Scan(c) \/ BRPop(c) \/ Crash(c)
        \/ \E c \in Clients, j \in Jobs : ZRem(c, j) \/ PushDue(c, j)
        \/ Tick

Spec == Init /\ [][Next]_vars
-----------------------------------------------------------------------------
\* The parked copies of j: the member of the sorted set, and any copy a client
\* has taken out of it and not pushed yet.
Parked == [j \in Jobs |-> (IF score[j] = NotParked THEN 0 ELSE 1)
                          + Cardinality({c \in Clients : j \in hand[c]})]

Queue == INSTANCE JobQueue WITH ready <- list, delayed <- Parked

\* The two-command promotion, raced by several workers, implements the queue
\* the runner relies on: ids come out first in first out, a parked copy becomes
\* ready at most once, and nothing is delivered that was not enqueued.
ImplementsQueue == Queue!QueueSpec

\* As long as callers keep one copy per id, so does the queue: workers whose
\* due lists overlap never make two copies of a retry, so a job is never
\* handed to two workers.
SingleCopy ==
    \A j \in Jobs :
        Parked[j] + Cardinality({i \in 1..Len(list) : list[i] = j}) <= 1

\* Nothing is lost while clients stay up: a parked copy disappears without
\* becoming ready only in the step in which a client crashes.
LossOnlyByCrash ==
    [][\A j \in Jobs : Parked'[j] < Parked[j] => \/ Len(list') = Len(list) + 1
                                                 \/ crashes' = crashes + 1]_vars
=============================================================================
