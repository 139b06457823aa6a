--------------------------- MODULE MemoryJobQueue ---------------------------
(***************************************************************************)
(* InMemoryJobQueue of workers/queue.py: a deque and a list of delayed     *)
(* entries behind one lock.  dequeue holds the lock while it promotes what *)
(* is due, one entry after the other, and pops; it polls until it gets an  *)
(* id or its deadline passes.                                              *)
(***************************************************************************)
EXTENDS Naturals, Sequences, FiniteSets, SequencesExt

CONSTANTS Jobs,
          Clients,   \* threads calling dequeue
          Delays,    \* the backoffs enqueue is called with
          MaxTime,   \* bound on the clock
          MaxLen     \* bound on the entries in the queue

VARIABLES ready,     \* _ready
          parked,    \* _delayed: sequence of <<due time, id>>
          now,       \* time.monotonic()
          lock,      \* the clients inside dequeue's critical section
          seen       \* _promote's copy of the time

vars == <<ready, parked, now, lock, seen>>

\* Types of the deque, the delayed list and the lock (InMemoryJobQueue).
TypeOK == /\ ready \in Seq(Jobs)
          /\ parked \in Seq(Nat \X Jobs)
          /\ now \in 0..MaxTime
          /\ lock \in SUBSET Clients
          /\ seen \in 0..MaxTime

Init == ready = <<>> /\ parked = <<>> /\ now = 0 /\ lock = {} /\ seen = 0

Size == Len(ready) + Len(parked)

Put(j) == /\ lock = {}
          /\ Size < MaxLen
          /\ \/ /\ ready' = Append(ready, j)
                /\ UNCHANGED parked
             \/ /\ \E d \in Delays : parked' = Append(parked, <<now + d, j>>)
                /\ UNCHANGED ready
          /\ UNCHANGED <<now, lock, seen>>

\* dequeue takes the lock and _promote reads the clock
Acquire(c) == /\ lock = {}
              /\ lock' = {c}
              /\ seen' = now
              /\ UNCHANGED <<ready, parked, now>>

\* Mutant: the list is taken to be sorted by due time.
DueAsSorted == {i \in 1..Len(parked) : \A k \in 1..i : parked[k][1] <= seen}

Due == {i \in 1..Len(parked) : parked[i][1] <= seen}

\* Mutant: the list of what stays is built with a second look at the clock.
PromoteFirstLateClock(c) ==
    /\ c \in lock
    /\ \E i \in Due :
          /\ \A k \in Due : i <= k
          /\ ready' = Append(ready, parked[i][2])
          /\ parked' = SelectSeq(RemoveAt(parked, i),
                                 LAMBDA e : e[1] <= seen \/ e[1] > now)
    /\ UNCHANGED <<now, lock, seen>>

\* _promote moves the first due entry
PromoteFirst(c) ==
    /\ c \in lock
    /\ \E i \in Due : /\ \A k \in Due : i <= k
                      /\ ready' = Append(ready, parked[i][2])
                      /\ parked' = RemoveAt(parked, i)
    /\ UNCHANGED <<now, lock, seen>>

\* popleft, or nothing ready; either way the lock is released
PopLeft(c) == /\ c \in lock
              /\ Due = {}
              /\ \/ ready # <<>> /\ ready' = Tail(ready)
                 \/ ready = <<>> /\ UNCHANGED ready
              /\ lock' = {}
              /\ UNCHANGED <<parked, now, seen>>

Tick == /\ now < MaxTime
        /\ now' = now + 1
        /\ UNCHANGED <<ready, parked, lock, seen>>

Next == \/ \E j \in Jobs : Put(j)
        \/ \E c \in Clients : Acquire(c) \/ PromoteFirst(c) \/ PopLeft(c)
        \/ Tick

Spec == Init /\ [][Next]_vars
-----------------------------------------------------------------------------
Parked == [j \in Jobs |-> Cardinality({i \in 1..Len(parked) : parked[i][2] = j})]

Queue == INSTANCE JobQueue WITH delayed <- Parked

\* The in-memory fallback keeps the contract of the Redis queue.
ImplementsQueue == Queue!QueueSpec

\* Nothing is lost: an entry leaves the delayed list only to become ready,
\* although the clock moves while _promote splits the list.
NothingLost ==
    [][\A j \in Jobs : Parked'[j] < Parked[j] => Len(ready') = Len(ready) + 1
                                              /\ Parked'[j] = Parked[j] - 1]_vars

\* Every dequeue promotes all that was due when it looked, however much longer
\* backoffs were parked in front of it: what it leaves parked was not due.
DuePromoted ==
    [][\A c \in Clients : c \in lock /\ c \notin lock' =>
          \A i \in 1..Len(parked') : parked'[i][1] > seen]_vars
=============================================================================
