------------------------ MODULE QueueBackendsProofs -------------------------
(***************************************************************************)
(* Proofs about QueueBackends: types, one copy per id in Redis             *)
(* (SingleCopy), nothing lost while clients live (KeepsIds), and that      *)
(* whichever backend is chosen implements the queue the runner relies on   *)
(* (ImplementsQueue).                                                      *)
(***************************************************************************)
EXTENDS QueueBackends, FiniteSetTheorems, SequenceTheorems, TLAPS

-----------------------------------------------------------------------------
(* Types                                                                   *)

LEMMA RedisTyped ==
    ASSUME Redis!TypeOK, Redis!Next
    PROVE  Redis!TypeOK'
<1>0. /\ MaxTime \in Nat /\ MaxLen \in Nat /\ MaxCrashes \in Nat /\ Delays \subseteq Nat
      /\ list \in Seq(Jobs) /\ score \in [Jobs -> {Redis!NotParked} \cup Nat]
      /\ now \in 0..MaxTime /\ now \in Nat
  BY QueueAssumption DEF Redis!TypeOK
<1>1. list' \in Seq(Jobs)
  <2>1. list' = list \/ (\E j \in Jobs : list' = Append(list, j))
                     \/ (list # <<>> /\ list' = Tail(list))
    BY DEF Redis!Next, Redis!LPush, Redis!ZAdd, Redis!Scan, Redis!BRPop, Redis!Crash, Redis!ZRem,
           Redis!PushDue, Redis!Tick
  <2> QED
    BY <1>0, <2>1
<1>2. score' \in [Jobs -> {Redis!NotParked} \cup Nat]
  <2>1. ASSUME NEW j \in Jobs, Redis!ZAdd(j)
        PROVE  score' \in [Jobs -> {Redis!NotParked} \cup Nat]
    <3>1. PICK d \in Delays : score' = [score EXCEPT ![j] = now + d]
      BY <2>1 DEF Redis!ZAdd
    <3>2. now + d \in Nat
      BY <1>0
    <3> QED
      BY <1>0, <3>1, <3>2
  <2>2. ASSUME NEW c \in Clients, NEW j \in Jobs, Redis!ZRem(c, j)
        PROVE  score' \in [Jobs -> {Redis!NotParked} \cup Nat]
    BY <1>0, <2>2 DEF Redis!ZRem
  <2>3. \/ score' = score
        \/ \E j \in Jobs : Redis!ZAdd(j)
        \/ \E c \in Clients, j \in Jobs : Redis!ZRem(c, j)
    BY DEF Redis!Next, Redis!LPush, Redis!Scan, Redis!BRPop, Redis!Crash, Redis!PushDue, Redis!Tick
  <2> QED
    BY <1>0, <2>1, <2>2, <2>3
<1>3. now' \in 0..MaxTime /\ crashes' \in 0..MaxCrashes
  BY <1>0 DEF Redis!Next, Redis!LPush, Redis!ZAdd, Redis!Scan, Redis!BRPop, Redis!Crash, Redis!ZRem,
           Redis!PushDue, Redis!Tick, Redis!TypeOK
<1>4. /\ at' \in [Clients -> {"idle", "promote", "push"}]
      /\ due' \in [Clients -> SUBSET Jobs]
      /\ hand' \in [Clients -> SUBSET Jobs]
  BY DEF Redis!Next, Redis!LPush, Redis!ZAdd, Redis!Scan, Redis!BRPop, Redis!Crash, Redis!ZRem,
           Redis!PushDue, Redis!Tick, Redis!TypeOK
<1> QED
  BY <1>1, <1>2, <1>3, <1>4 DEF Redis!TypeOK

\* Removing an entry of the delayed list.
LEMMA RemoveAtFacts ==
    ASSUME NEW S, NEW s \in Seq(S), NEW i \in 1..Len(s)
    PROVE  /\ Memory!RemoveAt(s, i) \in Seq(S)
           /\ Len(Memory!RemoveAt(s, i)) = Len(s) - 1
           /\ \A k \in 1..(Len(s) - 1) :
                 Memory!RemoveAt(s, i)[k] = IF k < i THEN s[k] ELSE s[k + 1]
<1> DEFINE a == SubSeq(s, 1, i - 1)
           b == SubSeq(s, i + 1, Len(s))
<1>0. Len(s) \in Nat /\ i \in Nat /\ 1 <= i /\ i <= Len(s)
  OBVIOUS
<1>1. a \in Seq(S) /\ Len(a) = i - 1 /\ \A k \in 1..(i - 1) : a[k] = s[k]
  BY <1>0
<1>2. b \in Seq(S) /\ Len(b) = Len(s) - i /\ \A k \in 1..(Len(s) - i) : b[k] = s[k + i]
  BY <1>0
<1>3. Memory!RemoveAt(s, i) = a \o b
  BY DEF Memory!RemoveAt
<1>4. /\ a \o b \in Seq(S) /\ Len(a \o b) = Len(a) + Len(b)
      /\ \A k \in 1..(Len(a) + Len(b)) : (a \o b)[k] = IF k <= Len(a) THEN a[k] ELSE b[k - Len(a)]
  <2> HIDE DEF a, b
  <2> QED
    BY <1>1, <1>2, ConcatProperties
<1>6. Len(a) + Len(b) = Len(s) - 1
  BY <1>0, <1>1, <1>2
<1>5. ASSUME NEW k \in 1..(Len(s) - 1)
      PROVE  (a \o b)[k] = IF k < i THEN s[k] ELSE s[k + 1]
  <2>0. /\ k \in Nat /\ 1 <= k /\ k <= Len(s) - 1
        /\ (a \o b)[k] = IF k <= Len(a) THEN a[k] ELSE b[k - Len(a)]
    <3> HIDE DEF a, b
    <3> QED
      BY <1>0, <1>4, <1>6
  <2>1. CASE k < i
    <3>1. k \in 1..(i - 1) /\ k <= Len(a)
      BY <1>0, <1>1, <2>0, <2>1
    <3> QED
      BY <1>1, <2>0, <2>1, <3>1
  <2>2. CASE ~(k < i)
    <3>1. /\ k - (i - 1) \in 1..(Len(s) - i) /\ (k - (i - 1)) + i = k + 1
          /\ ~(k <= Len(a)) /\ k - Len(a) = k - (i - 1)
      BY <1>0, <1>1, <2>0, <2>2
    <3>2. b[k - (i - 1)] = s[(k - (i - 1)) + i]
      BY <1>2, <3>1
    <3> QED
      BY <2>0, <2>2, <3>1, <3>2
  <2> QED
    BY <2>1, <2>2
<1> QED
  BY <1>3, <1>4, <1>5, <1>6

LEMMA MemoryTyped ==
    ASSUME Memory!TypeOK, Memory!Next
    PROVE  Memory!TypeOK'
<1>0. /\ MaxTime \in Nat /\ Delays \subseteq Nat /\ now \in Nat /\ now \in 0..MaxTime
      /\ ready \in Seq(Jobs) /\ parked \in Seq(Nat \X Jobs) /\ lock \in SUBSET Clients
      /\ seen \in 0..MaxTime
  BY QueueAssumption DEF Memory!TypeOK
<1>1. ASSUME NEW j \in Jobs, Memory!Put(j)
      PROVE  Memory!TypeOK'
  <2>1. ready' \in Seq(Jobs)
    <3>1. ready' = ready \/ ready' = Append(ready, j)
      BY <1>1 DEF Memory!Put
    <3>2. ready \in Seq(Jobs)
      BY <1>0
    <3> QED
      BY <3>1, <3>2, AppendProperties
  <2>2. parked' = parked \/ \E d \in Delays : parked' = Append(parked, <<now + d, j>>)
    BY <1>1 DEF Memory!Put
  <2>3. \A d \in Delays : <<now + d, j>> \in Nat \X Jobs
    BY <1>0
  <2>4. parked' \in Seq(Nat \X Jobs)
    <3>1. CASE parked' = parked
      BY <1>0, <3>1
    <3>2. ASSUME NEW d \in Delays, parked' = Append(parked, <<now + d, j>>)
          PROVE  parked' \in Seq(Nat \X Jobs)
      <4>1. <<now + d, j>> \in Nat \X Jobs
        BY <2>3
      <4> QED
        BY <1>0, <3>2, <4>1, AppendProperties
    <3> QED
      BY <2>2, <3>1, <3>2
  <2> QED
    BY <1>0, <1>1, <2>1, <2>4 DEF Memory!TypeOK, Memory!Put
<1>2. ASSUME NEW c \in Clients, Memory!PromoteFirst(c)
      PROVE  Memory!TypeOK'
  <2>1. PICK i \in 1..Len(parked) : /\ ready' = Append(ready, parked[i][2])
                                    /\ parked' = Memory!RemoveAt(parked, i)
    BY <1>2 DEF Memory!PromoteFirst, Memory!Due
  <2>2. parked[i] \in Nat \X Jobs
    BY <1>0
  <2>3. ready' \in Seq(Jobs)
    BY <1>0, <2>1, <2>2
  <2>4. parked' \in Seq(Nat \X Jobs)
    BY <1>0, <2>1, RemoveAtFacts
  <2> QED
    BY <1>0, <1>2, <2>3, <2>4 DEF Memory!TypeOK, Memory!PromoteFirst
<1>3. ASSUME NEW c \in Clients, Memory!Acquire(c)
      PROVE  Memory!TypeOK'
  BY <1>0, <1>3 DEF Memory!TypeOK, Memory!Acquire
<1>4. ASSUME NEW c \in Clients, Memory!PopLeft(c)
      PROVE  Memory!TypeOK'
  <2>1. ready' \in Seq(Jobs)
    <3>1. ready' = ready \/ (ready # <<>> /\ ready' = Tail(ready))
      BY <1>4 DEF Memory!PopLeft
    <3>2. ready \in Seq(Jobs)
      BY <1>0
    <3> QED
      BY <3>1, <3>2, HeadTailProperties
  <2> QED
    BY <1>0, <1>4, <2>1 DEF Memory!TypeOK, Memory!PopLeft
<1>5. CASE Memory!Tick
  BY <1>0, <1>5 DEF Memory!TypeOK, Memory!Tick
<1> QED
  BY <1>1, <1>2, <1>3, <1>4, <1>5 DEF Memory!Next

\* Types of both backends, whichever the process uses (get_default_queue).
THEOREM BackendsTyped == Spec => []TypeOK
<1>1. Init => TypeOK
  BY QueueAssumption DEF Init, TypeOK, Redis!Init, Redis!TypeOK, Memory!Init, Memory!TypeOK
<1>2. TypeOK /\ [Next]_vars => TypeOK'
  <2> SUFFICES ASSUME TypeOK, [Next]_vars PROVE TypeOK'
    OBVIOUS
  <2>1. CASE UNCHANGED vars
    BY <2>1 DEF vars, redisVars, memoryVars, TypeOK, Redis!TypeOK, Memory!TypeOK
  <2>2. CASE GetDefaultQueue
    BY <2>2 DEF GetDefaultQueue, redisVars, memoryVars, TypeOK, Redis!TypeOK, Memory!TypeOK
  <2>3. CASE UseRedis
    <3>1. Redis!TypeOK'
      BY <2>3, RedisTyped DEF UseRedis, TypeOK
    <3>2. now' \in 0..MaxTime
      BY <3>1 DEF Redis!TypeOK
    <3> QED
      BY <2>3, <3>1, <3>2 DEF UseRedis, memoryVars, TypeOK, Memory!TypeOK
  <2>4. CASE UseMemory
    <3>1. Memory!TypeOK'
      BY <2>4, MemoryTyped DEF UseMemory, TypeOK
    <3>2. now' \in 0..MaxTime
      BY <3>1 DEF Memory!TypeOK
    <3> QED
      BY <2>4, <3>1, <3>2 DEF UseMemory, redisVars, TypeOK, Redis!TypeOK
  <2> QED
    BY <2>1, <2>2, <2>3, <2>4 DEF Next
<1> QED
  BY <1>1, <1>2, PTL DEF Spec
-----------------------------------------------------------------------------
(* One copy of an id *)

Holds(q, j) == \E i \in 1..Len(q) : q[i] = j
Apart(q) == \A i, k \in 1..Len(q) : q[i] = q[k] => i = k

\* A client holds an id between ZREM and LPUSH, one at a time.
HandsFit == \A c \in Clients : /\ at[c] # "push" => hand[c] = {}
                               /\ \A j, k \in hand[c] : j = k

\* An id is in one place of the Redis queue: in the list, and once there, in
\* the sorted set, or in the hand of one client.
OnePlace == \A j \in Jobs :
    /\ score[j] # Redis!NotParked => /\ ~Holds(list, j)
                                     /\ \A c \in Clients : j \notin hand[c]
    /\ \A c \in Clients : j \in hand[c] => /\ ~Holds(list, j)
                                           /\ \A d \in Clients : j \in hand[d] => c = d

\* The backend get_default_queue did not choose stays as it was made.
BackendsApart == /\ backend # "redis" => /\ list = <<>>
                                         /\ score = [j \in Jobs |-> Redis!NotParked]
                                         /\ hand = [c \in Clients |-> {}]
                 /\ backend # "memory" => ready = <<>> /\ parked = <<>>

CopiesFit == TypeOK /\ HandsFit /\ OnePlace /\ Apart(list)

LEMMA AppendHolds ==
    ASSUME NEW S, NEW q \in Seq(S), NEW j \in S
    PROVE  /\ \A k : Holds(Append(q, j), k) <=> Holds(q, k) \/ k = j
           /\ Apart(q) /\ ~Holds(q, j) => Apart(Append(q, j))
<1>1. /\ Len(q) \in Nat /\ Len(Append(q, j)) = Len(q) + 1
      /\ \A i \in 1..Len(q) : Append(q, j)[i] = q[i]
      /\ Append(q, j)[Len(q) + 1] = j
  BY AppendProperties
<1>2. \A i \in 1..Len(Append(q, j)) : i \in 1..Len(q) \/ i = Len(q) + 1
  BY <1>1
<1>3. /\ \A i \in 1..Len(q) : i \in 1..Len(Append(q, j))
      /\ Len(q) + 1 \in 1..Len(Append(q, j))
  BY <1>1
<1> QED
  BY <1>1, <1>2, <1>3 DEF Holds, Apart

LEMMA TailHolds ==
    ASSUME NEW S, NEW q \in Seq(S), q # <<>>
    PROVE  /\ \A k : Holds(Tail(q), k) => Holds(q, k)
           /\ Apart(q) => Apart(Tail(q))
<1>1. /\ Len(q) \in Nat /\ Len(Tail(q)) = Len(q) - 1
      /\ \A i \in 1..Len(Tail(q)) : Tail(q)[i] = q[i + 1]
  BY HeadTailProperties
<1>2. \A i \in 1..Len(Tail(q)) : i + 1 \in 1..Len(q)
  BY <1>1
<1>3. ASSUME Apart(q), NEW i \in 1..Len(Tail(q)), NEW k \in 1..Len(Tail(q)), Tail(q)[i] = Tail(q)[k]
      PROVE  i = k
  <2>1. i + 1 = k + 1
    BY <1>1, <1>2, <1>3 DEF Apart
  <2> QED
    BY <1>1, <2>1
<1> QED
  BY <1>1, <1>2, <1>3 DEF Holds, Apart

LEMMA RedisCopies ==
    ASSUME CopiesFit, Redis!Next, TypeOK'
    PROVE  HandsFit' /\ OnePlace' /\ Apart(list)'
<1>0. /\ list \in Seq(Jobs) /\ score \in [Jobs -> {Redis!NotParked} \cup Nat]
      /\ at \in [Clients -> {"idle", "promote", "push"}]
      /\ due \in [Clients -> SUBSET Jobs] /\ hand \in [Clients -> SUBSET Jobs]
      /\ now \in Nat /\ HandsFit /\ OnePlace /\ Apart(list)
  BY QueueAssumption DEF CopiesFit, TypeOK, Redis!TypeOK
<1>1. ASSUME NEW j \in Jobs, Redis!LPush(j)
      PROVE  HandsFit' /\ OnePlace' /\ Apart(list)'
  <2>1. /\ list' = Append(list, j) /\ ~Holds(list, j) /\ score[j] = Redis!NotParked
        /\ \A c \in Clients : j \notin hand[c]
        /\ UNCHANGED <<score, at, hand>>
    BY <1>1 DEF Redis!LPush, Redis!Absent, Holds
  <2>2. /\ \A k \in Jobs : Holds(list', k) <=> Holds(list, k) \/ k = j
        /\ Apart(list')
    BY <1>0, <2>1, AppendHolds
  <2> QED
    BY <1>0, <2>1, <2>2 DEF HandsFit, OnePlace
<1>2. ASSUME NEW j \in Jobs, Redis!ZAdd(j)
      PROVE  HandsFit' /\ OnePlace' /\ Apart(list)'
  <2>1. /\ ~Holds(list, j) /\ \A c \in Clients : j \notin hand[c]
        /\ \A k \in Jobs : k # j => score'[k] = score[k]
        /\ UNCHANGED <<list, at, hand>>
    BY <1>0, <1>2 DEF Redis!ZAdd, Redis!Absent, Holds
  <2> QED
    BY <1>0, <2>1 DEF HandsFit, OnePlace
<1>3. ASSUME NEW c \in Clients, Redis!Scan(c)
      PROVE  HandsFit' /\ OnePlace' /\ Apart(list)'
  BY <1>0, <1>3 DEF Redis!Scan, HandsFit, OnePlace
<1>4. ASSUME NEW c \in Clients, Redis!BRPop(c)
      PROVE  HandsFit' /\ OnePlace' /\ Apart(list)'
  <2>1. /\ list' = list \/ (list # <<>> /\ list' = Tail(list))
        /\ at[c] = "promote" /\ at' = [at EXCEPT ![c] = "idle"]
        /\ UNCHANGED <<score, hand>>
    BY <1>4 DEF Redis!BRPop
  <2>2. (\A k \in Jobs : Holds(list', k) => Holds(list, k)) /\ Apart(list')
    BY <1>0, <2>1, TailHolds
  <2> QED
    BY <1>0, <2>1, <2>2 DEF HandsFit, OnePlace
<1>5. ASSUME NEW c \in Clients, Redis!Crash(c)
      PROVE  HandsFit' /\ OnePlace' /\ Apart(list)'
  <2>1. /\ at' = [at EXCEPT ![c] = "idle"] /\ hand' = [hand EXCEPT ![c] = {}]
        /\ UNCHANGED <<list, score>>
    BY <1>5 DEF Redis!Crash
  <2> QED
    BY <1>0, <2>1 DEF HandsFit, OnePlace
<1>6. ASSUME NEW c \in Clients, NEW j \in Jobs, Redis!ZRem(c, j)
      PROVE  HandsFit' /\ OnePlace' /\ Apart(list)'
  <2>1. /\ score' = [score EXCEPT ![j] = Redis!NotParked]
        /\ at[c] = "promote" /\ UNCHANGED list
    BY <1>6 DEF Redis!ZRem
  <2>2. CASE UNCHANGED <<at, hand>>
    BY <1>0, <2>1, <2>2 DEF HandsFit, OnePlace
  <2>3. CASE /\ score[j] # Redis!NotParked
             /\ at' = [at EXCEPT ![c] = "push"]
             /\ hand' = [hand EXCEPT ![c] = {j}]
    <3>1. HandsFit'
      BY <1>0, <2>1, <2>3 DEF HandsFit
    <3>2. ~Holds(list, j) /\ \A d \in Clients : j \notin hand[d]
      BY <1>0, <2>3 DEF OnePlace
    <3>3. OnePlace'
      BY <1>0, <2>1, <2>3, <3>2 DEF OnePlace
    <3> QED
      BY <1>0, <2>1, <3>1, <3>3
  <2> QED
    BY <1>6, <2>2, <2>3 DEF Redis!ZRem
<1>7. ASSUME NEW c \in Clients, NEW j \in Jobs, Redis!PushDue(c, j)
      PROVE  HandsFit' /\ OnePlace' /\ Apart(list)'
  <2>1. /\ j \in hand[c] /\ list' = Append(list, j) /\ UNCHANGED score
        /\ hand' = [hand EXCEPT ![c] = {}] /\ at' = [at EXCEPT ![c] = "promote"]
    BY <1>7 DEF Redis!PushDue
  <2>2. /\ ~Holds(list, j) /\ score[j] = Redis!NotParked
        /\ \A d \in Clients : j \in hand[d] => c = d
    BY <1>0, <2>1 DEF OnePlace
  <2>3. /\ \A k \in Jobs : Holds(list', k) <=> Holds(list, k) \/ k = j
        /\ Apart(list')
    BY <1>0, <2>1, <2>2, AppendHolds
  <2>4. HandsFit'
    BY <1>0, <2>1 DEF HandsFit
  <2>5. OnePlace'
    BY <1>0, <2>1, <2>2, <2>3 DEF OnePlace
  <2> QED
    BY <2>3, <2>4, <2>5
<1>8. CASE Redis!Tick
  BY <1>0, <1>8 DEF Redis!Tick, HandsFit, OnePlace
<1> QED
  BY <1>1, <1>2, <1>3, <1>4, <1>5, <1>6, <1>7, <1>8 DEF Redis!Next

LEMMA CopiesInvariant == Spec => []CopiesFit
<1>1. Init => HandsFit /\ OnePlace /\ Apart(list)
  BY DEF Init, Redis!Init, HandsFit, OnePlace, Holds, Apart
<1>2. CopiesFit /\ TypeOK' /\ [Next]_vars => (HandsFit /\ OnePlace /\ Apart(list))'
  <2> SUFFICES ASSUME CopiesFit, TypeOK', [Next]_vars
               PROVE  HandsFit' /\ OnePlace' /\ Apart(list)'
    OBVIOUS
  <2>1. CASE UNCHANGED redisVars
    BY <2>1 DEF redisVars, CopiesFit, HandsFit, OnePlace
  <2>2. CASE UseRedis
    BY <2>2, RedisCopies DEF UseRedis
  <2> QED
    BY <2>1, <2>2 DEF Next, GetDefaultQueue, UseMemory, vars
<1> QED
  BY <1>1, <1>2, BackendsTyped, PTL DEF Spec, CopiesFit

LEMMA ApartInvariant == Spec => []BackendsApart
<1>1. Init => BackendsApart
  BY DEF Init, Redis!Init, Memory!Init, BackendsApart
<1>2. BackendsApart /\ [Next]_vars => BackendsApart'
  BY DEF BackendsApart, Next, GetDefaultQueue, UseRedis, UseMemory, redisVars, memoryVars, vars
<1> QED
  BY <1>1, <1>2, PTL DEF Spec

\* Each backend counts with a Cardinality of its own.
LEMMA SameCount ==
    ASSUME NEW T
    PROVE  Redis!Cardinality(T) = Cardinality(T) /\ Memory!Cardinality(T) = Cardinality(T)
<1>1. Redis!Cardinality(T) = Cardinality(T)
  BY Zenon DEF Redis!Cardinality, Cardinality
<1>2. Memory!Cardinality(T) = Cardinality(T)
  BY Zenon DEF Memory!Cardinality, Cardinality
<1> QED
  BY <1>1, <1>2

LEMMA CountOfOne ==
    ASSUME NEW T, \A x, y \in T : x = y
    PROVE  Cardinality(T) = IF T = {} THEN 0 ELSE 1
<1>1. CASE T = {}
  BY <1>1, FS_EmptySet
<1>2. CASE T # {}
  <2>1. PICK x \in T : TRUE
    BY <1>2
  <2>2. T = {x}
    BY <2>1
  <2> QED
    BY <1>2, <2>2, FS_Singleton
<1> QED
  BY <1>1, <1>2

\* The sorted set and the hands hold at most one copy of an id.
Copied(j) == score[j] # Redis!NotParked \/ \E c \in Clients : j \in hand[c]

ParkedOnce == \A j \in Jobs : Redis!Parked[j] = IF Copied(j) THEN 1 ELSE 0

LEMMA RedisParked == CopiesFit => ParkedOnce
<1> SUFFICES ASSUME CopiesFit, NEW j \in Jobs
             PROVE  Redis!Parked[j] = IF Copied(j) THEN 1 ELSE 0
  BY DEF ParkedOnce
<1> DEFINE T == {c \in Clients : j \in hand[c]}
<1>1. Cardinality(T) = IF T = {} THEN 0 ELSE 1
  <2>1. \A x, y \in T : x = y
    BY DEF CopiesFit, OnePlace
  <2> QED
    BY <2>1, CountOfOne
<1>2. Redis!Parked[j] = (IF score[j] = Redis!NotParked THEN 0 ELSE 1) + Cardinality(T)
  BY SameCount DEF Redis!Parked
<1>3. score[j] # Redis!NotParked => T = {}
  BY DEF CopiesFit, OnePlace
<1> QED
  BY <1>1, <1>2, <1>3 DEF Copied

LEMMA RedisParkedNext == CopiesFit' => ParkedOnce'
  BY RedisParked, PTL

\* As long as callers keep one copy per id so does Redis, although workers
\* whose due lists overlap race through _promote and may die in it.
THEOREM RedisKeepsOneCopy == Spec => []SingleCopy
<1>1. CopiesFit => SingleCopy
  <2> SUFFICES ASSUME CopiesFit, NEW j \in Jobs
               PROVE  Redis!Parked[j] + Cardinality({i \in 1..Len(list) : list[i] = j}) <= 1
    BY SameCount DEF SingleCopy, Redis!SingleCopy
  <2> DEFINE T == {i \in 1..Len(list) : list[i] = j}
  <2>1. Cardinality(T) = IF T = {} THEN 0 ELSE 1
    <3>1. \A x, y \in T : x = y
      BY DEF CopiesFit, Apart
    <3> QED
      BY <3>1, CountOfOne
  <2>2. T # {} => Holds(list, j)
    BY DEF Holds
  <2>3. T # {} => Redis!Parked[j] = 0
    BY <2>2, RedisParked DEF ParkedOnce, Copied, CopiesFit, OnePlace
  <2>4. Redis!Parked[j] \in {0, 1}
    BY RedisParked DEF ParkedOnce
  <2> QED
    BY <2>1, <2>3, <2>4
<1> QED
  BY <1>1, CopiesInvariant, PTL
-----------------------------------------------------------------------------
(* Counting the delayed entries of InMemoryJobQueue *)

CountIn(q, j) == Cardinality({i \in 1..Len(q) : q[i][2] = j})

LEMMA CountType ==
    ASSUME NEW S, NEW q \in Seq(S), NEW j
    PROVE  /\ IsFiniteSet({i \in 1..Len(q) : q[i][2] = j})
           /\ CountIn(q, j) \in Nat
<1>1. IsFiniteSet(1..Len(q))
  <2>1. Len(q) \in Nat
    OBVIOUS
  <2> QED
    BY <2>1, FS_Interval
<1>2. {i \in 1..Len(q) : q[i][2] = j} \in SUBSET (1..Len(q))
  OBVIOUS
<1>3. IsFiniteSet({i \in 1..Len(q) : q[i][2] = j})
  BY <1>1, <1>2, FS_Subset
<1> QED
  BY <1>3, FS_CardinalityType DEF CountIn

LEMMA AppendCounts ==
    ASSUME NEW S, NEW q \in Seq(S), NEW e \in S, NEW j
    PROVE  CountIn(Append(q, e), j) = CountIn(q, j) + (IF e[2] = j THEN 1 ELSE 0)
<1> DEFINE A == {i \in 1..Len(q) : q[i][2] = j}
           B == {i \in 1..Len(Append(q, e)) : Append(q, e)[i][2] = j}
<1>1. /\ Len(q) \in Nat /\ Len(Append(q, e)) = Len(q) + 1
      /\ \A i \in 1..Len(q) : Append(q, e)[i] = q[i]
      /\ Append(q, e)[Len(q) + 1] = e
  BY AppendProperties
<1>2. \A i : i \in 1..(Len(q) + 1) <=> i \in 1..Len(q) \/ i = Len(q) + 1
  BY <1>1
<1>3. Len(q) + 1 \notin A
  BY <1>1
<1>4. B = IF e[2] = j THEN A \cup {Len(q) + 1} ELSE A
  BY <1>1, <1>2
<1>5. IsFiniteSet(A) /\ Cardinality(A) \in Nat
  BY CountType DEF CountIn
<1>6. Cardinality(B) = Cardinality(A) + (IF e[2] = j THEN 1 ELSE 0)
  <2> HIDE DEF A, B
  <2>1. Cardinality(A \cup {Len(q) + 1}) = Cardinality(A) + 1
    BY <1>3, <1>5, FS_AddElement
  <2> QED
    BY <1>4, <1>5, <2>1
<1> QED
  BY <1>6 DEF CountIn

LEMMA RemoveCounts ==
    ASSUME NEW S, NEW q \in Seq(S), NEW i \in 1..Len(q), NEW j
    PROVE  CountIn(q, j) = CountIn(Memory!RemoveAt(q, i), j) + (IF q[i][2] = j THEN 1 ELSE 0)
<1> DEFINE r == Memory!RemoveAt(q, i)
           A == {k \in 1..Len(q) : q[k][2] = j}
           B == {k \in 1..Len(r) : r[k][2] = j}
           f == [k \in B |-> IF k < i THEN k ELSE k + 1]
<1>0. /\ Len(q) \in Nat /\ i \in Nat /\ 1 <= i /\ i <= Len(q)
      /\ r \in Seq(S) /\ Len(r) = Len(q) - 1
      /\ \A k \in 1..(Len(q) - 1) : r[k] = IF k < i THEN q[k] ELSE q[k + 1]
  <2>1. /\ r \in Seq(S) /\ Len(r) = Len(q) - 1
        /\ \A k \in 1..(Len(q) - 1) : r[k] = IF k < i THEN q[k] ELSE q[k + 1]
    BY Zenon, RemoveAtFacts
  <2> QED
    BY <2>1
<1>1. /\ IsFiniteSet(A) /\ IsFiniteSet(B)
      /\ CountIn(q, j) = Cardinality(A) /\ CountIn(r, j) = Cardinality(B)
      /\ Cardinality(A) \in Nat /\ Cardinality(B) \in Nat
  BY <1>0, CountType DEF CountIn
<1> HIDE DEF r
<1>2. \A k \in B : k \in Nat /\ k \in 1..(Len(q) - 1) /\ f[k] \in A \ {i}
  BY <1>0
<1>3. f \in Injection(B, A \ {i})
  <2>1. f \in [B -> A \ {i}]
    BY <1>2
  <2>2. \A k, l \in B : f[k] = f[l] => k = l
    BY <1>0, <1>2
  <2> QED
    BY <2>1, <2>2 DEF Injection, IsInjective
<1>4. \A m \in A \ {i} : \E k \in B : f[k] = m
  <2> SUFFICES ASSUME NEW m \in A \ {i}
               PROVE  \E k \in B : f[k] = m
    OBVIOUS
  <2>1. CASE m < i
    <3>1. m \in 1..(Len(q) - 1)
      BY <1>0, <2>1
    <3>2. m \in B /\ f[m] = m
      BY <1>0, <2>1, <3>1
    <3> QED
      BY <3>2
  <2>2. CASE ~(m < i)
    <3>1. m - 1 \in 1..(Len(q) - 1) /\ ~(m - 1 < i) /\ (m - 1) + 1 = m
      BY <1>0, <2>2
    <3>2. m - 1 \in B
      BY <1>0, <3>1
    <3>3. f[m - 1] = m
      BY <3>1, <3>2
    <3> QED
      BY <3>2, <3>3
  <2> QED
    BY <2>1, <2>2
<1>5. ExistsBijection(B, A \ {i})
  <2>1. f \in Surjection(B, A \ {i})
    BY <1>3, <1>4 DEF Surjection, Injection
  <2> QED
    BY <1>3, <2>1 DEF Bijection, ExistsBijection
<1>6. Cardinality(A \ {i}) = Cardinality(B)
  <2> HIDE DEF A, B, f
  <2> QED
    BY <1>1, <1>5, FS_Bijection
<1>7. /\ i \in A <=> q[i][2] = j
      /\ Cardinality(A \ {i}) = IF i \in A THEN Cardinality(A) - 1 ELSE Cardinality(A)
  <2>1. i \in A <=> q[i][2] = j
    BY <1>0
  <2> HIDE DEF A
  <2> QED
    BY <1>1, <2>1, FS_RemoveElement
<1> QED
  BY <1>1, <1>6, <1>7 DEF r

LEMMA MemoryParked ==
    Memory!Parked = [j \in Jobs |-> CountIn(parked, j)]
  BY SameCount DEF Memory!Parked, CountIn

LEMMA MemoryParkedNext ==
    Memory!Parked' = [j \in Jobs |-> CountIn(parked', j)]
  BY SameCount DEF Memory!Parked, CountIn
-----------------------------------------------------------------------------
(* Nothing is lost *)

\* A parked copy leaves Redis only for the list, or with the client that held
\* it (dequeue, _promote).
LEMMA RedisLoses ==
    ASSUME CopiesFit, ParkedOnce, ParkedOnce', Redis!Next, NEW j \in Jobs,
           Redis!Parked'[j] < Redis!Parked[j]
    PROVE  Len(list') = Len(list) + 1 \/ crashes' = crashes + 1
<1>0. /\ list \in Seq(Jobs) /\ score \in [Jobs -> {Redis!NotParked} \cup Nat]
      /\ hand \in [Clients -> SUBSET Jobs] /\ HandsFit /\ now \in Nat
      /\ MaxTime \in Nat
  BY QueueAssumption DEF CopiesFit, TypeOK, Redis!TypeOK
<1>1. Copied(j) /\ ~Copied(j)'
  <2>1. /\ Redis!Parked[j] = IF Copied(j) THEN 1 ELSE 0
        /\ Redis!Parked'[j] = IF Copied(j)' THEN 1 ELSE 0
    BY DEF ParkedOnce
  <2> QED
    BY <2>1
<1>2. ASSUME NEW k \in Jobs, Redis!LPush(k)
      PROVE  Len(list') = Len(list) + 1
  BY <1>0, <1>2, AppendProperties DEF Redis!LPush
<1>3. ASSUME NEW k \in Jobs, Redis!ZAdd(k)
      PROVE  FALSE
  <2>1. PICK d \in Delays : score' = [score EXCEPT ![k] = now + d]
    BY <1>3 DEF Redis!ZAdd
  <2>2. now + d # Redis!NotParked
    BY <1>0, QueueAssumption DEF Redis!NotParked
  <2>3. k # j /\ score'[j] = score[j] /\ UNCHANGED hand
    BY <1>0, <1>1, <1>3, <2>1, <2>2 DEF Redis!ZAdd, Copied
  <2> QED
    BY <1>1, <2>3 DEF Copied
<1>4. ASSUME NEW c \in Clients, Redis!Scan(c) \/ Redis!BRPop(c)
      PROVE  FALSE
  BY <1>1, <1>4 DEF Redis!Scan, Redis!BRPop, Copied
<1>5. ASSUME NEW c \in Clients, Redis!Crash(c)
      PROVE  crashes' = crashes + 1
  BY <1>5 DEF Redis!Crash
<1>6. ASSUME NEW c \in Clients, NEW k \in Jobs, Redis!ZRem(c, k)
      PROVE  FALSE
  <2>1. /\ score' = [score EXCEPT ![k] = Redis!NotParked] /\ at[c] = "promote"
        /\ \/ score[k] # Redis!NotParked /\ hand' = [hand EXCEPT ![c] = {k}]
           \/ score[k] = Redis!NotParked /\ UNCHANGED hand
    BY <1>6 DEF Redis!ZRem
  <2>2. hand[c] = {}
    BY <2>1, <1>0 DEF HandsFit
  <2>3. \A d \in Clients : j \in hand[d] => j \in hand'[d]
    BY <1>0, <2>1, <2>2
  <2>4. j = k /\ score[k] # Redis!NotParked
    BY <1>0, <1>1, <2>1, <2>3 DEF Copied
  <2>5. j \in hand'[c]
    BY <1>0, <2>1, <2>4
  <2> QED
    BY <1>1, <2>5 DEF Copied
<1>7. ASSUME NEW c \in Clients, NEW k \in Jobs, Redis!PushDue(c, k)
      PROVE  Len(list') = Len(list) + 1
  BY <1>0, <1>7, AppendProperties DEF Redis!PushDue
<1>8. CASE Redis!Tick
  BY <1>1, <1>8 DEF Redis!Tick, Copied
<1> QED
  BY <1>2, <1>3, <1>4, <1>5, <1>6, <1>7, <1>8 DEF Redis!Next

\* _promote of the in-process queue moves the first due entry, and only it.
LEMMA FirstPromoted ==
    ASSUME TypeOK, NEW c \in Clients, Memory!PromoteFirst(c)
    PROVE  \E k \in Jobs : /\ ready' = Append(ready, k)
                           /\ Memory!Parked[k] > 0
                           /\ Memory!Parked' = [Memory!Parked EXCEPT ![k] = @ - 1]
<1>0. ready \in Seq(Jobs) /\ parked \in Seq(Nat \X Jobs)
  BY DEF TypeOK, Memory!TypeOK
<1>1. PICK i \in 1..Len(parked) : /\ ready' = Append(ready, parked[i][2])
                                  /\ parked' = Memory!RemoveAt(parked, i)
  BY DEF Memory!PromoteFirst, Memory!Due
<1>2. parked[i] \in Nat \X Jobs
  BY <1>0
<1> DEFINE k == parked[i][2]
<1>3. k \in Jobs
  BY <1>2
<1>4. \A j \in Jobs : CountIn(parked, j) = CountIn(parked', j) + (IF k = j THEN 1 ELSE 0)
  BY <1>0, <1>1, RemoveCounts
<1>5. parked' \in Seq(Nat \X Jobs)
  BY <1>0, <1>1, RemoveAtFacts
<1>6. \A j \in Jobs : CountIn(parked, j) \in Nat /\ CountIn(parked', j) \in Nat
  BY <1>0, <1>5, CountType
<1>7. Memory!Parked[k] > 0
  <2>1. Memory!Parked[k] = CountIn(parked, k)
    BY <1>3, MemoryParked
  <2> HIDE DEF k
  <2> QED
    BY <1>3, <1>4, <1>6, <2>1
<1>8. Memory!Parked' = [Memory!Parked EXCEPT ![k] = @ - 1]
  <2> HIDE DEF k
  <2>1. \A j \in Jobs : CountIn(parked', j) = IF j = k THEN CountIn(parked, j) - 1
                                                       ELSE CountIn(parked, j)
    BY <1>3, <1>4, <1>6
  <2> QED
    BY <1>3, <2>1, MemoryParked, MemoryParkedNext
<1> QED
  BY <1>1, <1>3, <1>7, <1>8

LEMMA MemoryLoses ==
    ASSUME TypeOK, Memory!Next, NEW j \in Jobs, Memory!Parked'[j] < Memory!Parked[j]
    PROVE  Len(ready') = Len(ready) + 1 /\ Memory!Parked'[j] = Memory!Parked[j] - 1
<1>0. /\ ready \in Seq(Jobs) /\ parked \in Seq(Nat \X Jobs) /\ now \in Nat
      /\ Delays \subseteq Nat
  BY QueueAssumption DEF TypeOK, Memory!TypeOK
<1>1. Memory!Parked = [k \in Jobs |-> CountIn(parked, k)]
  BY MemoryParked
<1>2. Memory!Parked' = [k \in Jobs |-> CountIn(parked', k)]
  BY MemoryParkedNext
<1>3. \A k \in Jobs : CountIn(parked, k) \in Nat
  BY <1>0, CountType
<1>4. CASE UNCHANGED parked
  <2>1. Memory!Parked'[j] = Memory!Parked[j] /\ Memory!Parked[j] \in Nat
    BY <1>1, <1>2, <1>3, <1>4
  <2> QED
    BY <2>1
<1>5. ASSUME NEW k \in Jobs, NEW d \in Delays, parked' = Append(parked, <<now + d, k>>)
      PROVE  FALSE
  <2>1. <<now + d, k>> \in Nat \X Jobs
    BY <1>0
  <2>2. CountIn(parked', j) = CountIn(parked, j) + (IF <<now + d, k>>[2] = j THEN 1 ELSE 0)
    BY <1>0, <1>5, <2>1, AppendCounts
  <2>3. CountIn(parked, j) \in Nat /\ CountIn(parked', j) < CountIn(parked, j)
    BY <1>1, <1>2, <1>3
  <2> QED
    BY <2>2, <2>3
<1>6. ASSUME NEW c \in Clients, Memory!PromoteFirst(c)
      PROVE  Len(ready') = Len(ready) + 1 /\ Memory!Parked'[j] = Memory!Parked[j] - 1
  <2>1. PICK k \in Jobs : /\ ready' = Append(ready, k)
                          /\ Memory!Parked' = [Memory!Parked EXCEPT ![k] = @ - 1]
    BY <1>6, FirstPromoted
  <2>2. Memory!Parked'[j] = IF j = k THEN Memory!Parked[j] - 1 ELSE Memory!Parked[j]
    BY <1>1, <2>1
  <2>3. Memory!Parked[j] \in Nat
    BY <1>1, <1>3
  <2>4. Len(ready') = Len(ready) + 1
    BY <1>0, <2>1, AppendProperties
  <2> QED
    BY <2>2, <2>3, <2>4
<1>7. \/ UNCHANGED parked
      \/ \E k \in Jobs, d \in Delays : parked' = Append(parked, <<now + d, k>>)
      \/ \E c \in Clients : Memory!PromoteFirst(c)
  BY DEF Memory!Next, Memory!Put, Memory!Acquire, Memory!PopLeft, Memory!Tick
<1> QED
  BY <1>4, <1>5, <1>6, <1>7

\* A dequeue lets go of the lock only when nothing is due any more.
LEMMA ReleasePromoted ==
    ASSUME TypeOK, Memory!Next, NEW c \in Clients, c \in lock, c \notin lock'
    PROVE  \A i \in 1..Len(parked') : parked'[i][1] > seen
<1>1. parked \in Seq(Nat \X Jobs) /\ seen \in Nat
  BY QueueAssumption DEF TypeOK, Memory!TypeOK
<1>2. \E d \in Clients : Memory!PopLeft(d)
  BY DEF Memory!Next, Memory!Put, Memory!Acquire, Memory!PromoteFirst, Memory!Tick
<1>3. UNCHANGED parked /\ Memory!Due = {}
  BY <1>2 DEF Memory!PopLeft
<1>4. ASSUME NEW i \in 1..Len(parked)
      PROVE  parked[i][1] > seen
  <2>1. parked[i] \in Nat \X Jobs
    BY <1>1
  <2>2. parked[i][1] \in Nat /\ ~(parked[i][1] <= seen)
    BY <1>3, <2>1 DEF Memory!Due
  <2> QED
    BY <1>1, <2>2
<1> QED
  BY <1>3, <1>4

\* An id once parked comes out: neither backend drops one while its client
\* lives, and the in-process one never leaves a due one parked (_promote).
THEOREM ParkedIdsAreKept == Spec => KeepsIds
<1>1. CopiesFit /\ ParkedOnce /\ ParkedOnce' /\ [Next]_vars =>
        [\A j \in Jobs : Redis!Parked'[j] < Redis!Parked[j] =>
             \/ Len(list') = Len(list) + 1
             \/ crashes' = crashes + 1]_(Redis!vars)
  <2> SUFFICES ASSUME CopiesFit, ParkedOnce, ParkedOnce', [Next]_vars
               PROVE  [\A j \in Jobs : Redis!Parked'[j] < Redis!Parked[j] =>
                          \/ Len(list') = Len(list) + 1
                          \/ crashes' = crashes + 1]_(Redis!vars)
    OBVIOUS
  <2>1. CASE UseRedis
    BY <2>1, RedisLoses DEF UseRedis
  <2>2. CASE UNCHANGED redisVars
    <3>1. ParkedOnce' /\ (\A j \in Jobs : Copied(j)' <=> Copied(j))
      BY <2>2 DEF redisVars, Copied
    <3>2. \A j \in Jobs : Redis!Parked'[j] = Redis!Parked[j] /\ Redis!Parked[j] \in Nat
      BY <3>1 DEF ParkedOnce
    <3> QED
      BY <3>2
  <2> QED
    BY <2>1, <2>2 DEF Next, GetDefaultQueue, UseMemory, vars
<1>2. TypeOK /\ [Next]_vars =>
        [\A j \in Jobs : Memory!Parked'[j] < Memory!Parked[j] =>
             Len(ready') = Len(ready) + 1 /\ Memory!Parked'[j] = Memory!Parked[j] - 1]_(Memory!vars)
  <2> SUFFICES ASSUME TypeOK, [Next]_vars
               PROVE  [\A j \in Jobs : Memory!Parked'[j] < Memory!Parked[j] =>
                          Len(ready') = Len(ready) + 1 /\ Memory!Parked'[j] = Memory!Parked[j] - 1]_(Memory!vars)
    OBVIOUS
  <2>1. CASE UseMemory
    BY <2>1, MemoryLoses DEF UseMemory
  <2>2. CASE UNCHANGED memoryVars
    <3>1. parked \in Seq(Nat \X Jobs) /\ parked' = parked
      BY <2>2 DEF memoryVars, TypeOK, Memory!TypeOK
    <3>2. \A j \in Jobs : CountIn(parked, j) \in Nat
      BY <3>1, CountType
    <3>3. \A j \in Jobs : Memory!Parked'[j] = Memory!Parked[j] /\ Memory!Parked[j] \in Nat
      BY <3>1, <3>2, MemoryParked, MemoryParkedNext
    <3> QED
      BY <3>3
  <2> QED
    BY <2>1, <2>2 DEF Next, GetDefaultQueue, UseRedis, vars
<1>3. TypeOK /\ [Next]_vars =>
        [\A c \in Clients : c \in lock /\ c \notin lock' =>
             \A i \in 1..Len(parked') : parked'[i][1] > seen]_(Memory!vars)
  <2> SUFFICES ASSUME TypeOK, [Next]_vars
               PROVE  [\A c \in Clients : c \in lock /\ c \notin lock' =>
                          \A i \in 1..Len(parked') : parked'[i][1] > seen]_(Memory!vars)
    OBVIOUS
  <2>1. CASE UseMemory
    BY <2>1, ReleasePromoted DEF UseMemory
  <2>2. CASE UNCHANGED memoryVars
    BY <2>2 DEF memoryVars
  <2> QED
    BY <2>1, <2>2 DEF Next, GetDefaultQueue, UseRedis, vars
<1>4. Spec => Redis!LossOnlyByCrash
  BY <1>1, CopiesInvariant, RedisParked, RedisParkedNext, PTL DEF Spec, Redis!LossOnlyByCrash
<1>5. Spec => Memory!NothingLost
  BY <1>2, BackendsTyped, PTL DEF Spec, Memory!NothingLost
<1>6. Spec => Memory!DuePromoted
  BY <1>3, BackendsTyped, PTL DEF Spec, Memory!DuePromoted
<1> QED
  BY <1>4, <1>5, <1>6 DEF KeepsIds, LossOnlyByCrash, NothingLost, DuePromoted
-----------------------------------------------------------------------------
(* Either backend is the queue of JobQueue *)

\* A step of JobQueue, or none, from ready list r and parked copies d.
QueueStep(r, d, s, e) ==
    \/ s = r /\ e = d
    \/ \E j \in Jobs :
          \/ s = Append(r, j) /\ e = d
          \/ s = r /\ e = [d EXCEPT ![j] = @ + 1]
          \/ d[j] > 0 /\ s = Append(r, j) /\ e = [d EXCEPT ![j] = @ - 1]
          \/ r # <<>> /\ j = Head(r) /\ s = Tail(r) /\ e = d
          \/ d[j] > 0 /\ s = r /\ e = [d EXCEPT ![j] = @ - 1]

LEMMA PopStep ==
    ASSUME NEW r \in Seq(Jobs), NEW d, NEW s,
           (r # <<>> /\ s = Tail(r)) \/ (r = <<>> /\ s = r)
    PROVE  QueueStep(r, d, s, d)
<1>1. CASE r # <<>> /\ s = Tail(r)
  <2>1. Head(r) \in Jobs
    BY <1>1, HeadTailProperties
  <2> QED
    BY <1>1, <2>1 DEF QueueStep
<1> QED
  BY <1>1 DEF QueueStep

\* What a step does to the copies in the sorted set and the hands.
LEMMA SameParked ==
    ASSUME ParkedOnce, ParkedOnce', \A k \in Jobs : Copied(k)' <=> Copied(k)
    PROVE  Redis!Parked' = Redis!Parked
<1>1. /\ Redis!Parked = [k \in Jobs |-> Redis!Parked[k]]
      /\ Redis!Parked' = [k \in Jobs |-> Redis!Parked'[k]]
  BY DEF Redis!Parked
<1>2. \A k \in Jobs : Redis!Parked'[k] = Redis!Parked[k]
  BY DEF ParkedOnce
<1> QED
  BY <1>1, <1>2

LEMMA OneMore ==
    ASSUME ParkedOnce, ParkedOnce', NEW j \in Jobs, ~Copied(j), Copied(j)',
           \A k \in Jobs : k # j => (Copied(k)' <=> Copied(k))
    PROVE  Redis!Parked' = [Redis!Parked EXCEPT ![j] = @ + 1]
<1>1. /\ Redis!Parked = [k \in Jobs |-> Redis!Parked[k]]
      /\ Redis!Parked' = [k \in Jobs |-> Redis!Parked'[k]]
  BY DEF Redis!Parked
<1>2. \A k \in Jobs : Redis!Parked'[k] = IF k = j THEN Redis!Parked[j] + 1 ELSE Redis!Parked[k]
  BY DEF ParkedOnce
<1> QED
  BY <1>1, <1>2

LEMMA OneLess ==
    ASSUME ParkedOnce, ParkedOnce', NEW j \in Jobs, Copied(j), ~Copied(j)',
           \A k \in Jobs : k # j => (Copied(k)' <=> Copied(k))
    PROVE  Redis!Parked[j] > 0 /\ Redis!Parked' = [Redis!Parked EXCEPT ![j] = @ - 1]
<1>1. /\ Redis!Parked = [k \in Jobs |-> Redis!Parked[k]]
      /\ Redis!Parked' = [k \in Jobs |-> Redis!Parked'[k]]
  BY DEF Redis!Parked
<1>2. \A k \in Jobs : Redis!Parked'[k] = IF k = j THEN Redis!Parked[j] - 1 ELSE Redis!Parked[k]
  BY DEF ParkedOnce
<1>3. Redis!Parked[j] > 0
  BY DEF ParkedOnce
<1> QED
  BY <1>1, <1>2, <1>3

\* ZREM and LPUSH are two commands, but only LPUSH moves a copy of the queue.
LEMMA RedisSteps ==
    ASSUME CopiesFit, ParkedOnce, ParkedOnce', Redis!Next
    PROVE  QueueStep(list, Redis!Parked, list', Redis!Parked')
<1>0. /\ list \in Seq(Jobs) /\ score \in [Jobs -> {Redis!NotParked} \cup Nat]
      /\ hand \in [Clients -> SUBSET Jobs] /\ HandsFit /\ OnePlace /\ now \in Nat
  BY QueueAssumption DEF CopiesFit, TypeOK, Redis!TypeOK
<1>1. ASSUME NEW j \in Jobs, Redis!LPush(j)
      PROVE  QueueStep(list, Redis!Parked, list', Redis!Parked')
  <2>1. Redis!Parked' = Redis!Parked
    BY <1>1, SameParked DEF Redis!LPush, Copied
  <2> QED
    BY <1>1, <2>1 DEF QueueStep, Redis!LPush
<1>2. ASSUME NEW j \in Jobs, Redis!ZAdd(j)
      PROVE  QueueStep(list, Redis!Parked, list', Redis!Parked')
  <2>1. PICK d \in Delays : score' = [score EXCEPT ![j] = now + d]
    BY <1>2 DEF Redis!ZAdd
  <2>2. now + d # Redis!NotParked
    BY <1>0, QueueAssumption DEF Redis!NotParked
  <2>3. ~Copied(j) /\ UNCHANGED <<list, hand>>
    BY <1>2 DEF Redis!ZAdd, Redis!Absent, Copied
  <2>4. Copied(j)' /\ \A k \in Jobs : k # j => (Copied(k)' <=> Copied(k))
    BY <1>0, <2>1, <2>2, <2>3 DEF Copied
  <2>5. Redis!Parked' = [Redis!Parked EXCEPT ![j] = @ + 1]
    BY <2>3, <2>4, OneMore
  <2> QED
    BY <2>3, <2>5 DEF QueueStep
<1>3. ASSUME NEW c \in Clients, Redis!Scan(c)
      PROVE  QueueStep(list, Redis!Parked, list', Redis!Parked')
  <2>1. Redis!Parked' = Redis!Parked
    BY <1>3, SameParked DEF Redis!Scan, Copied
  <2> QED
    BY <1>3, <2>1 DEF QueueStep, Redis!Scan
<1>4. ASSUME NEW c \in Clients, Redis!BRPop(c)
      PROVE  QueueStep(list, Redis!Parked, list', Redis!Parked')
  <2>1. Redis!Parked' = Redis!Parked
    BY <1>4, SameParked DEF Redis!BRPop, Copied
  <2>2. (list # <<>> /\ list' = Tail(list)) \/ (list = <<>> /\ list' = list)
    BY <1>4 DEF Redis!BRPop
  <2>3. QueueStep(list, Redis!Parked, list', Redis!Parked)
    BY <1>0, <2>2, PopStep
  <2> QED
    BY <2>1, <2>3
<1>5. ASSUME NEW c \in Clients, Redis!Crash(c)
      PROVE  QueueStep(list, Redis!Parked, list', Redis!Parked')
  <2>1. hand' = [hand EXCEPT ![c] = {}] /\ UNCHANGED <<list, score>>
    BY <1>5 DEF Redis!Crash
  <2>2. CASE hand[c] = {}
    <3>1. Redis!Parked' = Redis!Parked
      BY <1>0, <2>1, <2>2, SameParked DEF Copied
    <3> QED
      BY <2>1, <3>1 DEF QueueStep
  <2>3. ASSUME NEW j \in hand[c]
        PROVE  QueueStep(list, Redis!Parked, list', Redis!Parked')
    <3>1. /\ j \in Jobs /\ Copied(j) /\ score[j] = Redis!NotParked
          /\ \A d \in Clients : j \in hand[d] => c = d
          /\ \A k \in hand[c] : k = j
      BY <1>0, <2>3 DEF Copied, OnePlace, HandsFit
    <3>2. ~Copied(j)' /\ \A k \in Jobs : k # j => (Copied(k)' <=> Copied(k))
      BY <1>0, <2>1, <3>1 DEF Copied
    <3>3. Redis!Parked[j] > 0 /\ Redis!Parked' = [Redis!Parked EXCEPT ![j] = @ - 1]
      BY <3>1, <3>2, OneLess
    <3> QED
      BY <2>1, <3>1, <3>3 DEF QueueStep
  <2> QED
    BY <2>2, <2>3
<1>6. ASSUME NEW c \in Clients, NEW j \in Jobs, Redis!ZRem(c, j)
      PROVE  QueueStep(list, Redis!Parked, list', Redis!Parked')
  <2>1. /\ score' = [score EXCEPT ![j] = Redis!NotParked] /\ at[c] = "promote"
        /\ UNCHANGED list
        /\ \/ score[j] # Redis!NotParked /\ hand' = [hand EXCEPT ![c] = {j}]
           \/ score[j] = Redis!NotParked /\ UNCHANGED hand
    BY <1>6 DEF Redis!ZRem
  <2>2. hand[c] = {}
    BY <1>0, <2>1 DEF HandsFit
  <2>3. \A k \in Jobs : Copied(k)' <=> Copied(k)
    BY <1>0, <2>1, <2>2 DEF Copied
  <2>4. Redis!Parked' = Redis!Parked
    BY <2>3, SameParked
  <2> QED
    BY <2>1, <2>4 DEF QueueStep
<1>7. ASSUME NEW c \in Clients, NEW j \in Jobs, Redis!PushDue(c, j)
      PROVE  QueueStep(list, Redis!Parked, list', Redis!Parked')
  <2>1. /\ hand' = [hand EXCEPT ![c] = {}] /\ j \in hand[c]
        /\ list' = Append(list, j) /\ UNCHANGED score
    BY <1>7 DEF Redis!PushDue
  <2>2. /\ Copied(j) /\ score[j] = Redis!NotParked
        /\ \A d \in Clients : j \in hand[d] => c = d
        /\ \A k \in hand[c] : k = j
    BY <1>0, <2>1 DEF Copied, OnePlace, HandsFit
  <2>3. ~Copied(j)' /\ \A k \in Jobs : k # j => (Copied(k)' <=> Copied(k))
    BY <1>0, <2>1, <2>2 DEF Copied
  <2>4. Redis!Parked[j] > 0 /\ Redis!Parked' = [Redis!Parked EXCEPT ![j] = @ - 1]
    BY <2>2, <2>3, OneLess
  <2> QED
    BY <2>1, <2>4 DEF QueueStep
<1>8. CASE Redis!Tick
  <2>1. Redis!Parked' = Redis!Parked
    BY <1>8, SameParked DEF Redis!Tick, Copied
  <2> QED
    BY <1>8, <2>1 DEF QueueStep, Redis!Tick
<1> QED
  BY <1>1, <1>2, <1>3, <1>4, <1>5, <1>6, <1>7, <1>8 DEF Redis!Next

LEMMA MemorySteps ==
    ASSUME TypeOK, Memory!Next
    PROVE  QueueStep(ready, Memory!Parked, ready', Memory!Parked')
<1>0. /\ ready \in Seq(Jobs) /\ parked \in Seq(Nat \X Jobs) /\ now \in Nat
      /\ Delays \subseteq Nat
  BY QueueAssumption DEF TypeOK, Memory!TypeOK
<1>1. Memory!Parked = [k \in Jobs |-> CountIn(parked, k)]
  BY MemoryParked
<1>2. Memory!Parked' = [k \in Jobs |-> CountIn(parked', k)]
  BY MemoryParkedNext
<1>3. UNCHANGED parked => Memory!Parked' = Memory!Parked
  BY <1>1, <1>2
<1>4. ASSUME NEW j \in Jobs, Memory!Put(j)
      PROVE  QueueStep(ready, Memory!Parked, ready', Memory!Parked')
  <2>1. CASE ready' = Append(ready, j) /\ UNCHANGED parked
    BY <1>3, <2>1 DEF QueueStep
  <2>2. ASSUME NEW d \in Delays, parked' = Append(parked, <<now + d, j>>), UNCHANGED ready
        PROVE  QueueStep(ready, Memory!Parked, ready', Memory!Parked')
    <3>1. <<now + d, j>> \in Nat \X Jobs /\ <<now + d, j>>[2] = j
      BY <1>0
    <3>2. \A k \in Jobs :
            CountIn(parked', k) = CountIn(parked, k) + (IF <<now + d, j>>[2] = k THEN 1 ELSE 0)
      BY <1>0, <2>2, <3>1, AppendCounts
    <3>3. \A k \in Jobs : CountIn(parked, k) \in Nat
      BY <1>0, CountType
    <3>4. \A k \in Jobs : CountIn(parked', k) = IF k = j THEN CountIn(parked, k) + 1
                                                         ELSE CountIn(parked, k)
      BY <3>1, <3>2, <3>3
    <3>5. Memory!Parked' = [Memory!Parked EXCEPT ![j] = @ + 1]
      BY <1>1, <1>2, <3>4
    <3> QED
      BY <2>2, <3>5 DEF QueueStep
  <2> QED
    BY <1>4, <2>1, <2>2 DEF Memory!Put
<1>5. ASSUME NEW c \in Clients, Memory!PromoteFirst(c)
      PROVE  QueueStep(ready, Memory!Parked, ready', Memory!Parked')
  BY <1>5, FirstPromoted DEF QueueStep
<1>6. ASSUME NEW c \in Clients, Memory!PopLeft(c)
      PROVE  QueueStep(ready, Memory!Parked, ready', Memory!Parked')
  <2>1. /\ (ready # <<>> /\ ready' = Tail(ready)) \/ (ready = <<>> /\ ready' = ready)
        /\ Memory!Parked' = Memory!Parked
    BY <1>3, <1>6 DEF Memory!PopLeft
  <2>2. QueueStep(ready, Memory!Parked, ready', Memory!Parked)
    BY <1>0, <2>1, PopStep
  <2> QED
    BY <2>1, <2>2
<1>7. ASSUME UNCHANGED <<ready, parked>>
      PROVE  QueueStep(ready, Memory!Parked, ready', Memory!Parked')
  BY <1>3, <1>7 DEF QueueStep
<1> QED
  BY <1>4, <1>5, <1>6, <1>7 DEF Memory!Next, Memory!Acquire, Memory!Tick

\* The backend that was not chosen holds nothing (get_default_queue).
LEMMA RedisUnused ==
    ASSUME BackendsApart, backend # "redis"
    PROVE  list = <<>> /\ Redis!Parked = [j \in Jobs |-> 0]
<1>1. \A j \in Jobs : {c \in Clients : j \in hand[c]} = {} /\ score[j] = Redis!NotParked
  BY DEF BackendsApart
<1>2. Cardinality({}) = 0
  BY FS_EmptySet
<1>3. ASSUME NEW j \in Jobs
      PROVE  (IF score[j] = Redis!NotParked THEN 0 ELSE 1)
             + Redis!Cardinality({c \in Clients : j \in hand[c]}) = 0
  <2>1. {c \in Clients : j \in hand[c]} = {} /\ score[j] = Redis!NotParked
    BY <1>1
  <2>2. Redis!Cardinality({c \in Clients : j \in hand[c]}) = 0
    BY <1>2, <2>1, SameCount
  <2> QED
    BY <2>1, <2>2
<1> QED
  BY <1>3 DEF Redis!Parked, BackendsApart

LEMMA MemoryUnused ==
    ASSUME BackendsApart, backend # "memory"
    PROVE  ready = <<>> /\ Memory!Parked = [j \in Jobs |-> 0]
<1>1. parked = <<>> /\ Len(parked) = 0
  BY DEF BackendsApart
<1>2. \A j \in Jobs : {i \in 1..Len(parked) : parked[i][2] = j} = {}
  BY <1>1
<1>3. \A j \in Jobs : CountIn(parked, j) = 0
  BY <1>2, FS_EmptySet DEF CountIn
<1> QED
  BY <1>3, MemoryParked DEF BackendsApart

LEMMA BackendSteps ==
    ASSUME CopiesFit, BackendsApart, ParkedOnce, ParkedOnce', [Next]_vars
    PROVE  QueueStep(IF backend = "memory" THEN ready ELSE list,
                     IF backend = "memory" THEN Memory!Parked ELSE Redis!Parked,
                     IF backend' = "memory" THEN ready' ELSE list',
                     IF backend' = "memory" THEN Memory!Parked' ELSE Redis!Parked')
<1>1. CASE UseRedis
  <2>1. backend = "redis" /\ backend' = "redis"
    BY <1>1 DEF UseRedis
  <2>2. QueueStep(list, Redis!Parked, list', Redis!Parked')
    BY <1>1, RedisSteps DEF UseRedis
  <2> QED
    BY <2>1, <2>2
<1>2. CASE UseMemory
  <2>1. backend = "memory" /\ backend' = "memory"
    BY <1>2 DEF UseMemory
  <2>2. QueueStep(ready, Memory!Parked, ready', Memory!Parked')
    BY <1>2, MemorySteps DEF UseMemory, CopiesFit
  <2> QED
    BY <2>1, <2>2
<1>3. UNCHANGED <<redisVars, memoryVars>> =>
        /\ UNCHANGED <<list, ready>>
        /\ Redis!Parked' = Redis!Parked /\ Memory!Parked' = Memory!Parked
  BY DEF redisVars, memoryVars, Redis!Parked, Memory!Parked
<1>4. CASE GetDefaultQueue
  <2>1. backend = "none" /\ UNCHANGED <<redisVars, memoryVars>>
    BY <1>4 DEF GetDefaultQueue
  <2>2. /\ list = <<>> /\ Redis!Parked = [j \in Jobs |-> 0]
        /\ ready = <<>> /\ Memory!Parked = [j \in Jobs |-> 0]
    BY <2>1, RedisUnused, MemoryUnused
  <2> QED
    BY <1>3, <2>1, <2>2 DEF QueueStep
<1>5. CASE UNCHANGED vars
  <2>1. backend' = backend /\ UNCHANGED <<redisVars, memoryVars>>
    BY <1>5 DEF vars
  <2> QED
    BY <1>3, <2>1 DEF QueueStep
<1> QED
  BY <1>1, <1>2, <1>4, <1>5 DEF Next

\* Whichever backend get_default_queue picks, and although workers race through
\* Redis's two-command promotion and may die in it, the callers see the queue
\* of JobQueue: first in first out, a parked copy ready at most once, nothing
\* delivered that was not enqueued.
THEOREM BackendsImplementQueue == Spec => ImplementsQueue
<1>1. Init => Queue!QueueInit
  <2> SUFFICES ASSUME Init PROVE Queue!QueueInit
    OBVIOUS
  <2>1. backend = "none" /\ BackendsApart
    BY DEF Init, Redis!Init, Memory!Init, BackendsApart
  <2>2. list = <<>> /\ Redis!Parked = [j \in Jobs |-> 0]
    BY <2>1, RedisUnused
  <2> QED
    BY <2>1, <2>2 DEF Queue!QueueInit
<1>2. CopiesFit /\ BackendsApart /\ ParkedOnce /\ ParkedOnce' /\ [Next]_vars =>
        [Queue!QueueNext]_(Queue!queueVars)
  <2> SUFFICES ASSUME CopiesFit, BackendsApart, ParkedOnce, ParkedOnce', [Next]_vars
               PROVE  [Queue!QueueNext]_(Queue!queueVars)
    OBVIOUS
  <2> QED
    BY BackendSteps DEF QueueStep, Queue!QueueNext, Queue!queueVars, Queue!Enqueue, Queue!Park,
       Queue!Promote, Queue!Dequeue, Queue!Lose
<1> QED
  BY <1>1, <1>2, CopiesInvariant, ApartInvariant, RedisParked, RedisParkedNext, PTL
  DEF Spec, ImplementsQueue, Queue!QueueSpec
=============================================================================
