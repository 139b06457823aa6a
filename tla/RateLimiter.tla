---------------------------- MODULE RateLimiter -----------------------------
(***************************************************************************)
(* The sliding-window rate limiter (security/ratelimit.py) as the API's    *)
(* dependencies (apps/api/security.py) and the bot's guard use it.  Each   *)
(* process picks its backend once: Redis, shared, or its own memory.       *)
(*                                                                         *)
(* Time is counted in ticks.  Redis' pipeline is one step at the time its  *)
(* caller read the clock; what a refused caller does to Redis afterwards   *)
(* comes later.  All users share one client address.  Limits are positive. *)
(* Buckets have keys of their own, so one bucket is looked at at a time.   *)
(***************************************************************************)
EXTENDS Naturals, Sequences, FiniteSets
Seqs == INSTANCE SequencesExt

CONSTANTS Processes,        \* processes with a limiter of their own
          Clients,          \* users
          Calls,            \* requests in progress at the same time
          Limit,            \* RATE_LIMIT_..._PER_MINUTE
          Burst,            \* RATE_LIMIT_IP_BURST_MULTIPLIER
          WindowSeconds,    \* window_seconds
          Second,           \* ticks in a second
          MaxTrouble,       \* bound: failures of Redis and ticks that pass during a request
          MaxTime           \* bound: ticks

ASSUME RateAssumption == /\ IsFiniteSet(Calls)
                         /\ Limit \in Nat \ {0} /\ Burst \in Nat
                         /\ WindowSeconds \in Nat \ {0} /\ Second \in Nat \ {0}
                         /\ MaxTime \in Nat /\ MaxTrouble \in Nat

Never == MaxTime + (WindowSeconds + 1) * Second + 1

Ip == "ip"
Key == Clients \cup {Ip}
Buckets == {"api", "login", "bot"}

Redis == "redis"
Stores == Processes \cup {Redis}

VARIABLES
    bucket,      \* what is limited
    now,         \* ticks
    limiter,     \* per process: the store its limiter uses, "none" before its first use
    hits,        \* per store and key: <<time, user>> of the hits it holds, oldest first
    call,        \* per request in progress: where it is
    accepted,    \* history: per store and key, the hits it has let through in this window
    trouble,     \* failures of Redis and ticks that passed during a request, so far
    promise      \* history: per store and key, when a refused caller was told to come back

rateVars == <<bucket, now, limiter, hits, call, accepted, trouble, promise>>

Idle == [pc |-> "idle"]

\* Types; in particular a store's hits are in the order of their times.
RateTypeOK ==
    /\ bucket \in Buckets
    /\ now \in 0..MaxTime /\ trouble \in 0..MaxTrouble
    /\ limiter \in [Processes -> Stores \cup {"none"}]
    /\ \A p \in Processes : limiter[p] \in {"none", p, Redis}
    /\ \A s \in Stores, k \in Key :
          /\ \A i \in 1..Len(hits[s][k]) : hits[s][k][i] \in (0..MaxTime) \X Clients
          /\ Seqs!IsSorted(hits[s][k], LAMBDA g, h : g[1] <= h[1])
          /\ promise[s][k] \in 0..Never
    /\ \A c \in Calls : call[c].pc \in {"idle", "checking", "removing", "asking"}

RateInit ==
    /\ bucket \in Buckets
    /\ now = 0 /\ trouble = 0
    /\ limiter = [p \in Processes |-> "none"]
    /\ hits = [s \in Stores |-> [k \in Key |-> <<>>]]
    /\ call = [c \in Calls |-> Idle]
    /\ accepted = [s \in Stores |-> [k \in Key |-> <<>>]]
    /\ promise = [s \in Stores |-> [k \in Key |-> Never]]

\* Mutant: the shared key is counted before the user's own.
ChecksIpFirst(u) ==
    CASE bucket = "api" -> <<Ip, u>> [] bucket = "login" -> <<Ip>> [] bucket = "bot" -> <<u>>

\* The keys a request is checked against, in order: rate_limit, login_rate_limit
\* and the bot's guard.
Checks(u) ==
    CASE bucket = "api" -> <<u, Ip>> [] bucket = "login" -> <<Ip>> [] bucket = "bot" -> <<u>>

LimitOf(key) == IF bucket = "api" /\ key = Ip /\ Burst > 1 THEN Limit * Burst ELSE Limit

Window == WindowSeconds * Second

\* Whether a store still counts a hit at a time: memory keeps a hit of exactly
\* the window's age, Redis removes it.
Alive(s, h, t) == IF s = Redis THEN h[1] + Window > t ELSE h[1] + Window >= t

\* The hits left at a time: those at the front are dropped while they are old
\* (they are in the order of their times).
Left(s, q, t) ==
    LET n == CHOOSE i \in 0..Len(q) : /\ \A j \in 1..i : ~Alive(s, q[j], t)
                                      /\ i < Len(q) => Alive(s, q[i + 1], t)
    IN  SubSeq(q, n + 1, Len(q))

Live(s, q) == Left(s, q, now)

\* A request may be slow between any two of its steps.
Tick == /\ now < MaxTime
        /\ IF \A c \in Calls : call[c].pc = "idle" THEN UNCHANGED trouble
           ELSE trouble < MaxTrouble /\ trouble' = trouble + 1
        /\ now' = now + 1
        /\ accepted' = [s \in Stores |-> [k \in Key |-> Left(s, accepted[s][k], now')]]
        /\ UNCHANGED <<bucket, limiter, hits, call, promise>>

\* get_rate_limiter: the first use probes Redis; the choice is for good.
Choose(p) == /\ limiter[p] = "none"
             /\ limiter' \in {[limiter EXCEPT ![p] = s] : s \in {p, Redis}}
             /\ UNCHANGED <<bucket, now, hits, call, accepted, trouble, promise>>

Arrive(c, p, u) ==
    /\ call[c].pc = "idle"
    /\ limiter[p] # "none"
    /\ call' = [call EXCEPT ![c] = [pc |-> "checking", p |-> p, user |-> u,
                                    at |-> 0, todo |-> Checks(u)]]
    /\ UNCHANGED <<bucket, now, limiter, hits, accepted, trouble, promise>>

Store(c) == limiter[call[c].p]
KeyOf(c) == Head(call[c].todo)

\* The next key, or the request goes through.
Passed(c) == IF Len(call[c].todo) = 1 THEN Idle
             ELSE [call[c] EXCEPT !.todo = Tail(@)]

Allow(c) ==
    /\ accepted' = [accepted EXCEPT ![Store(c)][KeyOf(c)] = Append(@, <<now, call[c].user>>)]
    /\ promise' = [promise EXCEPT ![Store(c)][KeyOf(c)] = Never]
    /\ call' = [call EXCEPT ![c] = Passed(c)]

\* Mutant: the fraction of a second is lost.
RetryAfterTruncated(oldest, at) ==
    LET s == (oldest + Window - at) \div Second IN IF s < 1 THEN 1 ELSE s

\* retry_after, in seconds.
RetryAfter(oldest, at) == (oldest + Window - at) \div Second + 1

Earlier(a, b) == IF a < b THEN a ELSE b

\* 429 with Retry-After.
Refuse(c, seconds) ==
    /\ promise' = [promise EXCEPT ![Store(c)][KeyOf(c)] =
                                     Earlier(@, now + seconds * Second)]
    /\ call' = [call EXCEPT ![c] = Idle]

\* InMemoryRateLimiter.hit, under its lock.
MemoryHit(c) ==
    /\ call[c].pc = "checking" /\ Store(c) # Redis
    /\ LET q == Live(Store(c), hits[Store(c)][KeyOf(c)])
       IN  IF Len(q) >= LimitOf(KeyOf(c))
           THEN /\ hits' = [hits EXCEPT ![Store(c)][KeyOf(c)] = q]
                /\ Refuse(c, RetryAfter(q[1][1], now))
                /\ UNCHANGED accepted
           ELSE /\ hits' = [hits EXCEPT ![Store(c)][KeyOf(c)] =
                                           Append(q, <<now, call[c].user>>)]
                /\ Allow(c)
    /\ UNCHANGED <<bucket, now, limiter, trouble>>

\* The pipeline: drop, add the own hit, count.
Added(c) == Append(Live(Redis, hits[Redis][KeyOf(c)]), <<now, call[c].user>>)

\* Mutant: the own hit is not counted.
TooManyBefore(c) == Len(Added(c)) - 1 > LimitOf(KeyOf(c))

TooMany(c) == Len(Added(c)) > LimitOf(KeyOf(c))

\* RedisRateLimiter.hit up to pipe.execute().
RedisHit(c) ==
    /\ call[c].pc = "checking" /\ Store(c) = Redis
    /\ hits' = [hits EXCEPT ![Redis][KeyOf(c)] = Added(c)]
    /\ IF TooMany(c)
       THEN /\ call' = [call EXCEPT ![c].pc = "removing", ![c].at = now]
            /\ UNCHANGED <<accepted, promise>>
       ELSE Allow(c)
    /\ UNCHANGED <<bucket, now, limiter, trouble>>

\* The refused hit is taken back.
RedisRemove(c) ==
    /\ call[c].pc = "removing"
    /\ hits' = [hits EXCEPT ![Redis][KeyOf(c)] = Seqs!RemoveFirst(@, <<call[c].at, call[c].user>>)]
    /\ call' = [call EXCEPT ![c].pc = "asking"]
    /\ UNCHANGED <<bucket, now, limiter, accepted, trouble, promise>>

RedisOldest(c) ==
    /\ call[c].pc = "asking"
    /\ LET q == hits[Redis][KeyOf(c)]
       IN  Refuse(c, IF q = <<>> THEN 1 ELSE RetryAfter(q[1][1], call[c].at))
    /\ UNCHANGED <<bucket, now, limiter, hits, accepted, trouble>>

\* Redis fails in the middle of a hit: the request ends with an error, and the
\* store may keep a hit that let nothing through.
Fault(c) ==
    /\ call[c].pc # "idle" /\ Store(c) = Redis
    /\ trouble < MaxTrouble
    /\ trouble' = trouble + 1
    /\ call' = [call EXCEPT ![c] = Idle]
    /\ \/ UNCHANGED hits
       \/ call[c].pc = "checking" /\ hits' = [hits EXCEPT ![Redis][KeyOf(c)] = Added(c)]
    /\ UNCHANGED <<bucket, now, limiter, accepted, promise>>

RateNext ==
    \/ Tick
    \/ \E p \in Processes : Choose(p)
    \/ \E c \in Calls :
          \/ \E p \in Processes, u \in Clients : Arrive(c, p, u)
          \/ MemoryHit(c) \/ RedisHit(c) \/ RedisRemove(c) \/ RedisOldest(c) \/ Fault(c)
-----------------------------------------------------------------------------
(* Properties                                                              *)

\* No key ever lets more than its limit through in any window, whatever hits
\* are refused, taken back late or left behind (hit of both limiters).
WindowLimit ==
    \A s \in Stores, k \in Key : Len(Live(s, accepted[s][k])) <= LimitOf(k)

\* A caller that comes back when Retry-After has passed finds room, if nobody
\* was let in meanwhile and no refused hit is left in the store (retry_after).
RetryAfterHonest ==
    \A s \in Stores, k \in Key :
        /\ now >= promise[s][k]
        /\ Len(Live(s, hits[s][k])) = Len(Live(s, accepted[s][k]))
        => Len(Live(s, hits[s][k])) < LimitOf(k)

\* "One user hitting their limit never blocks a different user behind the same
\* IP": the shared key refuses only when the hits it counts are not all of one
\* user, although a request may be slow between its two checks (rate_limit).
OwnLimitOnly ==
    [][\A c \in Calls :
          /\ bucket = "api" /\ call[c].pc = "checking" /\ KeyOf(c) = Ip
          /\ call'[c].pc = "removing" \/ promise'[Store(c)][Ip] < promise[Store(c)][Ip]
          => \E i, j \in 1..Len(hits[Store(c)][Ip]) :
                hits[Store(c)][Ip][i][2] # hits[Store(c)][Ip][j][2]]_rateVars

\* A key lets through no more than its limit, and no less once the time it
\* named has passed (hit of both limiters).
LimiterKeepsWord == WindowLimit /\ RetryAfterHonest
=============================================================================
