------------------------ MODULE WatchMonitorProofs -------------------------
(***************************************************************************)
(* Proofs about WatchMonitor: types, that polls of an entry that do not    *)
(* overlap report a message at most once (SerialPollsReportOnce), and      *)
(* that a marker passes no message unreported unless an ingestion has      *)
(* stored a later one while it had no row (NothingSkipped).                *)
(***************************************************************************)
EXTENDS WatchMonitor, WellFoundedInduction, TLAPS

-----------------------------------------------------------------------------
(* Invariants                                                              *)

\* A poll holds a marker the entry had, what it fetched was posted, and the
\* marker it is about to write is no older than the one it read, above every
\* activity, and that of a message it stores.
PollsFit ==
    \A p \in Pollers :
        /\ fetched[p] \subseteq 1..posted
        /\ seen[p] > 0 => seen[p] \in stored
        /\ pc[p] = "commit" =>
              /\ seen[p] <= next[p]
              /\ next[p] > 0 => next[p] \in stored \cup fetched[p]
              /\ \A m \in news[p] : SeenMax(p) < m /\ m <= next[p]

\* While no two polls of an entry overlap, the one at work has read the marker
\* the entry still has, which is above everything reported.
SerialFits ==
    \A w \in Watches : ~overlapped[w] =>
        /\ \A p, q \in Pollers : watch[p] = w /\ watch[q] = w => p = q
        /\ \A p \in Pollers : watch[p] = w => seen[p] = marker[w]
        /\ \A m \in Msgs : reports[w][m] <= 1 /\ (Reported(w, m) => m <= marker[w])

\* Every message below one of S is in T.
Below(S, T) == \A k \in S : \A m \in Msgs : m < k => m \in T

\* What lies between rows, or between the marker a poll has read and the one it
\* will write, is stored, reported or jumped; what a marker has passed, the one
\* a poll has read included, is reported or jumped.
NoGaps ==
    /\ Below(stored, stored \cup jumped)
    /\ \A w \in Watches : fresh[w] \subseteq 1..posted
    /\ \A p \in Pollers :
          /\ pc[p] = "commit" =>
                /\ Below(fetched[p], stored \cup fetched[p] \cup missed[p] \cup jumped)
                /\ \A m \in Msgs : SeenMax(p) < m /\ m <= next[p] =>
                                     m \in news[p] \cup missed[p] \cup jumped
          /\ \A w \in Watches : watch[p] = w =>
                \A m \in fresh[w] : m <= seen[p] /\ m \notin jumped => Reported(w, m)
    /\ NothingSkipped
-----------------------------------------------------------------------------
(* The newest of a set of messages                                         *)

Less == {ss \in Nat \X Nat : ss[1] < ss[2]}

LEMMA LessIsWellFounded == IsWellFoundedOn(Less, Nat)
BY ONLY NatLessThanWellFounded, Zenon DEF OpToRel, Less

\* Max is defined: the distances to the bound have a least element.
LEMMA MaxFacts ==
    ASSUME NEW n \in Nat, NEW S \in SUBSET (0..n), S # {}
    PROVE  Max(S) \in S /\ \A y \in S : y <= Max(S)
<1> DEFINE D == {k \in Nat : n - k \in S}
<1>1. D \in SUBSET Nat /\ D # {}
  <2>1. PICK y \in S : TRUE
    OBVIOUS
  <2>2. n - y \in Nat /\ n - (n - y) = y
    OBVIOUS
  <2> QED
    BY <2>1, <2>2
<1>2. PICK k \in D : \A l \in D : ~(<<l, k>> \in Less)
  <2> HIDE DEF D
  <2> QED
    BY <1>1, LessIsWellFounded, WFMin
<1>3. \A y \in S : n - y \in D
  <2> TAKE y \in S
  <2>1. n - y \in Nat /\ n - (n - y) = y
    OBVIOUS
  <2> QED
    BY <2>1
<1>4. \A y \in S : n - k >= y
  <2> TAKE y \in S
  <2>1. n - y \in Nat /\ ~(n - y < k)
    BY <1>2, <1>3 DEF Less
  <2> QED
    BY <2>1
<1>5. \E x \in S : \A y \in S : x >= y
  BY <1>4
<1>6. Max(S) \in S /\ \A y \in S : Max(S) >= y
  BY <1>5, Zenon DEF Max
<1> QED
  BY <1>6

-----------------------------------------------------------------------------
(* Types                                                                   *)

LEMMA WindowFits ==
    ASSUME TypeOK
    PROVE  /\ Window \subseteq 1..posted /\ Window \subseteq Msgs
           /\ posted \in Nat /\ MaxMsgs \in Nat /\ posted <= MaxMsgs
           /\ stored \subseteq 1..posted /\ stored \subseteq Msgs
BY WatchBounds DEF TypeOK, Window, Msgs

LEMMA GapFits ==
    ASSUME TypeOK, NEW rows, NEW new
    PROVE  Gap(rows, new) \subseteq Msgs /\ Gap(rows, new) \subseteq 1..posted
BY WindowFits DEF Gap, Msgs

\* The marker a poll computes from what it found.
LEMMA NextFits ==
    ASSUME TypeOK, PollsFit, NEW p \in Pollers, NEW new \in SUBSET fetched[p]
    PROVE  LET rows == stored \cup new
               top == Max(rows \cup {SeenMax(p)})
           IN  /\ rows \subseteq Msgs /\ SeenMax(p) \in 0..MaxMsgs
               /\ top \in rows \cup {SeenMax(p)} /\ top \in 0..MaxMsgs
               /\ \A m \in rows \cup {SeenMax(p)} : m <= top
<1> DEFINE rows == stored \cup new
           all == rows \cup {SeenMax(p)}
<1>1. SeenMax(p) \in 0..MaxMsgs
  <2>1. seen[p] \in Marker /\ MaxMsgs \in Nat
    BY WatchBounds DEF TypeOK
  <2> QED
    BY <2>1 DEF SeenMax, Marker, Null
<1>2. rows \subseteq Msgs
  BY WindowFits DEF TypeOK
<1>3. all \in SUBSET (0..MaxMsgs) /\ all # {} /\ MaxMsgs \in Nat
  BY <1>1, <1>2, WatchBounds DEF Msgs
<1>4. Max(all) \in all /\ \A y \in all : y <= Max(all)
  <2> HIDE DEF all
  <2> QED
    BY <1>3, MaxFacts
<1> QED
  BY <1>1, <1>2, <1>3, <1>4

LEMMA UntouchedTyped ==
    ASSUME TypeOK, NEW p \in Pollers
    PROVE  Untouched(p) \in Marker
<1>1. seen[p] \in Marker /\ Empty \in Marker
  BY WatchBounds DEF TypeOK, Marker, Null, Empty
<1> QED
  BY <1>1 DEF Untouched

LEMMA BeginTyped ==
    ASSUME TypeOK, NEW p \in Pollers, NEW w \in Watches, Begin(p, w)
    PROVE  /\ pc' \in [Pollers -> {"idle", "collect", "ingest", "commit"}]
           /\ watch' \in [Pollers -> Watches \cup {NoWatch}]
           /\ \A q \in Pollers : pc'[q] = "idle" <=> watch'[q] = NoWatch
           /\ seen' \in [Pollers -> Marker]
           /\ overlapped' \in [Watches -> BOOLEAN]
           /\ UNCHANGED <<fetched, news, next, missed>>
<1>1. /\ pc' \in [Pollers -> {"idle", "collect", "ingest", "commit"}]
      /\ watch' \in [Pollers -> Watches \cup {NoWatch}]
      /\ seen' \in [Pollers -> Marker]
      /\ UNCHANGED <<fetched, news, next, missed>>
  BY DEF Begin, TypeOK
<1>2. \A q \in Pollers : pc'[q] = "idle" <=> watch'[q] = NoWatch
  BY WatchesAssumption DEF Begin, TypeOK
<1>3. overlapped' \in [Watches -> BOOLEAN]
  <2> DEFINE b == overlapped[w] \/ \E q \in Pollers : watch[q] = w
  <2>1. b \in BOOLEAN /\ overlapped \in [Watches -> BOOLEAN]
    BY Zenon DEF TypeOK
  <2>2. overlapped' = [overlapped EXCEPT ![w] = b]
    BY DEF Begin
  <2> HIDE DEF b
  <2> QED
    BY <2>1, <2>2
<1> QED
  BY <1>1, <1>2, <1>3

LEMMA EndTyped ==
    ASSUME TypeOK, NEW p \in Pollers, End(p)
    PROVE  /\ pc' \in [Pollers -> {"idle", "collect", "ingest", "commit"}]
           /\ watch' \in [Pollers -> Watches \cup {NoWatch}]
           /\ \A q \in Pollers : pc'[q] = "idle" <=> watch'[q] = NoWatch
           /\ seen' \in [Pollers -> Marker] /\ next' \in [Pollers -> Marker]
           /\ fetched' \in [Pollers -> SUBSET Msgs] /\ news' \in [Pollers -> SUBSET Msgs]
           /\ missed' \in [Pollers -> SUBSET Msgs]
<1>1. Null \in Marker
  BY WatchBounds DEF Null, Marker
<1> QED
  BY <1>1 DEF End, TypeOK

LEMMA Typed ==
    ASSUME TypeOK, PollsFit, Next
    PROVE  TypeOK'
<1>0. /\ posted \in Nat /\ MaxMsgs \in Nat /\ MaxFaults \in Nat /\ faults \in Nat
      /\ stored \subseteq 1..posted /\ Window \subseteq 1..posted
      /\ \A w \in Watches : marker[w] > 0 => marker[w] \in stored
      /\ queue \in Seq(Watches)
  BY WindowFits, WatchBounds DEF TypeOK
<1>1. CASE Publish
  <2>1. fresh' \in [Watches -> SUBSET Msgs]
    <3>1. posted + 1 \in Msgs
      BY <1>0, <1>1 DEF Publish, Msgs
    <3> QED
      BY <1>1, <3>1 DEF Publish, TypeOK
  <2>2. posted' \in 0..MaxMsgs /\ stored' \subseteq 1..(posted')
    BY <1>0, <1>1 DEF Publish, TypeOK
  <2> QED
    BY <1>1, <2>1, <2>2 DEF Publish, TypeOK, entryVars, schedVars, pollVars
<1>2. CASE OtherIngest
  <2>1. PICK hits \in SUBSET (Searchable \cap 1..posted) :
              /\ stored' = stored \cup hits
              /\ jumped' = jumped \cup Gap(stored \cup hits, hits)
    BY <1>2 DEF OtherIngest
  <2>2. stored' \subseteq 1..posted /\ stored \subseteq stored' /\ jumped' \subseteq Msgs
    <3>1. jumped \subseteq Msgs
      BY DEF TypeOK
    <3> QED
      BY <1>0, <2>1, <3>1, GapFits
  <2>3. UNCHANGED <<posted, entryVars, queue, schedVars, pollVars, reports, overlapped,
                    fresh, faults>>
    BY <1>2 DEF OtherIngest
  <2> QED
    BY <1>0, <2>2, <2>3 DEF TypeOK, entryVars, schedVars, pollVars
<1>3. ASSUME NEW w \in Watches, Age(w) \/ Toggle(w)
      PROVE  TypeOK'
  BY <1>3 DEF Age, Toggle, TypeOK, entryVars, schedVars, pollVars, historyVars
<1>4. ASSUME NEW s \in Schedulers, SchedRead(s)
      PROVE  TypeOK'
  <2>1. batch' \in [Schedulers -> SUBSET Watches]
    BY <1>4 DEF SchedRead, TypeOK
  <2>2. spc' \in [Schedulers -> {"idle", "stamp", "enqueue"}]
    BY <1>4 DEF SchedRead, TypeOK
  <2> QED
    BY <1>4, <2>1, <2>2 DEF SchedRead, TypeOK, entryVars, pollVars, historyVars
<1>5. ASSUME NEW s \in Schedulers, SchedCommit(s)
      PROVE  TypeOK'
  <2>1. due' \in [Watches -> BOOLEAN]
    BY <1>5 DEF SchedCommit, TypeOK
  <2> QED
    BY <1>5, <2>1 DEF SchedCommit, TypeOK, entryVars, schedVars, pollVars, historyVars
<1>6. ASSUME NEW s \in Schedulers, SchedEnqueue(s)
      PROVE  TypeOK'
  <2>1. PICK w \in batch[s] :
              /\ queue' = Append(queue, w)
              /\ batch' = [batch EXCEPT ![s] = @ \ {w}]
              /\ spc' = [spc EXCEPT ![s] = IF batch[s] = {w} THEN "idle" ELSE @]
    BY <1>6 DEF SchedEnqueue
  <2>2. w \in Watches
    BY DEF TypeOK
  <2>3. queue' \in Seq(Watches)
    BY <1>0, <2>1, <2>2
  <2>4. batch' \in [Schedulers -> SUBSET Watches] /\ spc' \in [Schedulers -> {"idle", "stamp", "enqueue"}]
    BY <2>1 DEF TypeOK
  <2> QED
    BY <1>6, <2>3, <2>4 DEF SchedEnqueue, TypeOK, entryVars, pollVars, historyVars
<1>7. ASSUME NEW s \in Schedulers, SchedFault(s)
      PROVE  TypeOK'
  <2>1. faults' \in 0..MaxFaults
    BY <1>0, <1>7 DEF SchedFault
  <2> QED
    BY <1>7, <2>1 DEF SchedFault, TypeOK, entryVars, pollVars, historyVars
<1>8. ASSUME NEW p \in Pollers, RunWatchPoll(p)
      PROVE  TypeOK'
  <2>1. Head(queue) \in Watches /\ queue' \in Seq(Watches)
    BY <1>0, <1>8 DEF RunWatchPoll
  <2>2. CASE Begin(p, Head(queue))
    <3> DEFINE w == Head(queue)
    <3>1. w \in Watches /\ Begin(p, w)
      BY <2>1, <2>2
    <3> HIDE DEF w
    <3> QED
      BY <1>8, <2>1, <3>1, BeginTyped DEF RunWatchPoll, TypeOK, entryVars, schedVars
  <2>3. CASE UNCHANGED <<pollVars, overlapped>>
    BY <1>8, <2>1, <2>3 DEF RunWatchPoll, TypeOK, entryVars, schedVars, pollVars
  <2> QED
    BY <1>8, <2>2, <2>3 DEF RunWatchPoll
<1>9. ASSUME NEW p \in Pollers, NEW w \in Watches, PollNow(p, w)
      PROVE  TypeOK'
  BY <1>9, BeginTyped DEF PollNow, TypeOK, entryVars, schedVars
<1>10. ASSUME NEW p \in Pollers, Collect(p)
       PROVE  TypeOK'
  <2>1. Untouched(p) \in Marker
    BY <1>0, UntouchedTyped
  <2>2. Window \subseteq Msgs
    BY WindowFits
  <2>4. fetched' \in [Pollers -> SUBSET Msgs] /\ news' \in [Pollers -> SUBSET Msgs]
    <3>1. \E a \in SUBSET Msgs : fetched' = [fetched EXCEPT ![p] = a]
      BY <1>10, <2>2 DEF Collect
    <3>2. news' = news \/ news' = [news EXCEPT ![p] = {}]
      BY <1>10 DEF Collect
    <3> QED
      BY <3>1, <3>2 DEF TypeOK
  <2>5. next' \in [Pollers -> Marker]
    BY <1>10, <2>1 DEF Collect, TypeOK
  <2>3. /\ pc' \in [Pollers -> {"idle", "collect", "ingest", "commit"}]
        /\ \A q \in Pollers : pc'[q] = "idle" <=> watch[q] = NoWatch
    BY <1>10 DEF Collect, TypeOK
  <2> QED
    BY <1>10, <2>3, <2>4, <2>5 DEF Collect, TypeOK, entryVars, schedVars, historyVars
<1>11. ASSUME NEW p \in Pollers, Ingest(p)
       PROVE  TypeOK'
  <2>1. Untouched(p) \in Marker
    BY <1>0, UntouchedTyped
  <2>2. PICK bad \in SUBSET fetched[p] :
              LET rows == stored \cup (fetched[p] \ bad)
              IN  /\ \/ bad = {} /\ UNCHANGED faults
                     \/ bad # {} /\ faults < MaxFaults /\ faults' = faults + 1
                  /\ fetched' = [fetched EXCEPT ![p] = @ \cap rows]
                  /\ missed' = [missed EXCEPT ![p] = Gap(rows, fetched[p] \ bad)]
                  /\ \/ /\ news' = [news EXCEPT ![p] = Newer(p, rows)]
                        /\ next' = [next EXCEPT ![p] = Max(rows \cup {SeenMax(p)})]
                     \/ /\ news' = [news EXCEPT ![p] = {}]
                        /\ next' = [next EXCEPT ![p] = Untouched(p)]
    BY <1>11, Zenon DEF Ingest
  <2> DEFINE rows == stored \cup (fetched[p] \ bad)
             top == Max(rows \cup {SeenMax(p)})
  <2>3. top \in Marker /\ Newer(p, rows) \subseteq Msgs
    <3>1. top \in 0..MaxMsgs /\ rows \subseteq Msgs
      BY NextFits
    <3> QED
      BY <1>0, <3>1 DEF Marker, Null, Newer
  <2>4. faults' \in 0..MaxFaults
    BY <1>0, <2>2 DEF TypeOK
  <2>5. fetched' \in [Pollers -> SUBSET Msgs]
    BY <2>2 DEF TypeOK
  <2>6. missed' \in [Pollers -> SUBSET Msgs]
    <3>1. Gap(rows, fetched[p] \ bad) \subseteq Msgs
      BY GapFits
    <3> QED
      BY <2>2, <3>1 DEF TypeOK
  <2> HIDE DEF top
  <2>7. news' \in [Pollers -> SUBSET Msgs] /\ next' \in [Pollers -> Marker]
    <3>1. news' = [news EXCEPT ![p] = Newer(p, rows)] \/ news' = [news EXCEPT ![p] = {}]
      BY <2>2
    <3>2. next' = [next EXCEPT ![p] = top] \/ next' = [next EXCEPT ![p] = Untouched(p)]
      BY <2>2 DEF top
    <3>3. news' \in [Pollers -> SUBSET Msgs]
      BY <2>3, <3>1 DEF TypeOK
    <3>4. next' \in [Pollers -> Marker]
      <4> HIDE DEF rows
      <4> QED
        BY <2>1, <2>3, <3>2 DEF TypeOK
    <3> QED
      BY <3>3, <3>4
  <2>8. /\ pc' \in [Pollers -> {"idle", "collect", "ingest", "commit"}]
        /\ \A q \in Pollers : pc'[q] = "idle" <=> watch[q] = NoWatch
    BY <1>11 DEF Ingest, TypeOK
  <2>9. UNCHANGED <<posted, stored, entryVars, queue, schedVars, watch, seen, historyVars>>
    BY <1>11 DEF Ingest
  <2> QED
    BY <2>4, <2>5, <2>6, <2>7, <2>8, <2>9 DEF TypeOK, entryVars, schedVars, historyVars
<1>12. ASSUME NEW p \in Pollers, Commit(p)
       PROVE  TypeOK'
  <2>0. watch[p] \in Watches
    BY <1>12 DEF Commit, TypeOK
  <2>1. stored' \subseteq 1..posted /\ stored \subseteq stored' /\ stored' = stored \cup fetched[p]
    BY <1>0, <1>12 DEF Commit, PollsFit
  <2>2. /\ marker' \in [Watches -> Marker]
        /\ \A w \in Watches : marker'[w] > 0 => marker'[w] \in stored'
    BY <1>0, <1>12, <2>0, <2>1 DEF Commit, StoreMarker, TypeOK, PollsFit
  <2>3. reports' \in [Watches -> [Msgs -> 0..2]]
    <3> DEFINE r == [m \in Msgs |-> IF m \in news[p] /\ reports[watch[p]][m] < 2
                                    THEN reports[watch[p]][m] + 1 ELSE reports[watch[p]][m]]
    <3>1. r \in [Msgs -> 0..2]
      BY <2>0 DEF TypeOK
    <3>2. reports' = [reports EXCEPT ![watch[p]] = r]
      BY <1>12 DEF Commit, Report
    <3> HIDE DEF r
    <3> QED
      BY <2>0, <3>1, <3>2 DEF TypeOK
  <2>4. due' \in [Watches -> BOOLEAN]
    BY <1>12 DEF Commit, TypeOK
  <2>5. jumped' \subseteq Msgs
    BY <1>12 DEF Commit, TypeOK
  <2> QED
    BY <1>12, <2>1, <2>2, <2>3, <2>4, <2>5, EndTyped DEF Commit, TypeOK, schedVars
<1>13. ASSUME NEW p \in Pollers, PollFault(p)
       PROVE  TypeOK'
  <2>1. faults' \in 0..MaxFaults
    BY <1>0, <1>13 DEF PollFault
  <2>2. queue' \in Seq(Watches)
    <3>1. watch[p] \in Watches
      BY <1>13 DEF PollFault, TypeOK
    <3> QED
      BY <1>0, <1>13, <3>1 DEF PollFault
  <2> QED
    BY <1>13, <2>1, <2>2, EndTyped DEF PollFault, TypeOK, entryVars, schedVars, historyVars
<1> QED
  BY <1>1, <1>2, <1>3, <1>4, <1>5, <1>6, <1>7, <1>8, <1>9, <1>10, <1>11, <1>12, <1>13
  DEF Next, SchedStep, PollStep
-----------------------------------------------------------------------------
(* Markers                                                                 *)

\* Steps of the scheduler, the clock and the user, and polls that are skipped.
Aside == UNCHANGED <<posted, stored, marker, pollVars, historyVars>>

\* A poll begins, from the queue or from a request.
Begins(p, w) == /\ Begin(p, w)
                /\ pc[p] = "idle"
                /\ UNCHANGED <<posted, stored, marker, reports, fresh, jumped>>

LEMMA PollSteps ==
    ASSUME TypeOK, [Next]_vars
    PROVE  \/ Aside \/ Publish \/ OtherIngest
           \/ \E p \in Pollers : Collect(p) \/ Ingest(p) \/ Commit(p) \/ PollFault(p)
           \/ \E p \in Pollers, w \in Watches : Begins(p, w)
<1>1. ASSUME NEW w \in Watches, Age(w) \/ Toggle(w)
      PROVE  Aside
  BY <1>1 DEF Age, Toggle, Aside
<1>2. ASSUME NEW s \in Schedulers, SchedStep(s) \/ SchedFault(s)
      PROVE  Aside
  BY <1>2 DEF SchedStep, SchedRead, SchedCommit, SchedEnqueue, SchedFault, Aside, entryVars
<1>3. ASSUME NEW p \in Pollers, RunWatchPoll(p)
      PROVE  Aside \/ \E w \in Watches : Begins(p, w)
  <2>1. Head(queue) \in Watches
    BY <1>3 DEF RunWatchPoll, TypeOK
  <2>2. Aside \/ Begins(p, Head(queue))
    BY <1>3 DEF RunWatchPoll, Aside, Begins, entryVars, historyVars
  <2> QED
    BY <2>1, <2>2
<1>4. ASSUME NEW p \in Pollers, NEW w \in Watches, PollNow(p, w)
      PROVE  Begins(p, w)
  BY <1>4 DEF PollNow, Begins, entryVars
<1>5. CASE UNCHANGED vars
  BY <1>5 DEF vars, Aside, entryVars
<1> QED
  BY <1>1, <1>2, <1>3, <1>4, <1>5 DEF Next, PollStep

LEMMA SeenMaxFacts ==
    ASSUME TypeOK, NEW p \in Pollers
    PROVE  /\ SeenMax(p) \in Nat /\ seen[p] \in Int /\ seen[p] <= SeenMax(p)
           /\ seen[p] > 0 => SeenMax(p) = seen[p]
           /\ seen[p] <= 0 => SeenMax(p) = 0
           /\ Untouched(p) \in Int /\ seen[p] <= Untouched(p)
           /\ Untouched(p) > 0 => Untouched(p) = seen[p]
           /\ \A m \in Msgs : m <= Untouched(p) <=> m <= seen[p]
           /\ seen[p] >= Null
<1>1. seen[p] \in Int /\ seen[p] >= -2 /\ Msgs \subseteq Nat \ {0}
  BY WatchBounds DEF TypeOK, Marker, Null, Msgs
<1> QED
  BY <1>1 DEF SeenMax, Untouched, Null, Empty

\* Only its own steps move what a poll has read and found.
LEMMA OthersStay ==
    ASSUME TypeOK, NEW p \in Pollers, NEW q \in Pollers, p # q,
           Collect(p) \/ Ingest(p) \/ Commit(p) \/ PollFault(p) \/ \E w \in Watches : Begins(p, w)
    PROVE  /\ fetched'[q] = fetched[q] /\ seen'[q] = seen[q] /\ pc'[q] = pc[q]
           /\ next'[q] = next[q] /\ news'[q] = news[q] /\ watch'[q] = watch[q]
           /\ missed'[q] = missed[q]
           /\ SeenMax(q)' = SeenMax(q)
<1>1. /\ fetched'[q] = fetched[q] /\ seen'[q] = seen[q] /\ pc'[q] = pc[q]
      /\ next'[q] = next[q] /\ news'[q] = news[q] /\ watch'[q] = watch[q]
      /\ missed'[q] = missed[q]
  <2>1. CASE Collect(p)
    BY <2>1 DEF Collect, TypeOK
  <2>2. CASE Ingest(p)
    BY <2>2 DEF Ingest, TypeOK
  <2>3. CASE End(p)
    BY <2>3 DEF End, TypeOK
  <2>4. CASE \E w \in Watches : Begins(p, w)
    BY <2>4 DEF Begins, Begin, TypeOK
  <2> QED
    BY <2>1, <2>2, <2>3, <2>4 DEF Commit, PollFault
<1> QED
  BY <1>1 DEF SeenMax

LEMMA EndFacts ==
    ASSUME TypeOK, NEW p \in Pollers, End(p)
    PROVE  /\ fetched'[p] = {} /\ seen'[p] = Null /\ pc'[p] = "idle"
           /\ watch'[p] = NoWatch
BY DEF End, TypeOK

LEMMA BeginFacts ==
    ASSUME TypeOK, NEW p \in Pollers, NEW w \in Watches, Begin(p, w)
    PROVE  /\ fetched'[p] = fetched[p] /\ seen'[p] = marker[w] /\ pc'[p] = "collect"
           /\ watch'[p] = w
BY DEF Begin, TypeOK

LEMMA CollectFacts ==
    ASSUME TypeOK, NEW p \in Pollers, Collect(p)
    PROVE  /\ fetched'[p] = {} \/ fetched'[p] = Window
           /\ seen' = seen /\ watch' = watch /\ SeenMax(p)' = SeenMax(p)
           /\ \/ pc'[p] = "ingest"
              \/ /\ pc'[p] = "commit" /\ fetched'[p] = {} /\ news'[p] = {}
                 /\ next'[p] = Untouched(p)
           /\ UNCHANGED <<posted, stored, marker, historyVars>>
<1>1. /\ seen' = seen /\ watch' = watch
      /\ UNCHANGED <<posted, stored, marker, historyVars>>
  BY DEF Collect, entryVars
<1>2. fetched'[p] = {} \/ fetched'[p] = Window
  BY DEF Collect, TypeOK
<1>3. \/ pc'[p] = "ingest"
      \/ /\ pc'[p] = "commit" /\ fetched'[p] = {} /\ news'[p] = {}
         /\ next'[p] = Untouched(p)
  BY DEF Collect, TypeOK
<1> QED
  BY <1>1, <1>2, <1>3 DEF SeenMax

LEMMA IngestFacts ==
    ASSUME TypeOK, NEW p \in Pollers, Ingest(p)
    PROVE  /\ pc'[p] = "commit" /\ SeenMax(p)' = SeenMax(p)
           /\ seen' = seen /\ watch' = watch
           /\ UNCHANGED <<posted, stored, marker, historyVars>>
           /\ \E new \in SUBSET fetched[p] :
                 /\ fetched'[p] = fetched[p] \cap (stored \cup new)
                 /\ missed'[p] = Gap(stored \cup new, new)
                 /\ \/ /\ news'[p] = Newer(p, stored \cup new)
                       /\ next'[p] = Max((stored \cup new) \cup {SeenMax(p)})
                    \/ /\ news'[p] = {} /\ next'[p] = Untouched(p)
<1>1. PICK bad \in SUBSET fetched[p] :
           LET rows == stored \cup (fetched[p] \ bad)
           IN  /\ fetched' = [fetched EXCEPT ![p] = @ \cap rows]
               /\ missed' = [missed EXCEPT ![p] = Gap(rows, fetched[p] \ bad)]
               /\ \/ /\ news' = [news EXCEPT ![p] = Newer(p, rows)]
                     /\ next' = [next EXCEPT ![p] = Max(rows \cup {SeenMax(p)})]
                  \/ /\ news' = [news EXCEPT ![p] = {}]
                     /\ next' = [next EXCEPT ![p] = Untouched(p)]
  BY Zenon DEF Ingest
<1> DEFINE new == fetched[p] \ bad
<1>2. /\ seen' = seen /\ watch' = watch /\ pc'[p] = "commit"
      /\ UNCHANGED <<posted, stored, marker, historyVars>>
  BY DEF Ingest, entryVars, TypeOK
<1>3. fetched'[p] = fetched[p] \cap (stored \cup new) /\ missed'[p] = Gap(stored \cup new, new)
  BY <1>1 DEF TypeOK
<1>4. \/ /\ news'[p] = Newer(p, stored \cup new)
         /\ next'[p] = Max((stored \cup new) \cup {SeenMax(p)})
      \/ /\ news'[p] = {} /\ next'[p] = Untouched(p)
  BY <1>1 DEF TypeOK
<1>5. new \in SUBSET fetched[p]
  OBVIOUS
<1> HIDE DEF new
<1> QED
  BY <1>2, <1>3, <1>4, <1>5 DEF SeenMax

PollFits(p) ==
    /\ fetched[p] \subseteq 1..posted
    /\ seen[p] > 0 => seen[p] \in stored
    /\ pc[p] = "commit" =>
          /\ seen[p] <= next[p]
          /\ next[p] > 0 => next[p] \in stored \cup fetched[p]
          /\ \A m \in news[p] : SeenMax(p) < m /\ m <= next[p]

LEMMA PollsStayFit ==
    ASSUME TypeOK, TypeOK', PollsFit, [Next]_vars
    PROVE  PollsFit'
<1>0. /\ posted \in Nat /\ Window \subseteq 1..posted
      /\ \A w \in Watches : marker[w] > 0 => marker[w] \in stored
      /\ \A q \in Pollers : PollFits(q)
  BY WindowFits DEF TypeOK, PollsFit, PollFits
<1> SUFFICES ASSUME NEW q \in Pollers
             PROVE  PollFits(q)'
  BY DEF PollsFit, PollFits
<1>1. CASE Aside
  BY <1>0, <1>1 DEF Aside, PollFits, pollVars, SeenMax
<1>2. CASE Publish
  BY <1>0, <1>2 DEF Publish, PollFits, pollVars, SeenMax
<1>3. CASE OtherIngest
  BY <1>0, <1>3 DEF OtherIngest, PollFits, pollVars, SeenMax
<1>4. ASSUME NEW p \in Pollers, NEW w \in Watches, Begins(p, w)
      PROVE  PollFits(q)'
  <2>1. CASE p = q
    BY <1>0, <1>4, <2>1, BeginFacts DEF Begins, PollFits
  <2>2. CASE p # q
    BY <1>0, <1>4, <2>2, OthersStay DEF Begins, PollFits
  <2> QED
    BY <2>1, <2>2
<1>5. ASSUME NEW p \in Pollers, Collect(p)
      PROVE  PollFits(q)'
  <2>0. UNCHANGED <<posted, stored>>
    BY <1>5 DEF Collect
  <2>1. CASE p = q
    BY <1>0, <1>5, <2>0, <2>1, CollectFacts, SeenMaxFacts DEF PollFits
  <2>2. CASE p # q
    BY <1>0, <1>5, <2>0, <2>2, OthersStay DEF PollFits
  <2> QED
    BY <2>1, <2>2
<1>6. ASSUME NEW p \in Pollers, Ingest(p)
      PROVE  PollFits(q)'
  <2>0. UNCHANGED <<posted, stored>>
    BY <1>6 DEF Ingest
  <2>1. CASE p = q
    <3>0. PICK new \in SUBSET fetched[p] :
                /\ fetched'[p] = fetched[p] \cap (stored \cup new)
                /\ \/ /\ news'[p] = Newer(p, stored \cup new)
                      /\ next'[p] = Max((stored \cup new) \cup {SeenMax(p)})
                   \/ /\ news'[p] = {} /\ next'[p] = Untouched(p)
      BY <1>6, IngestFacts
    <3>3. seen'[p] = seen[p] /\ SeenMax(p)' = SeenMax(p)
      BY <1>6, IngestFacts
    <3>1. CASE news'[p] = {} /\ next'[p] = Untouched(p)
      BY <1>0, <2>0, <2>1, <3>0, <3>1, <3>3, SeenMaxFacts DEF PollFits
    <3>2. CASE /\ news'[p] = Newer(p, stored \cup new)
               /\ next'[p] = Max((stored \cup new) \cup {SeenMax(p)})
      <4> DEFINE rows == stored \cup new
                 top == Max(rows \cup {SeenMax(p)})
      <4>1. /\ SeenMax(p) \in 0..MaxMsgs /\ rows \subseteq Msgs
            /\ top \in rows \cup {SeenMax(p)} /\ top \in 0..MaxMsgs
            /\ \A m \in rows \cup {SeenMax(p)} : m <= top
        BY NextFits
      <4>2. /\ seen[p] \in Int /\ seen[p] <= SeenMax(p) /\ SeenMax(p) \in Nat
            /\ seen[p] > 0 => SeenMax(p) = seen[p]
            /\ seen[p] <= 0 => SeenMax(p) = 0
        BY SeenMaxFacts
      <4> HIDE DEF top
      <4>3. seen[p] <= top
        BY <4>1, <4>2
      <4>4. top > 0 => top \in rows
        BY <1>0, <4>1, <4>2 DEF PollFits
      <4>5. \A m \in Newer(p, rows) : SeenMax(p) < m /\ m <= top
        BY <4>1, <4>2 DEF Newer, Msgs
      <4>6. next'[p] = top
        BY <3>2 DEF top
      <4>7. fetched'[p] \subseteq 1..posted /\ rows \subseteq stored \cup fetched'[p]
        BY <1>0, <3>0 DEF PollFits
      <4> QED
        BY <1>0, <2>0, <2>1, <3>2, <3>3, <4>3, <4>4, <4>5, <4>6, <4>7 DEF PollFits
    <3> QED
      BY <3>0, <3>1, <3>2
  <2>2. CASE p # q
    BY <1>0, <1>6, <2>0, <2>2, OthersStay DEF PollFits
  <2> QED
    BY <2>1, <2>2
<1>7. ASSUME NEW p \in Pollers, Commit(p) \/ PollFault(p)
      PROVE  PollFits(q)'
  <2>0. End(p) /\ posted' = posted /\ stored \subseteq stored'
    BY <1>7 DEF Commit, PollFault
  <2>1. CASE p = q
    BY <2>0, <2>1, EndFacts DEF PollFits, Null
  <2>2. CASE p # q
    BY <1>0, <1>7, <2>0, <2>2, OthersStay DEF PollFits
  <2> QED
    BY <2>1, <2>2
<1> QED
  BY <1>1, <1>2, <1>3, <1>4, <1>5, <1>6, <1>7, PollSteps

LEMMA PollsInvariant == Spec => [](TypeOK /\ PollsFit)
<1>1. Init => TypeOK /\ PollsFit
  <2> SUFFICES ASSUME Init PROVE TypeOK /\ PollsFit
    OBVIOUS
  <2>1. Null \in Marker /\ 0 \in 0..MaxMsgs /\ 0 \in 0..MaxFaults
    BY WatchBounds DEF Marker, Null
  <2>2. reports \in [Watches -> [Msgs -> 0..2]]
    BY DEF Init
  <2>3. TypeOK
    BY <2>1, <2>2 DEF Init, TypeOK, Null
  <2> QED
    BY <2>3 DEF Init, PollsFit, Null
<1>2. TypeOK /\ PollsFit /\ [Next]_vars => TypeOK' /\ PollsFit'
  <2> SUFFICES ASSUME TypeOK, PollsFit, [Next]_vars PROVE TypeOK' /\ PollsFit'
    OBVIOUS
  <2>1. TypeOK'
    <3>1. CASE UNCHANGED vars
      BY <3>1 DEF TypeOK, vars, entryVars, schedVars, pollVars, historyVars
    <3> QED
      BY <3>1, Typed
  <2> QED
    BY <2>1, PollsStayFit
<1> QED
  BY <1>1, <1>2, PTL DEF Spec

\* Types; in particular a marker always names a stored message, and a poller
\* is at work exactly while it holds an entry (WatchMonitor.poll).
THEOREM MonitorTyped == Spec => []TypeOK
BY PollsInvariant, PTL

-----------------------------------------------------------------------------
(* Polls that do not overlap                                               *)

SerialFit(w) == ~overlapped[w] =>
    /\ \A p, q \in Pollers : watch[p] = w /\ watch[q] = w => p = q
    /\ \A p \in Pollers : watch[p] = w => seen[p] = marker[w]
    /\ \A m \in Msgs : reports[w][m] <= 1 /\ (Reported(w, m) => m <= marker[w])

\* What a commit reports and where it leaves the marker.
LEMMA CommitFacts ==
    ASSUME TypeOK, NEW p \in Pollers, Commit(p)
    PROVE  /\ End(p) /\ pc[p] = "commit" /\ watch[p] \in Watches
           /\ UNCHANGED <<posted, overlapped, fresh>>
           /\ stored' = stored \cup fetched[p] /\ jumped' = jumped \cup missed[p]
           /\ \A w \in Watches :
                 /\ w # watch[p] => marker'[w] = marker[w] /\ reports'[w] = reports[w]
                 /\ w = watch[p] =>
                       /\ marker'[w] = IF next[p] # seen[p] THEN next[p] ELSE marker[w]
                       /\ \A m \in Msgs :
                             reports'[w][m] = IF m \in news[p] /\ reports[w][m] < 2
                                              THEN reports[w][m] + 1 ELSE reports[w][m]
<1>1. watch[p] \in Watches
  BY DEF Commit, TypeOK
<1>2. /\ End(p) /\ pc[p] = "commit"
      /\ UNCHANGED <<posted, overlapped, fresh>>
      /\ stored' = stored \cup fetched[p] /\ jumped' = jumped \cup missed[p]
  BY DEF Commit
<1>3. \A w \in Watches : marker'[w] = IF w = watch[p] /\ next[p] # seen[p] THEN next[p]
                                                                        ELSE marker[w]
  BY DEF Commit, StoreMarker, TypeOK
<1>4. \A w \in Watches : w # watch[p] => reports'[w] = reports[w]
  BY DEF Commit, Report, TypeOK
<1>5. \A m \in Msgs : reports'[watch[p]][m] =
                        IF m \in news[p] /\ reports[watch[p]][m] < 2
                        THEN reports[watch[p]][m] + 1 ELSE reports[watch[p]][m]
  BY <1>1 DEF Commit, Report, TypeOK
<1> QED
  BY <1>1, <1>2, <1>3, <1>4, <1>5

LEMMA SerialStaysFit ==
    ASSUME TypeOK, TypeOK', PollsFit, SerialFits, [Next]_vars
    PROVE  SerialFits'
<1>0. /\ \A w \in Watches : SerialFit(w)
      /\ \A w \in Watches, m \in Msgs : reports[w][m] \in 0..2
  BY DEF SerialFits, SerialFit, TypeOK
<1> SUFFICES ASSUME NEW w \in Watches
             PROVE  SerialFit(w)'
  BY DEF SerialFits, SerialFit
<1>1. CASE Aside \/ Publish \/ OtherIngest
  BY <1>0, <1>1 DEF Aside, Publish, OtherIngest, SerialFit, pollVars, historyVars, entryVars, Reported
<1>2. ASSUME NEW p \in Pollers, Collect(p) \/ Ingest(p)
      PROVE  SerialFit(w)'
  <2>1. UNCHANGED <<seen, watch, marker, historyVars>>
    BY <1>2, CollectFacts, IngestFacts
  <2> QED
    BY <1>0, <2>1 DEF SerialFit, historyVars, Reported
<1>3. ASSUME NEW p \in Pollers, NEW v \in Watches, Begins(p, v)
      PROVE  SerialFit(w)'
  <2>1. /\ watch[p] = NoWatch /\ UNCHANGED <<marker, reports>>
        /\ seen'[p] = marker[v] /\ watch'[p] = v
        /\ \A q \in Pollers : q # p => seen'[q] = seen[q] /\ watch'[q] = watch[q]
    BY <1>3, BeginFacts, OthersStay DEF Begins, TypeOK
  <2>2. /\ w # v => overlapped'[w] = overlapped[w]
        /\ overlapped'[v] = (overlapped[v] \/ \E q \in Pollers : watch[q] = v)
    BY <1>3 DEF Begins, Begin, TypeOK
  <2>3. w = v /\ ~overlapped'[w] => ~overlapped[w] /\ \A q \in Pollers : watch[q] # w
    BY <2>2, Zenon
  <2>4. CASE w = v
    BY <1>0, <2>1, <2>3, <2>4 DEF SerialFit, Reported
  <2>5. CASE w # v
    BY <1>0, <2>1, <2>2, <2>5 DEF SerialFit, Reported
  <2> QED
    BY <2>4, <2>5
<1>4. ASSUME NEW p \in Pollers, PollFault(p)
      PROVE  SerialFit(w)'
  <2>1. /\ watch'[p] = NoWatch /\ UNCHANGED <<marker, historyVars>>
        /\ \A q \in Pollers : q # p => seen'[q] = seen[q] /\ watch'[q] = watch[q]
    BY <1>4, EndFacts, OthersStay DEF PollFault, entryVars
  <2> QED
    BY <1>0, <2>1, WatchesAssumption DEF SerialFit, historyVars, Reported
<1>5. ASSUME NEW p \in Pollers, Commit(p)
      PROVE  SerialFit(w)'
  <2>1. /\ watch'[p] = NoWatch /\ overlapped' = overlapped
        /\ \A q \in Pollers : q # p => seen'[q] = seen[q] /\ watch'[q] = watch[q]
    BY <1>5, EndFacts, CommitFacts, OthersStay
  <2>2. CASE w # watch[p]
    <3>1. marker'[w] = marker[w] /\ reports'[w] = reports[w]
      BY <1>5, <2>2, CommitFacts
    <3> QED
      BY <1>0, <2>1, <3>1, WatchesAssumption DEF SerialFit, Reported
  <2>3. CASE w = watch[p] /\ ~overlapped[w]
    <3>1. \A q \in Pollers : watch'[q] # w
      BY <1>0, <2>1, <2>3, WatchesAssumption DEF SerialFit
    <3>2. /\ seen[p] = marker[w] /\ seen[p] <= next[p]
          /\ \A m \in news[p] : SeenMax(p) < m /\ m <= next[p]
          /\ seen[p] \in Int /\ next[p] \in Int
      <4>1. seen[p] = marker[w]
        BY <1>0, <1>5, <2>3, CommitFacts DEF SerialFit
      <4>2. /\ seen[p] <= next[p]
            /\ \A m \in news[p] : SeenMax(p) < m /\ m <= next[p]
        BY <1>5, CommitFacts DEF PollsFit
      <4>3. seen[p] \in Marker /\ next[p] \in Marker
        BY DEF TypeOK
      <4> QED
        BY <4>1, <4>2, <4>3, WatchBounds DEF Marker, Null
    <3>3. marker'[w] = next[p]
      BY <1>5, <2>3, <3>2, CommitFacts
    <3>4. ASSUME NEW m \in Msgs
          PROVE  reports'[w][m] <= 1 /\ (reports'[w][m] > 0 => m <= marker'[w])
      <4>1. /\ reports'[w][m] = IF m \in news[p] /\ reports[w][m] < 2
                                THEN reports[w][m] + 1 ELSE reports[w][m]
            /\ reports[w][m] \in 0..2 /\ reports[w][m] <= 1
            /\ reports[w][m] > 0 => m <= marker[w]
        BY <1>0, <1>5, <2>3, CommitFacts DEF SerialFit, Reported
      <4>2. m \in Nat /\ m > 0 /\ SeenMax(p) \in Nat /\ seen[p] <= SeenMax(p)
        BY WatchBounds, SeenMaxFacts DEF Msgs
      <4>3. m \in news[p] => ~(m <= marker[w]) /\ m <= next[p]
        BY <3>2, <4>2
      <4> QED
        BY <3>2, <3>3, <4>1, <4>2, <4>3
    <3> QED
      BY <3>1, <3>4 DEF SerialFit, Reported
  <2> QED
    BY <2>1, <2>2, <2>3 DEF SerialFit
<1> QED
  BY <1>1, <1>2, <1>3, <1>4, <1>5, PollSteps

LEMMA SerialInvariant == Spec => []SerialFits
<1>1. Init => SerialFits
  BY WatchesAssumption DEF Init, SerialFits, Reported
<1>2. TypeOK /\ TypeOK' /\ PollsFit /\ SerialFits /\ [Next]_vars => SerialFits'
  BY SerialStaysFit
<1> QED
  BY <1>1, <1>2, PollsInvariant, PTL DEF Spec

\* Polls of an entry that never overlap report a message at most once and leave
\* the marker above everything reported (WatchMonitor.poll).
THEOREM SerialPollsReport == Spec => []SerialPollsReportOnce
<1>1. SerialFits => SerialPollsReportOnce
  BY DEF SerialFits, SerialPollsReportOnce
<1> QED
  BY <1>1, SerialInvariant, PTL

-----------------------------------------------------------------------------
(* No message is lost                                                      *)

GapFree(p) ==
    /\ pc[p] = "commit" =>
          /\ Below(fetched[p], stored \cup fetched[p] \cup missed[p] \cup jumped)
          /\ \A m \in Msgs : SeenMax(p) < m /\ m <= next[p] =>
                               m \in news[p] \cup missed[p] \cup jumped
    /\ \A w \in Watches : watch[p] = w =>
          \A m \in fresh[w] : m <= seen[p] /\ m \notin jumped => Reported(w, m)

\* Rows, jumps and reports only grow, so what another poller knows stays true.
LEMMA GapsGrow ==
    ASSUME NEW q \in Pollers, GapFree(q), stored \subseteq stored', jumped \subseteq jumped',
           UNCHANGED fresh, \A w \in Watches : fresh[w] \subseteq Msgs,
           \A w \in Watches, m \in Msgs : Reported(w, m) => Reported(w, m)',
           fetched'[q] = fetched[q], seen'[q] = seen[q], pc'[q] = pc[q],
           next'[q] = next[q], news'[q] = news[q], watch'[q] = watch[q],
           missed'[q] = missed[q], SeenMax(q)' = SeenMax(q)
    PROVE  GapFree(q)'
<1>1. pc[q] = "commit" =>
         Below(fetched[q], stored' \cup fetched[q] \cup missed[q] \cup jumped')
  BY DEF GapFree, Below
<1>2. pc[q] = "commit" =>
         \A m \in Msgs : SeenMax(q) < m /\ m <= next[q] =>
                           m \in news[q] \cup missed[q] \cup jumped'
  BY DEF GapFree
<1>3. \A w \in Watches : watch[q] = w =>
         \A m \in fresh[w] : m <= seen[q] /\ m \notin jumped' => Reported(w, m)'
  BY DEF GapFree
<1>4. Msgs' = Msgs
  BY DEF Msgs
<1> QED
  BY <1>1, <1>2, <1>3, <1>4 DEF GapFree, Below

\* Storing some messages jumps what lies between them and the rows.
LEMMA GapsAreJumped ==
    ASSUME TypeOK, NEW new \in SUBSET (1..posted), Below(stored, stored \cup jumped)
    PROVE  Below(stored \cup new, stored \cup new \cup Gap(stored \cup new, new) \cup jumped)
<1> SUFFICES ASSUME NEW k \in stored \cup new, NEW m \in Msgs, m < k, m \notin stored \cup new,
                    m \notin jumped
             PROVE  m \in Gap(stored \cup new, new)
  BY DEF Below
<1>1. k \in new
  BY DEF Below
<1>2. m \in 1..posted
  BY <1>1, WindowFits DEF Msgs
<1> QED
  BY <1>1, <1>2 DEF Gap

LEMMA GapsStayAway ==
    ASSUME TypeOK, TypeOK', PollsFit, NoGaps, [Next]_vars
    PROVE  NoGaps'
<1>0. /\ posted \in Nat /\ MaxMsgs \in Nat /\ stored \subseteq 1..posted
      /\ Below(stored, stored \cup jumped)
      /\ \A w \in Watches : fresh[w] \subseteq 1..posted /\ fresh[w] \subseteq Msgs
      /\ \A p \in Pollers : GapFree(p)
      /\ NothingSkipped
  BY WindowFits DEF NoGaps, GapFree, TypeOK
<1> SUFFICES /\ Below(stored, stored \cup jumped)'
             /\ \A w \in Watches : fresh'[w] \subseteq 1..(posted')
             /\ \A q \in Pollers : GapFree(q)'
             /\ NothingSkipped'
  BY DEF NoGaps, GapFree
<1>1. CASE Aside
  BY <1>0, <1>1 DEF Aside, GapFree, Below, Msgs, NothingSkipped, Reported, SeenMax, pollVars,
     historyVars
<1>2. CASE OtherIngest
  <2>1. PICK hits \in SUBSET (1..posted) :
              /\ stored' = stored \cup hits
              /\ jumped' = jumped \cup Gap(stored \cup hits, hits)
    BY <1>2 DEF OtherIngest
  <2>2. UNCHANGED <<posted, marker, pollVars, reports, fresh>>
    BY <1>2 DEF OtherIngest, entryVars
  <2>3. Below(stored, stored \cup jumped)'
    <3>1. Below(stored \cup hits, stored \cup hits \cup Gap(stored \cup hits, hits) \cup jumped)
      BY <1>0, GapsAreJumped
    <3>2. Msgs' = Msgs
      BY DEF Msgs
    <3> QED
      BY <2>1, <3>1, <3>2 DEF Below
  <2>4. \A q \in Pollers : GapFree(q)'
    BY <1>0, <2>1, <2>2, GapsGrow DEF pollVars, Reported, SeenMax
  <2>5. NothingSkipped'
    BY <1>0, <2>1, <2>2 DEF NothingSkipped, Reported
  <2> QED
    BY <1>0, <2>2, <2>3, <2>4, <2>5
<1>3. CASE Publish
  <2>1. /\ posted' = posted + 1 /\ UNCHANGED <<stored, marker, pollVars, reports, jumped>>
        /\ \A w \in Watches : \A m \in fresh'[w] : m \in fresh[w] \/ m = posted + 1
    BY <1>3 DEF Publish, entryVars, TypeOK
  <2>2. \A w \in Watches : fresh'[w] \subseteq 1..(posted')
    BY <1>0, <2>1
  <2>3. \A w \in Watches : marker[w] \in Int /\ marker[w] <= posted
    BY <1>0 DEF TypeOK, Marker, Null
  <2>4. \A q \in Pollers : seen[q] \in Int /\ seen[q] <= posted
    BY <1>0 DEF TypeOK, PollsFit, Marker, Null
  <2>5. NothingSkipped'
    BY <1>0, <2>1, <2>3 DEF NothingSkipped, Reported
  <2>6. \A q \in Pollers : GapFree(q)'
    BY <1>0, <2>1, <2>4 DEF GapFree, Below, Msgs, Reported, SeenMax, pollVars
  <2>7. Below(stored, stored \cup jumped)'
    BY <1>0, <2>1 DEF Below, Msgs
  <2> QED
    BY <2>2, <2>5, <2>6, <2>7
<1>4. ASSUME NEW p \in Pollers, NEW v \in Watches, Begins(p, v)
      PROVE  /\ Below(stored, stored \cup jumped)'
             /\ \A w \in Watches : fresh'[w] \subseteq 1..(posted')
             /\ \A q \in Pollers : GapFree(q)'
             /\ NothingSkipped'
  <2>1. UNCHANGED <<posted, stored, marker, reports, fresh, jumped>>
    BY <1>4 DEF Begins
  <2>2. ASSUME NEW q \in Pollers, q # p
        PROVE  GapFree(q)'
    BY <1>0, <1>4, <2>1, <2>2, OthersStay, GapsGrow DEF Reported
  <2>3. GapFree(p)'
    <3>1. fetched'[p] = fetched[p] /\ seen'[p] = marker[v] /\ pc'[p] = "collect" /\ watch'[p] = v
      BY <1>4, BeginFacts DEF Begins
    <3> QED
      BY <1>0, <2>1, <3>1 DEF GapFree, Reported, NothingSkipped
  <2>4. NothingSkipped' /\ Below(stored, stored \cup jumped)'
    BY <1>0, <2>1 DEF NothingSkipped, Reported, Below, Msgs
  <2> QED
    BY <1>0, <2>1, <2>2, <2>3, <2>4
<1>5. ASSUME NEW p \in Pollers, Collect(p) \/ Ingest(p)
      PROVE  /\ Below(stored, stored \cup jumped)'
             /\ \A w \in Watches : fresh'[w] \subseteq 1..(posted')
             /\ \A q \in Pollers : GapFree(q)'
             /\ NothingSkipped'
  <2>1. UNCHANGED <<posted, stored, marker, historyVars>>
    BY <1>5, CollectFacts, IngestFacts
  <2>0. UNCHANGED <<reports, fresh, jumped>> /\ Msgs' = Msgs
    BY <2>1 DEF historyVars, Msgs
  <2>2. ASSUME NEW q \in Pollers, q # p
        PROVE  GapFree(q)'
    BY <1>0, <1>5, <2>0, <2>1, <2>2, OthersStay, GapsGrow DEF Reported
  <2>3. CASE Collect(p)
    <3>1. /\ seen' = seen /\ watch' = watch /\ SeenMax(p)' = SeenMax(p)
          /\ pc'[p] = "commit" => next'[p] = Untouched(p) /\ fetched'[p] = {}
      BY <2>3, CollectFacts
    <3>2. \A m \in Msgs : SeenMax(p) < m => ~(m <= Untouched(p))
      BY SeenMaxFacts DEF Msgs
    <3>3. GapFree(p)'
      BY <1>0, <2>0, <2>1, <3>1, <3>2 DEF GapFree, Below, Reported
    <3> QED
      BY <1>0, <2>0, <2>1, <2>2, <3>3 DEF NothingSkipped, Reported, Below
  <2>4. CASE Ingest(p)
    <3>0. PICK new \in SUBSET fetched[p] :
                /\ fetched'[p] = fetched[p] \cap (stored \cup new)
                /\ missed'[p] = Gap(stored \cup new, new)
                /\ \/ /\ news'[p] = Newer(p, stored \cup new)
                      /\ next'[p] = Max((stored \cup new) \cup {SeenMax(p)})
                   \/ /\ news'[p] = {} /\ next'[p] = Untouched(p)
      BY <2>4, IngestFacts
    <3>1. seen' = seen /\ watch' = watch /\ SeenMax(p)' = SeenMax(p)
      BY <2>4, IngestFacts
    <3>2. \A m \in Msgs : SeenMax(p) < m => ~(m <= Untouched(p))
      BY SeenMaxFacts DEF Msgs
    <3> DEFINE rows == stored \cup new
               top == Max(rows \cup {SeenMax(p)})
    <3>3. /\ rows \subseteq Msgs /\ top \in rows \cup {SeenMax(p)}
          /\ SeenMax(p) \in 0..MaxMsgs /\ top \in 0..MaxMsgs
      BY NextFits
    <3>4. Below(rows, rows \cup missed'[p] \cup jumped)
      <4>1. new \in SUBSET (1..posted)
        BY DEF PollsFit
      <4> QED
        BY <1>0, <3>0, <4>1, GapsAreJumped
    <3> HIDE DEF top
    <3>5. ASSUME NEW m \in Msgs, SeenMax(p) < m, m <= top
          PROVE  m \in Newer(p, rows) \cup missed'[p] \cup jumped
      <4>1. top \in rows
        BY <1>0, <3>3, <3>5 DEF Msgs
      <4>2. m = top \/ m < top
        BY <1>0, <3>3, <3>5 DEF Msgs
      <4>3. m \in rows \cup missed'[p] \cup jumped
        BY <3>4, <4>1, <4>2 DEF Below
      <4> QED
        BY <3>5, <4>3 DEF Newer
    <3>6. \A m \in Msgs : SeenMax(p) < m /\ m <= next'[p] =>
                            m \in news'[p] \cup missed'[p] \cup jumped
      BY <3>0, <3>2, <3>5 DEF top
    <3>7. Below(fetched'[p], stored \cup fetched'[p] \cup missed'[p] \cup jumped)
      BY <3>0, <3>4 DEF Below
    <3>8. GapFree(p)'
      BY <1>0, <2>0, <2>1, <3>1, <3>6, <3>7 DEF GapFree, Below, Reported
    <3> QED
      BY <1>0, <2>0, <2>1, <2>2, <3>8 DEF NothingSkipped, Reported, Below
  <2> QED
    BY <1>5, <2>3, <2>4
<1>6. ASSUME NEW p \in Pollers, PollFault(p) \/ Commit(p)
      PROVE  /\ Below(stored, stored \cup jumped)'
             /\ \A w \in Watches : fresh'[w] \subseteq 1..(posted')
             /\ \A q \in Pollers : GapFree(q)'
             /\ NothingSkipped'
  <2>1. /\ fetched'[p] = {} /\ pc'[p] = "idle" /\ watch'[p] = NoWatch
        /\ UNCHANGED <<posted, fresh>> /\ stored \subseteq stored' /\ jumped \subseteq jumped'
    BY <1>6, EndFacts, CommitFacts DEF PollFault, historyVars
  <2>2. \A w \in Watches, m \in Msgs : Reported(w, m) => Reported(w, m)'
    <3>1. CASE PollFault(p)
      BY <3>1 DEF PollFault, historyVars, Reported
    <3>2. CASE Commit(p)
      <4> SUFFICES ASSUME NEW w \in Watches, NEW m \in Msgs, reports[w][m] > 0
                   PROVE  reports'[w][m] > 0
        BY DEF Reported
      <4>0. reports[w][m] \in 0..2
        BY DEF TypeOK
      <4>1. reports[w][m] \in Nat
        BY <4>0
      <4>2. CASE w = watch[p]
        BY <3>2, <4>1, <4>2, CommitFacts
      <4>3. CASE w # watch[p]
        BY <3>2, <4>3, CommitFacts
      <4> QED
        BY <4>2, <4>3
    <3> QED
      BY <1>6, <3>1, <3>2
  <2>4. ASSUME NEW q \in Pollers, q # p
        PROVE  GapFree(q)'
    BY <1>0, <1>6, <2>1, <2>2, <2>4, OthersStay, GapsGrow
  <2>5. GapFree(p)'
    BY <1>0, <2>1, WatchesAssumption DEF GapFree
  <2>6. CASE PollFault(p)
    BY <1>0, <2>1, <2>4, <2>5, <2>6
    DEF PollFault, NothingSkipped, Reported, historyVars, entryVars, Below, Msgs
  <2>7. CASE Commit(p)
    <3>0. stored' = stored \cup fetched[p] /\ jumped' = jumped \cup missed[p] /\ pc[p] = "commit"
      BY <2>7, CommitFacts
    <3>1. Below(stored, stored \cup jumped)'
      <4>1. Below(fetched[p], stored \cup fetched[p] \cup missed[p] \cup jumped)
        BY <1>0, <3>0 DEF GapFree
      <4>2. Msgs' = Msgs
        BY DEF Msgs
      <4> QED
        BY <1>0, <3>0, <4>1, <4>2 DEF Below
    <3>2. ASSUME NEW w \in Watches, NEW m \in fresh[w], m <= marker'[w], m \notin jumped'
          PROVE  Reported(w, m)'
      <4>0. m \in Msgs /\ m \in Nat /\ m > 0 /\ m \notin jumped /\ m \notin missed[p]
        BY <1>0, <3>0, <3>2 DEF Msgs
      <4>1. CASE marker'[w] = marker[w]
        BY <1>0, <2>2, <3>2, <4>0, <4>1 DEF NothingSkipped
      <4>2. CASE w = watch[p] /\ marker'[w] = next[p]
        <5>1. CASE SeenMax(p) < m
          <6>1. m \in news[p]
            BY <1>0, <3>0, <3>2, <4>0, <4>2, <5>1 DEF GapFree
          <6>2. reports[w][m] \in 0..2
            BY <4>0 DEF TypeOK
          <6>3. reports'[w][m] = IF m \in news[p] /\ reports[w][m] < 2
                                 THEN reports[w][m] + 1 ELSE reports[w][m]
            BY <2>7, <4>0, <4>2, CommitFacts
          <6> QED
            BY <6>1, <6>2, <6>3 DEF Reported
        <5>2. CASE ~(SeenMax(p) < m)
          <6>1. m <= seen[p]
            BY <4>0, <5>2, SeenMaxFacts
          <6>2. Reported(w, m)
            BY <1>0, <4>0, <4>2, <6>1 DEF GapFree
          <6> QED
            BY <2>2, <4>0, <6>2
        <5> QED
          BY <5>1, <5>2
      <4> QED
        BY <2>7, <4>1, <4>2, CommitFacts
    <3>3. NothingSkipped'
      BY <2>1, <3>2 DEF NothingSkipped
    <3> QED
      BY <1>0, <2>1, <2>4, <2>5, <3>1, <3>3
  <2> QED
    BY <1>6, <2>6, <2>7
<1> QED
  BY <1>1, <1>2, <1>3, <1>4, <1>5, <1>6, PollSteps

\* Once the marker of a watch has passed a message published since its first
\* poll, a committed poll has reported it, however polls, failures, retries and
\* other collections of the channel interleave (WatchMonitor.poll), unless a
\* committed ingestion stored a later message while it had no row: the window
\* (limit) had slid past it, its upsert was skipped, or a keyword search hit
\* only the later one.
THEOREM NoMessageSkipped == Spec => []NothingSkipped
<1>1. Init => NoGaps
  BY WatchesAssumption DEF Init, NoGaps, Below, NothingSkipped
<1>2. TypeOK /\ TypeOK' /\ PollsFit /\ NoGaps /\ [Next]_vars => NoGaps'
  BY GapsStayAway
<1>3. NoGaps => NothingSkipped
  BY DEF NoGaps
<1> QED
  BY <1>1, <1>2, <1>3, PollsInvariant, PTL DEF Spec
=============================================================================
