---------------------------- MODULE WatchMonitor ----------------------------
(***************************************************************************)
(* Watchlist monitoring: the scheduler tick that creates watch_poll jobs   *)
(* (workers/scheduler.py), the polls themselves, run by workers            *)
(* (workers/handlers.py) or by POST /watchlist/{id}/poll, and the marker   *)
(* that tells old messages from new ones (intelligence/monitoring.py).     *)
(*                                                                         *)
(* All watches look at one public channel whose message ids are 1, 2, ...  *)
(* A poll is one transaction: it reads the entry, waits for the collector, *)
(* ingests, compares with the marker it read and commits.  Ingestion skips *)
(* a message whose upsert raises and goes on (intelligence/ingest.py).     *)
(* What the collector shows of the channel is the source's business: here  *)
(* the most recent messages, as its documentation says (Window).  The      *)
(* username platforms are left out: both callers pass no username          *)
(* collector.                                                              *)
(***************************************************************************)
EXTENDS Integers, Sequences, FiniteSets, FiniteSetsExt

CONSTANTS
    Watches,       \* watchlist entries
    Workers,       \* worker processes: they run watch_poll jobs
    Requests,      \* poll_now requests in progress at the same time
    Schedulers,    \* workers that run schedule_due_watches between jobs
    NoWatch,       \* "no poll in progress"
    MaxMsgs,       \* messages the channel ever publishes
    Limit,         \* CollectRequest.limit: how many recent messages are read
    Searchable,    \* messages that keyword searches can hit
    BatchSize,     \* due_watchlist_ids(limit): entries a tick reads at most
    MaxQueued,     \* poll jobs a watch may have outstanding before time stops
    MaxFaults      \* crashes, failed polls and enqueues, batches with bad messages

ASSUME WatchesAssumption == NoWatch \notin Watches
ASSUME WatchBounds == /\ MaxMsgs \in Nat /\ Limit \in Nat
                      /\ MaxQueued \in Nat /\ MaxFaults \in Nat
                      /\ BatchSize \in Nat /\ Searchable \subseteq Nat

Pollers == Workers \cup Requests

\* last_seen_marker before the first poll (NULL), and an object without
\* telegram_max_msg_id; otherwise the message id itself.
Null == -2
Empty == -1
Marker == Null..MaxMsgs

VARIABLES
    posted,                \* last message id published
    stored,                \* message ids with a committed Message row
    active, due, marker,   \* per entry: is_active, "checked too long ago", marker
    queue,                 \* watch_poll jobs in the job queue, by entry
    batch,                 \* per scheduler: entries read as due
    spc,                   \* per scheduler: where it is
    pc, watch,             \* per poller: where it is and what it polls
    seen,                  \* per poller: the marker it read
    fetched,               \* per poller: the messages the collector returned,
                           \* once ingested those of them that have a row
    news, next,            \* per poller: its activities and the marker to write
    reports,               \* history: committed polls reporting a message, up to 2
    overlapped,            \* history: two polls of the entry ran at the same time
    fresh,                 \* history: messages published after the first poll
    missed,                \* history, per poller: what its ingestion jumped
    jumped,                \* history: messages without a row when a committed
                           \* ingestion stored a later one
    faults

entryVars == <<active, due, marker>>
schedVars == <<batch, spc>>
pollVars == <<pc, watch, seen, fetched, news, next, missed>>
historyVars == <<reports, overlapped, fresh, jumped>>
vars == <<posted, stored, entryVars, queue, schedVars, pollVars, historyVars, faults>>

Msgs == 1..MaxMsgs

\* Types; in particular a marker always names a stored message, and a poller
\* is at work exactly while it holds an entry (WatchMonitor.poll).
TypeOK == /\ posted \in 0..MaxMsgs
          /\ stored \subseteq 1..posted
          /\ active \in [Watches -> BOOLEAN]
          /\ due \in [Watches -> BOOLEAN]
          /\ marker \in [Watches -> Marker]
          /\ \A w \in Watches : marker[w] > 0 => marker[w] \in stored
          /\ queue \in Seq(Watches)
          /\ batch \in [Schedulers -> SUBSET Watches]
          /\ spc \in [Schedulers -> {"idle", "stamp", "enqueue"}]
          /\ pc \in [Pollers -> {"idle", "collect", "ingest", "commit"}]
          /\ watch \in [Pollers -> Watches \cup {NoWatch}]
          /\ \A p \in Pollers : pc[p] = "idle" <=> watch[p] = NoWatch
          /\ seen \in [Pollers -> Marker]
          /\ fetched \in [Pollers -> SUBSET Msgs]
          /\ news \in [Pollers -> SUBSET Msgs]
          /\ next \in [Pollers -> Marker]
          /\ reports \in [Watches -> [Msgs -> 0..2]]
          /\ overlapped \in [Watches -> BOOLEAN]
          /\ fresh \in [Watches -> SUBSET Msgs]
          /\ missed \in [Pollers -> SUBSET Msgs]
          /\ jumped \subseteq Msgs
          /\ faults \in 0..MaxFaults

Init == /\ posted = 0
        /\ stored = {}
        /\ active = [w \in Watches |-> TRUE]
        /\ due = [w \in Watches |-> TRUE]
        /\ marker = [w \in Watches |-> Null]
        /\ queue = <<>>
        /\ batch = [s \in Schedulers |-> {}]
        /\ spc = [s \in Schedulers |-> "idle"]
        /\ pc = [p \in Pollers |-> "idle"]
        /\ watch = [p \in Pollers |-> NoWatch]
        /\ seen = [p \in Pollers |-> Null]
        /\ fetched = [p \in Pollers |-> {}]
        /\ news = [p \in Pollers |-> {}]
        /\ next = [p \in Pollers |-> Null]
        /\ reports = [w \in Watches |-> [m \in Msgs |-> 0]]
        /\ overlapped = [w \in Watches |-> FALSE]
        /\ fresh = [w \in Watches |-> {}]
        /\ missed = [p \in Pollers |-> {}]
        /\ jumped = {}
        /\ faults = 0
-----------------------------------------------------------------------------
(* Surroundings: the channel, the clock, the user, other collections       *)

Publish ==
    /\ posted < MaxMsgs
    /\ posted' = posted + 1
    /\ fresh' = [w \in Watches |->
                   IF marker[w] # Null THEN fresh[w] \cup {posted + 1} ELSE fresh[w]]
    /\ UNCHANGED <<stored, entryVars, queue, schedVars, pollVars, reports,
                   overlapped, jumped, faults>>

\* Mutant: the window is cut one too low.
WindowFromZero == {m \in 0..posted : m > posted - Limit - 1}

\* What a source that reads the channel's history returns: its most recent
\* messages ("recent public messages", TelegramPublicCollector).  A contract of
\* the source, which nothing in the code enforces.
Window == {m \in 1..posted : m > posted - Limit}

\* Rows inserted and not committed yet.
Inserted(q) == IF pc[q] = "commit" THEN fetched[q] \ stored ELSE {}

\* Published messages without a row although an ingestion stores a later one.
Gap(rows, new) == {m \in (1..posted) \ rows : \E k \in new : m < k}

\* Another collection commits messages of the same channel.  A keyword search
\* stores whatever it hits, in a container it makes of the hits' chat name; one
\* with another limit, a stale answer or skipped messages any other part.
OtherIngest ==
    \E hits \in SUBSET (Searchable \cap 1..posted) :
        /\ \A q \in Pollers : Inserted(q) \cap hits = {}
        /\ stored' = stored \cup hits
        /\ jumped' = jumped \cup Gap(stored \cup hits, hits)
        /\ UNCHANGED <<posted, entryVars, queue, schedVars, pollVars, reports,
                       overlapped, fresh, faults>>

Outstanding(w) == Cardinality({i \in 1..Len(queue) : queue[i] = w})
                  + Cardinality({s \in Schedulers : w \in batch[s]})

\* watch_poll_interval_seconds have passed since last_checked_at.
Age(w) ==
    /\ ~due[w]
    /\ Outstanding(w) < MaxQueued
    /\ due' = [due EXCEPT ![w] = TRUE]
    /\ UNCHANGED <<posted, stored, active, marker, queue, schedVars, pollVars,
                   historyVars, faults>>

\* WatchlistRepository.add of an entry that exists, and remove.
Toggle(w) ==
    /\ active' = [active EXCEPT ![w] = ~@]
    /\ UNCHANGED <<posted, stored, due, marker, queue, schedVars, pollVars,
                   historyVars, faults>>
-----------------------------------------------------------------------------
(* The scheduler tick                                                      *)

\* At most BatchSize of the due entries, whichever: the query has no ORDER BY.
SchedRead(s) ==
    /\ spc[s] = "idle"
    /\ LET ready == {w \in Watches : active[w] /\ due[w]}
       IN  \E some \in SUBSET ready :
              /\ some # {}
              /\ Cardinality(some) <= BatchSize
              /\ some = ready \/ Cardinality(some) = BatchSize
              /\ batch' = [batch EXCEPT ![s] = some]
    /\ spc' = [spc EXCEPT ![s] = "stamp"]
    /\ UNCHANGED <<posted, stored, entryVars, queue, pollVars, historyVars, faults>>

\* The job rows and the stamps (mark_scheduled) are committed together.
SchedCommit(s) ==
    /\ spc[s] = "stamp"
    /\ due' = [w \in Watches |-> due[w] /\ w \notin batch[s]]
    /\ spc' = [spc EXCEPT ![s] = "enqueue"]
    /\ UNCHANGED <<posted, stored, active, marker, queue, batch, pollVars,
                   historyVars, faults>>

\* Mutant: the jobs are created and never enqueued.
SchedEnqueueNone(s) ==
    /\ spc[s] = "enqueue"
    /\ batch' = [batch EXCEPT ![s] = {}]
    /\ spc' = [spc EXCEPT ![s] = "idle"]
    /\ UNCHANGED <<posted, stored, entryVars, queue, pollVars, historyVars, faults>>

SchedEnqueue(s) ==
    /\ spc[s] = "enqueue"
    /\ \E w \in batch[s] :
          /\ queue' = Append(queue, w)
          /\ batch' = [batch EXCEPT ![s] = @ \ {w}]
          /\ spc' = [spc EXCEPT ![s] = IF batch[s] = {w} THEN "idle" ELSE @]
    /\ UNCHANGED <<posted, stored, entryVars, pollVars, historyVars, faults>>

\* An enqueue raises (the loop is left, _maybe_tick logs it), or the process
\* dies: before the commit nothing has happened, after it the remaining jobs
\* stay PENDING without being queued.
SchedFault(s) ==
    /\ spc[s] # "idle"
    /\ faults < MaxFaults
    /\ faults' = faults + 1
    /\ batch' = [batch EXCEPT ![s] = {}]
    /\ spc' = [spc EXCEPT ![s] = "idle"]
    /\ UNCHANGED <<posted, stored, entryVars, queue, pollVars, historyVars>>
-----------------------------------------------------------------------------
(* A poll                                                                  *)

Begin(p, w) ==
    /\ pc' = [pc EXCEPT ![p] = "collect"]
    /\ watch' = [watch EXCEPT ![p] = w]
    /\ seen' = [seen EXCEPT ![p] = marker[w]]
    /\ overlapped' = [overlapped EXCEPT ![w] = @ \/ \E q \in Pollers : watch[q] = w]
    /\ UNCHANGED <<fetched, news, next, missed>>

\* run_watch_poll: an entry that is not active any more is skipped.
RunWatchPoll(p) ==
    /\ p \in Workers
    /\ pc[p] = "idle"
    /\ queue # <<>>
    /\ queue' = Tail(queue)
    /\ \/ active[Head(queue)] /\ Begin(p, Head(queue))
       \/ ~active[Head(queue)] /\ UNCHANGED <<pollVars, overlapped>>
    /\ UNCHANGED <<posted, stored, entryVars, schedVars, reports, fresh,
                   jumped, faults>>

PollNow(p, w) ==
    /\ p \in Requests
    /\ pc[p] = "idle"
    /\ Begin(p, w)
    /\ UNCHANGED <<posted, stored, entryVars, queue, schedVars, reports, fresh,
                   jumped, faults>>

\* The marker object as read: int(marker.get("telegram_max_msg_id", 0)).
SeenMax(p) == IF seen[p] < 0 THEN 0 ELSE seen[p]

\* json.dumps of a marker object nothing was put into.
Untouched(p) == IF seen[p] = Null THEN Empty ELSE seen[p]

\* The collector answers: recent messages, or none (no such chat, or a history
\* that cannot be read), or an error, after which nothing is compared.
Collect(p) ==
    /\ pc[p] = "collect"
    /\ \/ /\ \E answer \in {Window, {}} : fetched' = [fetched EXCEPT ![p] = answer]
          /\ pc' = [pc EXCEPT ![p] = "ingest"]
          /\ UNCHANGED <<news, next>>
       \/ /\ fetched' = [fetched EXCEPT ![p] = {}]
          /\ news' = [news EXCEPT ![p] = {}]
          /\ next' = [next EXCEPT ![p] = Untouched(p)]
          /\ pc' = [pc EXCEPT ![p] = "commit"]
    /\ UNCHANGED <<posted, stored, entryVars, queue, schedVars, watch, seen,
                   missed, historyVars, faults>>

\* Mutants: the message at the marker counts as new; only rows of this answer
\* are looked at.
NewerOrEqual(p, rows) == {m \in rows : m >= SeenMax(p)}
NewerFetched(p, rows) == {m \in rows \cap fetched[p] : m > SeenMax(p)}

Newer(p, rows) == {m \in rows : m > SeenMax(p)}

\* Ingestion inserts what is missing, waiting for another transaction that has
\* inserted the same message (unique key); a message whose upsert raises is
\* skipped.  Then every stored row above the marker is an activity.  Without a
\* channel row nothing is compared.
Ingest(p) ==
    \E bad \in SUBSET fetched[p] :
        LET new == fetched[p] \ bad
            rows == stored \cup new
        IN  /\ pc[p] = "ingest"
            /\ \A q \in Pollers \ {p} : Inserted(q) \cap new = {}
            /\ \/ bad = {} /\ UNCHANGED faults
               \/ bad # {} /\ faults < MaxFaults /\ faults' = faults + 1
            /\ fetched' = [fetched EXCEPT ![p] = @ \cap rows]
            /\ missed' = [missed EXCEPT ![p] = Gap(rows, new)]
            /\ \/ /\ news' = [news EXCEPT ![p] = Newer(p, rows)]
                  /\ next' = [next EXCEPT ![p] = Max(rows \cup {SeenMax(p)})]
               \/ /\ rows = {}
                  /\ news' = [news EXCEPT ![p] = {}]
                  /\ next' = [next EXCEPT ![p] = Untouched(p)]
            /\ pc' = [pc EXCEPT ![p] = "commit"]
            /\ UNCHANGED <<posted, stored, entryVars, queue, schedVars, watch, seen,
                           historyVars>>

End(p) == /\ pc' = [pc EXCEPT ![p] = "idle"]
          /\ watch' = [watch EXCEPT ![p] = NoWatch]
          /\ seen' = [seen EXCEPT ![p] = Null]
          /\ fetched' = [fetched EXCEPT ![p] = {}]
          /\ news' = [news EXCEPT ![p] = {}]
          /\ next' = [next EXCEPT ![p] = Null]
          /\ missed' = [missed EXCEPT ![p] = {}]

Report(w, ms) ==
    reports' = [reports EXCEPT ![w] =
                  [m \in Msgs |-> IF m \in ms /\ @[m] < 2 THEN @[m] + 1 ELSE @[m]]]

\* The column is part of the UPDATE only when it differs from what was read.
StoreMarker(p) ==
    marker' = [marker EXCEPT ![watch[p]] = IF next[p] # seen[p] THEN next[p] ELSE @]

\* Messages, marker and last_checked_at become visible together.
Commit(p) ==
    /\ pc[p] = "commit"
    /\ stored' = stored \cup fetched[p]
    /\ jumped' = jumped \cup missed[p]
    /\ StoreMarker(p)
    /\ due' = [due EXCEPT ![watch[p]] = FALSE]
    /\ Report(watch[p], news[p])
    /\ End(p)
    /\ UNCHANGED <<posted, active, queue, schedVars, overlapped, fresh, faults>>

\* The poll fails or its process dies: all rolled back.  JobRunner queues a
\* failed job again; a crash, or a failing request, ends the poll.
PollFault(p) ==
    /\ pc[p] # "idle"
    /\ faults < MaxFaults
    /\ faults' = faults + 1
    /\ \/ p \in Workers /\ queue' = Append(queue, watch[p])
       \/ UNCHANGED queue
    /\ End(p)
    /\ UNCHANGED <<posted, stored, entryVars, schedVars, historyVars>>
-----------------------------------------------------------------------------
SchedStep(s) == SchedRead(s) \/ SchedCommit(s) \/ SchedEnqueue(s)

PollStep(p) == RunWatchPoll(p) \/ Collect(p) \/ Ingest(p) \/ Commit(p)

Next == \/ Publish \/ OtherIngest
        \/ \E w \in Watches : Age(w) \/ Toggle(w)
        \/ \E s \in Schedulers : SchedStep(s) \/ SchedFault(s)
        \/ \E p \in Pollers : PollStep(p) \/ PollFault(p)
        \/ \E p \in Pollers, w \in Watches : PollNow(p, w)

Spec == Init /\ [][Next]_vars

\* Time passes, and scheduler and workers keep running.
Fairness == /\ \A w \in Watches : WF_vars(Age(w))
            /\ \A s \in Schedulers : WF_vars(SchedStep(s))
            /\ \A p \in Pollers : WF_vars(PollStep(p))

FairSpec == Spec /\ Fairness
-----------------------------------------------------------------------------
(* Properties                                                              *)

Reported(w, m) == reports[w][m] > 0

\* The code's promise is one Activity "per genuinely new public event"
\* (WatchMonitor): a marker never passes a message published since the first
\* poll before a committed poll has reported it.  The code breaks it when an
\* ingestion stores a message while an earlier one has no row: the window has
\* slid past it, its upsert raised, or a keyword search hit the later one only.
EveryEventReported ==
    \A w \in Watches : \A m \in fresh[w] : m <= marker[w] => Reported(w, m)

\* And in no other way: however polls overlap, fail and are retried, return
\* nothing, and run beside other collections of the channel, a message the
\* marker has passed unreported had no row when a committed ingestion stored a
\* later one (the compare-everything-stored loop of _poll_telegram).
NothingSkipped ==
    \A w \in Watches : \A m \in fresh[w] :
        m <= marker[w] /\ m \notin jumped => Reported(w, m)

\* Polls of a watch that never overlap report every message at most once and
\* leave the marker above everything reported (WatchMonitor.poll).
SerialPollsReportOnce ==
    \A w \in Watches : ~overlapped[w] =>
        \A m \in Msgs : reports[w][m] <= 1 /\ (Reported(w, m) => m <= marker[w])

\* An entry that stays on the watchlist is polled again and again, although a
\* scheduled poll can be lost: last_checked_at ages and the scheduler creates
\* another job (due_watchlist_ids).
KeepsPolling ==
    \A w \in Watches :
        []<>(~active[w]) \/ []<><<\E p \in Pollers : watch[p] = w /\ Commit(p)>>_vars
=============================================================================
