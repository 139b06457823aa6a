# Telegram Public OSINT Investigator: TLA+ models and proofs

This directory models the parts of the repository whose correctness depends on
the order in which things happen: jobs, queues, transactions, polls, tokens,
quotas, the evidence graph, searches, reports, rate limits, the browser's session
and the schema. TLC checks every module on a small instance;
TLAPS proves all the safety properties that hold but one, for every value of the constants
(section 6).

All paths below are relative to the repository (`workers/runner.py` is
`src/workers/runner.py` in `PROJECT.json`).

    tlc -config JobRunner.cfg MCJobRunner        # any run of PROJECT.json
    tlapm JobRunnerProofs.tla                    # proofs; any *Proofs module

## 1. The system

One image runs as three kinds of process, `api`, `bot` and `worker`, around a
PostgreSQL database and a Redis queue; a dashboard is a browser client of the
API. A user asks the bot (or the API) for a collection. The request becomes a
job row and an id in the queue; a worker takes the id, runs the handler of the
job's kind, which collects public data and writes it to the shared graph, and
sends the outcome to the user.

| Component | State | Operations | Interacts with |
|---|---|---|---|
| Job state machine (`database/repositories/jobs.py`) | job rows: state, retry_count, error, result | create, transition | written by submitters, workers and cancel requests |
| Job queue (`workers/queue.py`) | ready list, delayed set | enqueue, promote, dequeue | submitters and workers; Redis or process memory |
| Job runner (`workers/runner.py`) and submitters (`apps/bot/jobs.py`, `apps/api/routers/*`) | a worker's job in hand | run_once, _process, _dispatch, _on_failure, _deliver, submit_job, cancel | queue, job rows, handlers, the user's chat |
| Entity repositories (`database/repositories/base.py`, `entities.py`) and ingestion (`intelligence/ingest.py`) | entity rows with two keys each, a session's unflushed changes | get_or_create, resolve, ingest | every collection, from any process |
| Evidence graph (`relationships.py`, `evidence.py`, `messages.py`, `ioc/enrich.py`, `entity_resolution/resolver.py`, `username_osint.py`) | edges with confidence, append-only evidence, message rows | observe, record, upsert, enrich, link, correlate, merge_entities | ingestion, searches, investigations, readers |
| Investigations (`intelligence/investigation/service.py`, `reports/investigation_report.py`) | the investigation row, observations, report row and files | create, run, report | a job of kind `investigation` |
| Bot access and quota (`apps/bot/guard.py`, `quota.py`, `handlers/investigate.py`) | users, free_actions_used, inviter, the "awaiting a target" flag | /start, collection commands, /investigate in one or two messages | submitters |
| Refresh tokens (`database/repositories/refresh_tokens.py`, `apps/api/routers/auth.py`) | token rows | login, refresh (rotate), logout, reuse detection | dashboard |
| Watch monitor and scheduler (`intelligence/monitoring.py`, `workers/scheduler.py`) | watchlist entries: last_checked_at, last_seen_marker | tick, poll, poll now | jobs, ingestion, the public channel |
| Collectors, fetcher, platform adapters (`collectors/`) | requests and redirects of one collection | collect, normalise, validate, the redirect loop | the network, the services below |
| Confidence engine (`intelligence/confidence/engine.py`) | none (pure) | score_pair, score_account | username OSINT |
| Graph traversal (`intelligence/relationships/graph.py`), timeline (`intelligence/timeline/builder.py`) | what one view has read so far | BFS within limits; selects, merge and cut | rows other sessions commit meanwhile |
| Telegram intelligence and search (`intelligence/search.py`) | entity rows, search rows | run, look up by handle what was stored by id | collector, ingestion |
| Username OSINT (`intelligence/username_osint.py`) | notes, sources, edges of one search | gather, score, like accounts | adapters, ingestion, graph |
| Reports (`reports/service.py`, builder, renderers) | report row, files | request, generate, download | job of kind `report`, API |
| Watchlist (`database/repositories/investigations.py`, `users.py`) | user row, watch rows | add, remove, list | bot and API |
| Rate limiter (`security/ratelimit.py`, `apps/api/security.py`) | hits per key, in Redis or a process | hit, refuse, retry after | bot and API |
| Dashboard (`apps/dashboard/lib`) | access token, refresh cookie, shown user | request, refresh once, sign in, sign out | refresh tokens |
| Schema migrations (`database/migrations`, `docker/entrypoint.sh`) | revision, tables, keys, indexes | upgrade, downgrade, serve | every repository |
| API read routers, bot views, configuration, cryptography | - | - | - |

What makes it hard:

- **Transactions without locks.** Sessions run at READ COMMITTED and read a row,
  think, and write it later. Only `rotate` locks what it reads. An UPDATE writes
  the columns that changed relative to what was *loaded*.
- **No autoflush.** A changed attribute reaches the database at the next
  SAVEPOINT or at the commit; queries of the same session do not see it.
- **Queue and database are separate.** An id and its row are written by two
  systems, in both orders, and either can fail after the other succeeded.
- **At-most-once delivery.** A popped id exists only in the worker's memory.
- **Exceptions are swallowed in loops.** One bad record, match or relationship
  is skipped and what it has already written stays.
- **Markers and backoffs.** A due list or a marker read before an await or
  another command is used after it.

What makes each component correct is its list of properties in section 4;
`PROJECT.json` lists the hazards, each at its line, with the properties that
would catch it.

## 2. Modules

| Module | Models | Composition |
|---|---|---|
| `Jobs` | job rows, `_ALLOWED`, `transition`, the flush of changed columns | extended by `JobRunner` and `Investigations` |
| `JobQueue` | abstract specification of the `JobQueue` protocol | extended by `JobRunner`, implemented by both backends |
| `JobRunner` | submitters, cancel requests, workers | `Jobs` + `JobQueue` |
| `RedisJobQueue` | ZADD / ZRANGEBYSCORE / ZREM / LPUSH / BRPOP, one command per step, client crashes | instantiated by `QueueBackends` |
| `MemoryJobQueue` | the locked in-process queue, the moving clock | instantiated by `QueueBackends` |
| `QueueBackends` | `get_default_queue`; refinement to `JobQueue` | both backends, `JobQueue` |
| `TelegramEntities` | resolution by id or username, `_get_or_create`, batches | - |
| `EvidenceGraph` | observe, record, upsert, and the units of work that call them; merge_entities | - |
| `Investigations` | row, job, report row and files of one investigation | `Jobs`; extended by `Services` |
| `BotQuota` | guard, quota, referrals, two-message /investigate | extended by `Platform` |
| `RefreshTokens` | login, rotate, reuse, logout as transactions with row locks | extended by `Platform` |
| `Dashboard` | lib/api.ts, lib/auth.tsx: the browser's session over what `RefreshTokens` promises | extended by `Platform` |
| `Migrations` | five revisions as statements, the models' schema, the containers that migrate | extended by `Platform` |
| `Platform` | `RefreshTokens`, `Dashboard`, `Migrations` and `BotQuota`, each by itself | extends them |
| `Footprint` | what an investigation observes, counts, concludes and reports | extended by `Services` |
| `Watchlist` | the watch limit, re-activation, the user row | extended by `Services` |
| `RateLimiter` | both limiters, the two checks of an API request, the bot's check | extended by `Services` |
| `UsernameOsint` | adapters, the safe fetcher, scoring, the search | extended by `Services` |
| `TelegramSearch` | source, collector, ingestion and look-up by handle | extended by `Services` |
| `Reports` | row, files and citations of a report, downloads | extended by `Services` |
| `GraphView` | the bounded BFS, a SELECT per node | extended by `Services` |
| `Timeline` | the selects, merge and cut of a timeline | extended by `Services` |
| `Services` | `Investigations` and the services above, each by itself | - |
| `WatchMonitor` | scheduler, pollers, marker | - |
| `JobRunnerProofs`, `QueueBackendsProofs`, `WatchMonitorProofs`, `TelegramEntitiesProofs`, `EvidenceGraphProofs` | theorems about the component they are named after | extend their component |
| `PlatformProofs` | theorems about refresh tokens, the dashboard, the migrations and the bot's quota | extends `Platform` |
| `AnswersProofs` | the inductive invariants of limiter, graph view and both searches, and the lemmas on their operators | extends the four modules |
| `ServicesProofs` | theorems about `Services`: each service's property and all their types | extends `Services` and `AnswersProofs` |
| `MC*` | model values and symmetry for TLC | extend their component |

`Platform` and `Services` are unions, not compositions: the parts in them share no
state that is modelled, so a behaviour picks one part and the others stay in their
first state. TLC then checks each in one run, with its own invariants.

A definition named in the comment "Mutant: ..." is a plausible bug of the
definition it precedes; no specification uses it. Every property of a passing
run has one that violates it, and a property that is a conjunction of named parts
(section 4) has one for each part.

### How state and actions correspond to the code

**JobRunner.** `row` is the job table. A `session_scope` that reads a row and
later writes it is two actions, a read that fills a snapshot (`snap`, `subSnap`,
`canSnap`) and a write that flushes the columns that differ from it
(`Jobs!Flush`), because nothing locks the row in between. A worker's `pc`
follows `run_once`: `Pop` (BRPOP), `Load` and `Claim` (`_process` up to
RUNNING), `TickRead`/`TickWrite` (`progress()`), `HandlerReturn`/`HandlerRaise`
(`_dispatch` and the end of its session), `FinishRead`/`Complete`, `Deliver`,
and for a failure `FailRead`, `FailFlush`, `Requeue`, `RetryCommit`:
`_on_failure` flushes, enqueues and only then commits, so the row is locked and
the id is already visible to other workers. `EnqueueRaises` and `RequeueRaises`
let the queue raise before or after it took effect. `Crash` ends a worker
anywhere. What a handler does is one commit or rollback (`handled`). `attempts`,
`handled`, `results` and `failures` are history variables.

**Queues.** In `RedisJobQueue` each Redis command is one step of a client; `due`
is the list a client read and still works through, `hand` the id between ZREM
and LPUSH. In `MemoryJobQueue` the lock is explicit and the clock moves between
the two list comprehensions of `_promote`. In the refinement an id in `hand`
counts as still delayed; a client that dies with it is the abstract `Lose`.

**TelegramEntities.** `table` holds the committed rows, `view`/`loaded` a
session's identity map, `dirty` its unflushed and `written` its flushed,
uncommitted columns. `ById`, `ByName` and `Create` are the three stages of
`_resolve_telegram_entity`; `Create` is `_get_or_create` with its SAVEPOINT, its
race on the unique id and the flush of earlier backfills.

**EvidenceGraph.** An edge is a pair of ends (its rel_type follows) reduced to
its confidence; evidence is its unique key; a message is the node it was posted
in. A session (`tx`) has edges as loaded (`base`) and in memory (`mem`), pending
and flushed ones, and writes evidence and messages in SAVEPOINTs. One statement
of ingestion, enrichment, linking, correlation or merging is one action.
`OnRaise` says which loop catches an exception at each point. Each node has one
message and a blurb, both naming the same indicator. A merge first loads the
evidence of the dropped entity (`MergeRows`) and then repoints those rows by id
(`MergeEvidence`): `held` names the loaded rows by their current key, and follows
them (`Followed`) when another merge that had loaded them too commits first.

**Investigations.** The handler's transaction is one variable `tx` that commits
or is dropped; files are written on the way and survive a rollback. Each
attempt creates a report row of its own; the model names it by the attempt's
`retry_count`.

**BotQuota.** Updates are handled one at a time, so an update is one step. The
rate limiter's verdict and the success of the enqueue are choices.

**RefreshTokens.** A request is a transaction; `rotate` locks the row it reads,
`revoke` and `revoke_all` lock what they update, a waiting lock re-reads.
`parent` and `covered` are history variables.

**WatchMonitor.** `SchedRead`, `SchedCommit`, `SchedEnqueue` are
`schedule_due_watches`; a tick reads at most `BatchSize` of the due entries,
whichever, as `due_watchlist_ids` has a limit and no ORDER BY. A poll is `Begin`,
`Collect`, `Ingest`, `Commit`, and `StoreMarker` leaves the column alone when its
value did not change. `Ingest` skips any messages whose upsert raises. `posted` is
the public channel, `Window` what a source shows of it: the most recent messages,
which is the collector's documented contract ("recent public messages",
`collectors/telegram/collector.py:5-6`) and nothing the code enforces (section 7).
`OtherIngest` are collections that store other parts of the channel: a keyword
search (`Searchable`) whatever it hits. `missed` and `jumped` are history variables:
the messages without a row when an ingestion stored a later one. The watched
chat is a channel; a group beside which a keyword search has made a channel row of
the same name is not modelled.

**Footprint.** An attempt of `InvestigationService.run` is `BeginAttempt`,
`Profile`, `SearchPosts`, `Correlate` (its awaits), `Report` and `CommitAttempt`;
`RaiseAttempt` rolls back and the next attempt may be answered otherwise. A message
is what the classifier looks at: whether its author is the target, whether it
replies, what its text holds. The report takes its numbers from the attempt and
its lists from the rows read back (`Read`), as the code does.

**Dashboard.** `stored` and `cookie` are shared by all tabs; a `fetch` is sent,
refused, refreshed and sent again once. The server is what `RefreshTokens`
promises. `serial` and `quiet` are history variables for the conditions of the
two properties.

**Migrations.** A revision is its list of statements; a statement is refused when
the database would refuse it (a missing table, a table still referred to, an index
by another name). `Metadata` is written from `database/models`, the revisions from
`migrations/versions`, so `HeadMatchesModels` compares two independent texts.

**RateLimiter.** Time is ticks; Redis' pipeline is one step at the time its caller
read the clock, the removal of a refused hit and the look at the oldest come later
and may fail. `accepted` and `promise` are history variables.

**UsernameOsint.** Each adapter is a coroutine (`tasks`) with its own requests;
everything after the gather runs without an await and is one step (`Gathered`).

**TelegramSearch.** `type`, `holds` are Telegram's side, `rows` the three tables.
A search is the source's answer, the normalised records, ingestion and the second
look-up by handle; handles move between searches.

**Reports.** A generator writes the row's status, reads the sections one SELECT
after the other while evidence is committed, writes the files, commits. It may
raise or die in between and run again, also beside another.

**GraphView, Timeline.** One SELECT is one step; `Grow` and the `Commit...` actions
are other sessions. Which rows come first among equals is left open.

**Watchlist.** The bot's command is two transactions, the API's one; counting and
inserting are two steps. An insert waits for an uncommitted insert of the same key.

## 3. Plan

Done: (1) jobs, queue contract, runner, with proofs; (2) the two queues as
refinements; (3) watches; (4) tokens and the dashboard; (5) quota, with proofs;
(6) entities; (7) investigations and what they report; (8) the evidence graph;
(9) watchlist and rate limiter; (10) username and Telegram searches with their
collectors; (11) reports, graph view, timeline; (12) schema migrations.

(13) proofs for all of these: of every invariant the passing runs check, and of
every action property except `OwnLimitOnly` (section 6). (14) merges that overlap, by
row identity; polls whose window slides or whose messages are skipped.

What would add most from here are compositions: several processes that choose
their queue separately; `Dashboard` over `RefreshTokens` itself instead of what it
promises; a report's job with `JobRunner`'s deliveries.

## 4. Runs

| Run | Instance | Checks |
|---|---|---|
| `jobs` | 2 jobs (one from the bot; one from an uncompensated submitter, of unknown kind), 2 workers, 1 retry, 1 tick, one fault of each kind | see below |
| `job_live` | 2 jobs, 2 workers, 1 retry, no faults, cancellations | `EventuallySettled` |
| `job_completed_race` | 1 job, 1 worker | violation of `CompletedIsFinal` |
| `queues` | 2 ids, 2 clients, delays 1 and 2, clock to 4, 3 ids in the lists, 1 crash | refinement and losses |
| `entities` | 1 session, 2 ids, 2 names, batches of 3 | `ResolvedMatches`, `KeysNeverMove` |
| `entities_race` | 2 sessions, batches of 1 | violation of `KeysNeverMove` |
| `evidence_graph` | 2 sessions, 3 nodes, 3 units of work, 2 messages, 1 raise | `GraphConsistent`, `EvidenceKept`, `SerialWorkKeeps` |
| `investigations` | `Services`: 1 investigation with 3 retries, and each other service by itself (below) | a property or two for each |
| `refresh_tokens` | `Platform`: 3 requests and 3 tokens; a browser with 2 requests and 3 refresh tokens; 3 containers; for the bot 3 public users, 1 allow-listed, 1 free action, 2 referrals | `TokensSafe`, `SessionSafe`, `SchemaSafe`, `FreeCap`, `UnlockIsPermanent` |
| `watches` | 1 watch, 1 scheduler, 1 worker, 1 request, 3 messages of which a poll reads 2 and a search can hit one, 1 fault | `NothingSkipped`, `SerialPollsReportOnce` |
| `watches_live` | 2 watches, 2 schedulers, 1 worker, 1 fault | `KeepsPolling` |
| `watch_window` | limit 1, 3 messages | violation of `EveryEventReported` |

Where several statements are about the same thing, the run checks their
conjunction: the name in parentheses after a group below is that conjunction, and
the statements keep their names and comments in the module.

**jobs.** `Tokens`: a job id is in one place (unsent, queued once, held by one
worker, or gone) and gone for good once its handler committed or its outcome
was sent. From it: `HandlerExclusive`, `EffectsOnce`, `OutcomeOnce`.
`ResultBacked`: a result is recorded only with the handler's commit.
`AttemptsBounded`: at most `max_retries + 1` attempts, plus one for each
iteration that was cut off between enqueue and commit. `NoOrphan`: an unfinished
job has a submitter, a queue entry or a worker, unless something crashed or an
uncompensated enqueue failed (these three: `JobsAccounted`). `CancelledIsSkipped`: a cancelled job stays
cancelled and is not started, once no transaction that read it earlier is open.

**job_live.** Every created job reaches a terminal state and is left alone.

**queues.** `ImplementsQueue` is the refinement; `SingleCopy` says racing
promoters never double an id, `LossOnlyByCrash` that only a dying client loses
one, `NothingLost` and `DuePromoted` speak of the in-process queue (these three:
`KeepsIds`).

**entities.** Each record is attached to a row that shares a key with it, and a
key once stored is never replaced, in one unit of work after another.

**evidence_graph.** `ClaimsBacked` (an edge to an indicator or from a target
always has its evidence) and `EvidenceKept` (no observation disappears: its row is
only repointed, by the commit of a merge, to a survivor that had none like it; that
merge dropped the entity the row is about or, where units of work have overlapped,
had loaded the row when it was) hold for overlapping units of work;
`MessagesMatch`, `ConfidenceKept` and `MergeComplete` hold for units of work that
do not overlap, and fail otherwise (section 7). `GraphConsistent` is `ClaimsBacked`
and `MessagesMatch`, `SerialWorkKeeps` the other two. `EvidenceKept` speaks of
rows and leaves open which survivor has them: of two overlapping merges of one
entity, the first to commit loses what its survivor was given to the second
(section 7).

**investigations.** `LinkedReportExists`: a linked report is complete and on disk;
`ObservedOnce`: observations are stored exactly once, when the status becomes
COMPLETED (with two of `Footprint`: `InvestigationAccounts`).

The same run, for the other services:

- `Footprint`: a search of up to 2 messages out of 6 kinds, 2 platforms, 2 attempts.
  `ReportAccounts`: the report's numbers and its lists agree and each message found
  is listed once, whatever earlier attempts found. `OverallBacked`: mentions and
  references alone never make an investigation more than 60 sure, and what was not
  observable is not shown as observed.
- `Watchlist`: 2 sessions, 3 values, limit 1. `OneUserRow`; `OvershootBounded` says
  by how much the limit is exceeded: the adds in progress, and old watches switched
  on again (`WatchlistBounded`).
- `RateLimiter`: 2 users and an address, limit 1, burst 3, one process and Redis, a
  window of 2 ticks, one failure or slow request. `WindowLimit`,
  `RetryAfterHonest` (`LimiterKeepsWord`), `OwnLimitOnly`.
- `UsernameOsint`: GitHub, Reddit, Telegram and one web probe, 2 redirects.
  `NoSilentFailure`, `FetchBounded`, `PresenceMatches`, `SameAsCorroborated`
  (`FindingsSourced`).
- `TelegramSearch`: 2 entities of every type, 2 handles, 1 change of a handle, 3
  rows. `FreshIsFound`, `MessagesInTheirChat` (`AnswersMatch`).
- `Reports`: 2 generators, 2 entities with 2 evidence rows each, a section of 2, 2
  tries. `DownloadsAgree`, `CitedIsListed` (`ReportWhole`).
- `GraphView`: 4 entities, 2 edges per node, depths 1 and 2, at most 3 or 5 nodes,
  one edge committed meanwhile. `ViewIsNeighbourhood` (with `TimelineHonest`:
  `ViewsHonest`).
- `Timeline`: a target, a channel and an external account, 3 commits before or
  meanwhile, 2 events. `TimelineHonest`: a timeline that does not say it is
  truncated has every dated row there was when it was asked for, and a truncated
  one has left out no such row older than one it shows. It depends on the
  relationship (or evidence) that comes with a channel's messages: the messages are
  cut to the limit before they are merged, and that one row more is what makes the
  merged list exceed the limit.

**refresh_tokens.** A token has at most one successor (`OneSuccessor`), a login at
most one live token (`OneLiveTokenPerLogin`), and a detected reuse is committed
although the request fails (`ReuseRevokes`; these three: `TokensSafe`).

The same run, for the dashboard: `SerialRefreshKeepsSession` (renewals that do not
overlap and whose answers arrive never end in the reuse detection) and
`SignOutEnds` (`SessionSafe`); for the schema: `OnlyRacesRaise`, `SchemaOfRevision`,
`HeadMatchesModels`, `ServesOnHead` (`SchemaSafe`), over upgrades, downgrades to every revision
and two api containers beside the migrate service; for the bot: no public user gets
more than the free number of collections before enough others followed his link
(`FreeCap`), and an unlock is never lost (`UnlockIsPermanent`).

**watches.** `NothingSkipped`: however polls overlap, fail, return nothing and run
beside other collections, a message that the marker has passed without a report had
no row when a committed ingestion stored a later one. `EveryEventReported`, what the
code promises, is the same without that exception. It fails in three ways: more
messages than the limit between two polls (run `watch_window`), an upsert that
raises and is skipped, a keyword search that hits the later message only (these two
in section 7).
`SerialPollsReportOnce`: polls that do not overlap report once.

**watches_live.** An active watch is polled again and again, as long as a tick can
read every due entry (`BatchSize` is the number of watches). With more due
entries than the query's 200 nothing of the kind is promised: it has no ORDER BY.

The three violation runs are the findings of `PROJECT.json`.

### Bounds, and why they are enough

Two actors of each kind reach every pairwise race; three requests are used for
tokens because a reuse needs a rotation, a second presentation and a third
request that interferes. One retry separates "first", "retried" and "out of
retries"; one fault of each kind is enough since the properties count faults.
Three nodes are the fewest for two merges of one node into different survivors, and
three units of work let one of them give that node something to move; they also
allow content on two nodes followed by a merge, and a merge between two
ingestions. Three messages with limit 2 let the window of a poll slide past one
message; one fault is one batch with skipped messages, a failed poll or a crash. Three records per batch are the
smallest batch in which a pending backfill meets an insert and a later lookup.
`MaxTime`, `MaxLen`, `MaxTargets`, `MaxTokens`, `MaxRows`, `MaxMsgs`, `MaxUnits`
and `MaxQueued` only bound the state space; each is a guard of one action.

Limits are small so that they are reached: 2 events or evidence rows stand for 500
and 300, 2 edges for 100 and 2 redirects for the configured number. With a burst
multiplier of 2 one slow request already lets one user fill the shared key
(section 7), so `OwnLimitOnly` is checked with 3 and one slow request. The limiter
was also run with two failures or slow requests (1.5 million states). Two
attempts are enough for `ReportAccounts`: only what the first leaves behind can
disturb the second. Three commits are one more message than the two events a
timeline shows.

`CHECK_DEADLOCK FALSE` is used where the system really stops: an investigation
that is done, a search, report or view that has returned, and the evidence graph when its units of work are used up.

### Symmetry

Workers, requests, sessions, ids, names, nodes and public users are only ever
compared for equality, so permuting them is sound. In `Services` the parts share
model values, which is sound for the same reason and because they never move
together. No run with a liveness
property uses symmetry.

## 5. Fairness

`JobRunner!FairSpec`: weak fairness of a submitter that has created its row, of
the write of a cancel request that has read, of each worker's next step in a
job, of `Pop`, and of the promotion of each delayed id by some worker. Workers
are loops that always come back (`run_forever`), a request runs to its end, and
the clock moves, so a backoff passes. No fairness is given to new cancel
requests, to faults or to a particular outcome of a handler: a handler may fail
every time, and max_retries is what ends it.

`WatchMonitor!FairSpec`: weak fairness of time passing for a watch, of the
scheduler's steps and of each poller's. The scheduler runs between the jobs of a
worker (`_maybe_tick`). `KeepsPolling` does not assume that a poll succeeds; the
number of faults is bounded.

## 6. Proofs

`JobRunnerProofs` assumes `JobsAssumption` (the no-job value is not a job; bot
jobs and jobs of unknown kind are jobs) and `BoundsAssumption` (bounds are
natural numbers). The numbers of jobs, workers, retries and faults are
arbitrary.

- `TypeCorrect`: `Spec => []TypeOK`.
- `TokensInvariant`: `Spec => []Tokens`. None of the three results below is
  inductive: that two workers never run one handler depends on where copies of
  the id can be. `Tokens` says so: no id is twice in the ready list
  (`NoDuplicates`); an id is unsent, ready, delayed once or owned, never two of
  these (`OnePlace`); it has one owner (`OneOwner`); after the handler committed
  only its own worker, in the last phases, may still hold it (`HandledIsLast`);
  after an outcome was sent nobody does (`ToldIsLast`). A worker that has
  re-enqueued a retry and not yet committed (`retrycommit`) no longer owns it.
  `SendTokens` handles every action that puts an id in the queue, `QuietWorker`
  every one that puts none; the lemmas on `Append` and `Tail` carry the ready
  list.
- `HandlersExclusive`, `EffectsHappenOnce`, `OutcomeSentOnce`: consequences of
  the invariant and of the way `handled`, `results` and `failures` grow.
- `JobsAreAccounted`: `Spec => []JobsAccounted`, from three invariants.
  `ResultTraced` follows a result back to the worker that is past its handler's
  commit: a snapshot with a result is never ahead of the table. `AttemptsTraced`
  compares the attempts of a job with the retry counter of its row for each place
  the job can be in; in `_on_failure` it compares with the counter the worker has
  *read*, because the row still has the old one, and it says that this worker
  alone holds the row lock. `CarriersTraced` says, as long as nothing crashed
  (`Calm`), what a holder knows: one that is past the claim finds a row that is
  not PENDING, one that commits a retry has parked the id. All three rest on
  `SnapshotsFit`: nobody writes a transition that the state it read forbids.
- `CancellationStays`: `Spec => CancelledIsSkipped`, from `SnapshotsFit` and
  `Tokens`: a worker or submitter that writes over CANCELLED is a `StaleWriter`.

`QueueBackendsProofs` assumes `QueueAssumption` (positive delays, bounds).

- `BackendsTyped`, and `RedisKeepsOneCopy` by `CopiesFit`: an id is in the list
  once, in the sorted set, or in the hand of one client, and a client holds one id
  between ZREM and LPUSH. Callers that keep one copy per id are `SingleCopy`'s own
  condition; the promotion never breaks it, since only the client whose ZREM
  removed the member pushes it.
- `ParkedIdsAreKept`: step by step, from the counts of parked copies before and after
  each command; the entries of `InMemoryJobQueue` are counted by `CountIn`, with one
  lemma for each operation on its list.
- `BackendsImplementQueue`: the refinement. Redis' ready list is the abstract one;
  the abstract delayed count of an id is 1 if it is in the sorted set *or in a hand*
  (`Copied`), so ZREM is a stutter, LPUSH the abstract promotion, and a client that
  dies in between the abstract loss. Each command is shown to be a `QueueStep`.
  The backend that was not chosen stays as it was made (`BackendsApart`).

`PlatformProofs` assumes `TokensAssumption` and `DashboardAssumption` (the
numbers of tokens are natural), `MigrationsAssumption` (the migrate service is no
api), and for the bot `QuotaAssumption`: finitely many users, natural limits, "no
inviter" is no user. Requests, tabs and api containers are arbitrary sets.

- `TokensAreSafe`: `Spec => []TokensSafe`. `RequestsFit` says what a request has in
  hand in each phase, `RequestsApart` that no two requests hold the same row (the
  locks), `ChainsFit` that committed rows form chains in which a row with a
  successor is revoked. `OneLiveTokenPerLogin` then follows because a commit that
  adds the end of a chain revokes the previous end. `Root` is a recursive function,
  so its equation is proved first, by the smallest counterexample (`LeastElement`).
- `SessionIsSafe`: a behaviour of the union is one of each part (`PartsRunAlone`), so
  what is shown of the dashboard alone holds in it. `SessionSafe` needs `SerialFits` (in a session renewed
  serially the cookie is the newest token, or the answer to the one refresh in
  progress is) and `QuietFits` (after a sign-out from such a session the newest
  token is on its way to be revoked, or revoked). The server here is what
  `RefreshTokens` promises, as in the model.
- `SchemaIsSafe`: `PlatformSpec => []SchemaSafe`. The five revisions are data, so the
  proof first works out the schema of each (`SchemasAre`), shows for the statements
  of each revision, up and down, that none is refused and where they lead
  (`Leads(db, s, e)`: the script `s` has a run from `db` to `e`), and composes these
  into the script between any two revisions. `Script` and `SchemaAt` are recursive
  functions; their equations are proved like that of `Root`. The invariant
  `MigrationsInv` says that a transaction's draft is where its script has led
  (`DraftsFit`) and that compose lets the migrate service run alone, an api's alembic
  only at the last revision (`ApisFollow`). Hence nothing is ever refused, more than
  `OnlyRacesRaise` claims: the race that it excepts cannot happen under the
  entrypoints as they are.
- `FreeCapHolds`: `QuotaInv == QuotaTypeOK /\ Covered`, where `Covered` says that a
  public user who is not unlocked has been charged for every collection. It is
  needed because `FreeCap` speaks of collections and the guard of charges.
- `UnlockNeverLost`: a recorded inviter is never replaced, so the number of
  referrals never falls (monotonicity of cardinality).
- `PlatformTyped`: the four parts keep their types in the union.

`WatchMonitorProofs` assumes `WatchesAssumption` and `WatchBounds`.

- `MonitorTyped`, with `PollsFit`: the marker a poll is about to write is no older
  than the one it read and names a message it stores.
- `SerialPollsReport`: `SerialFits`, the poll at work has read the marker the entry
  still has.
- `NoMessageSkipped`: `Spec => []NothingSkipped`, for any limit and any number of
  messages. The marker alone is not inductive: a poll compares with everything
  stored, whoever stored it. `NoGaps` says that below a stored message each one is
  stored or jumped, that below one a poll is about to commit each is stored, about to
  be stored or missed by its ingestion, and that what lies between the marker a poll
  has read and the one it will write is among its activities, missed or jumped.

`TelegramEntitiesProofs` assumes `EntitiesAssumption` (NULL is no key). Sessions, keys
and the lengths of batches are arbitrary.

- `EntitiesTyped`: `Spec => []TypeOK`, for sessions that overlap in any way.
- `ResolvedRowsMatch`, `StoredKeysStay`: `Spec /\ []OneAtATime` implies
  `[]ResolvedMatches` and `KeysNeverMove`. `OneAtATime` says that of all sessions at
  most one is at work in any state; any number may follow one another, commit, roll
  back or fail. It is what the run `entities` has with its one session, and
  `entities_race` shows that without it a stored key is replaced. The invariant is
  `ViewFits`: in memory a key that the session has not changed is the committed one,
  and a key that is committed is not changed. Hence the row a query finds has that
  key in memory too (`InMemoryFits`), backfilling does not take it away, and a flush
  writes over NULLs only. When the insert of `_get_or_create` meets a row that the
  lookup just before did not, the id was pending in the session itself, so that row
  is loaded.

`EvidenceGraphProofs` assumes `GraphAssumption`: the target, the indicator and
"none" are no entities and nothing of these is a message number; confidences are
positive and ordered. Sessions and entities are arbitrary sets.

- `GraphTyped`, with `JobsFit`: what a unit of work is doing at each step.
- `GraphIsBacked`: `Spec => []ClaimsBacked` by `ClaimsInv`. The committed graph alone
  is not inductive: a session may commit an edge whose evidence it recorded in
  the same transaction, or that another one committed before, or (a link) will record
  only after the edge; `ClaimsAt` says which, place by place. A merge moves rows that
  were about the dropped entity only, hence never those an edge needs.
- `NoObservationLost`: `Spec => EvidenceKept`, from the same invariant and `HeldInv`,
  for any number of merges that overlap. `HeldInv` is about row identity: what a
  merge has loaded is still evidence, under the key it has by now (`Followed`); two
  loaded rows never come to have the same content; rows with an uncommitted UPDATE
  belong to one session; and while no work overlaps, loaded rows are those of the
  dropped entity. Commits preserve it because a merge waits for rows that another has
  updated and its new keys are nobody's (`KeysAreNew`).
- `GraphAgrees`, `SerialWorkOnlyAdds`: `AloneInv` describes a session that works
  alone: what it loaded is what is committed (`EdgesAlone`); at each step of a merge
  one more table is rid of the dropped entity and every edge dealt with has a
  replacement at least as strong (`MergeAlone`); an edge and a message row disagree
  only between the steps that repoint the one and the other (`PostedAlone`).

`ServicesProofs` assumes each service's assumption. A step of the union is a step of
one service (`ServicesStep`), so each proof is about one service.

- `WatchlistIsBounded`: `WatchAssumption`, finitely many sessions and at least one.
  The overshoot is not inductive: sessions that have passed the count and not yet
  committed matter. `Counted` adds them to the active rows; a session may pass
  only while the rows are below the limit, so the sum stays below the limit plus the
  number of sessions. Re-activated rows are excluded, as in the property.
- `ReportsAreWhole`: a file differs from the row only while a session that has
  written it is at work, or after one was lost or overlapped (`FilesFollow`); a
  session that ran alone has the files to itself (`AloneHas`); what its claims cite is
  among the newest rows the evidence section lists (`NewestEvidence`, `SectionLists`).
- `TimelineIsHonest`: `Selected`, every row that was there is in the list, among the
  messages cut away (and then as many messages as the limit, none of them later, are
  in the list: `CutBy`), or belongs to a select still to come. The step from there to the cut
  list (`CutIsHonest`) counts the rows.
- `InvestigationsAccount`: for the row, its job and its files, `HandlerFits` says
  what the worker's transaction has written at each step, and `ResultIsFinal` that
  nothing runs after a committed result, so observations are stored once. For what
  is found, `AttemptFits` says that an attempt's rows are built from what it was
  answered, and `FootInv` that only a committed attempt leaves rows and a dossier;
  numbers (`ReportCounts`) and confidence (`OverallIsBacked`) follow by the lemmas on
  the classifier and the confidence (`ClassifyFacts`, `OverallFacts`). The scores are
  bounded by 100, so that their maximum exists for any set of them, also an infinite
  one (`LargestScore`).

The next four rest on `AnswersProofs`, which has an invariant for each of the four
services, that it holds initially, that each step of the service keeps it and what
it implies. `ServicesProofs` carries them over to `ServicesSpec`.

- `LimiterIsTrue`: `RateAssumption`, finitely many calls and positive limits. What
  the property counts are the hits alive *now*; the invariant (`Owes`) has to speak
  of every later time: at no time from now on do the accepted hits and the refused
  ones that are still to be taken back (`Waiting`) outnumber the hits the store
  holds, accepted hits stay within the limit, and from the promised time on there is
  room. Dropping old hits, the in-memory limiter's or ZREMRANGEBYSCORE, changes no
  later count (`LeftKeeps`); a retry time is late enough because the oldest hit of
  a full window is then gone (`KeptPromise`). A failing call loses its hit or leaves
  it behind, and neither makes the count smaller than what was let through.
- `ViewsAreHonest`: `GraphViewAssumption`, finitely many entities; depths are 1 to 3,
  as the route allows. `NearEnough`: whatever is queued is within its depth of a seed
  in the graph as committed by now. `Distances`: there is a distance for each visited
  node such that the queue is sorted and spans at most two distances, and what is
  next to a node that was looked around is visited or queued one further. When the
  queue is empty, these distances bound those of the graph as it was before, so every
  entity within the depth is shown (`AllVisited`). `Ball` is a recursive function
  (`BallEquation`).
- `FindingsAreSourced`: `OsintAssumption`. `TaskFits` says what each adapter may
  return, and that what it requested was public and within the redirects; a search
  that has ended says what follows from its tasks (`Outcome`). Notes, presences and
  pairs are then statements about operators: an account's score is the highest of its
  pairs (`AccountScores`), and two accounts of which one is not GitHub's do not reach
  the threshold unless their display names share a word (`PairScores`).
- `AnswersAreRight`: `SearchAssumption`, finitely many entities, whose ids are no
  handles. `RowsTrue`: a row's handle is one its entity has had, and a fresh handle
  (the only one of its entity, and never of another) has one row per table at most. `LookupFits`: a source's answer is
  about one entity, the one that was asked for. An ingestion is the composition of its
  upserts (`Steps`), each of which keeps `RowsTrue` and fills only what was empty
  (`UpsertTrue`); so a second look-up by a fresh handle finds the row that was just
  written, and messages are filed under it (`FiledRight`).
- `ServicesTyped`: `ServicesSpec => []ServicesTypeOK`, from all the invariants above
  and what they do not need of the types (`RequestFits`, `TimelineFits`,
  `AttemptsFit`).

Only model-checked:

- liveness (`EventuallySettled`, `KeepsPolling`): outside the prover's reach;
- `OwnLimitOnly`: whether it holds depends on the burst and on how many requests may
  stall, not on the limiter alone (section 7), so there is no theorem for every
  value of the constants. The run checks it where one request may be slow and the
  shared key admits three times the hits of a user.

## 7. Divergences

What the documentation says and the code does not do. Those that name a run are
shown by it; the others were confirmed with TLC while modelling and are stated here so
that the properties' conditions can be understood.

Jobs and queue

- `CompletedIsFinal` (run `job_completed_race`): a cancel request that read
  RUNNING turns COMPLETED into CANCELLED.
- `workers/runner.py:7`, "a job cancelled mid-run still records its terminal
  state as CANCELLED": the worker's writes are computed from an earlier read
  (`runner.py:118`). A cancellation committed between a worker's read and its
  write is overwritten. Hence the `StaleWriter` condition of
  `CancelledIsSkipped`.
- `PHASE_13_FINAL_QA_REPORT.md:184`, a failing enqueue "marks the job FAILED
  instead of leaving an invisible PENDING orphan": true of `submit_job`, not of
  the API (`apps/api/routers/investigations.py:104`) and the scheduler
  (`workers/scheduler.py:43`), which do not catch it.
- `workers/queue.py:87-90`: a backoff can be cut short. Worker A reads the due
  list with j in it; B promotes j, runs it, fails and parks it again with a
  longer delay; A's ZREM removes that new entry and pushes j.
- `workers/queue.py:116`: a process that finds Redis down when it first asks for its
  queue uses a private in-memory queue from then on; what it enqueues no worker sees.

Entities

- `KeysNeverMove` (run `entities_race`).
- `database/models/telegram.py:27`, "keyed by numeric id where known": a record
  with an unknown id is attached to a row that has the same username and a
  different id (`entities.py:129`), so two accounts that used one name share a
  row.
- A username can be in two rows (a row known by id is given a name another row
  has, `entities.py:137`). Every later lookup by that name raises
  MultipleResultsFound.
- `ingest.py:98`, "one bad record must not sink the batch": a backfilled id that
  clashes (`entities.py:136`) fails at the next flush, after which the session is
  unusable and the whole batch is lost.

Evidence graph

- `relationships.py:33`, "confidence is kept at the maximum ever observed": two
  overlapping units of work that loaded the same edge write their own maximum;
  an edge at 55, observed at 75 by one and 60 by the other, may end at 60.
  Counts are lost the same way. `MessagesMatch` and `MergeComplete` also fail
  under overlap: what is ingested during a merge stays with the dropped entity.
- `merge_entities` of two entities that hold the same observation, or a message
  of the same number, always fails on the unique key (`resolver.py:257-270`,
  `242-255`); the merge is then rolled back.
- `models/evidence.py:87`, a merge repoints "from the dropped entity to the surviving
  one": rows are selected first and updated by id later
  (`resolver.py:257-270`), without a lock. If a merge of the same entity into another
  survivor commits in between, the second takes the rows away from that survivor,
  which it does not mention.
- `resolver.py:8-9`, the loser is "soft-marked": it is not, so later collections
  resolve to it again. Re-created edges start with a new first_seen and count,
  against `models/relationship.py:4-5`. Evidence of a target link keeps naming
  the dropped id.
- `extract_iocs` is called outside the `try` of `enrich.py:145`, and the blurb's
  enrichment (`ingest.py:118`) has none: a text with a URL whose port is out of
  range ends the batch, against `ingest.py:98` and the comment at `enrich.py:158`.
- `enrich.py:4`, "re-running adds nothing new": times_observed and
  observation_count grow with each run.

Investigations

- `PHASE_TELEGRAM_OSINT_REFACTOR_REPORT.md:177-178`, "QUEUED -> RUNNING ->
  {COMPLETED, FAILED}; CANCELLED via the job": a job that fails for good, is
  cancelled or was never enqueued leaves its investigation QUEUED, because the
  handler's transaction was rolled back or never ran.
- The same report, lines 172-173: a report failure is "noted". The note is
  appended (`service.py:186`) after `summary_json` was serialised
  (`service.py:164`), and is not stored.

- `service.py:234` reads `message_id` from a record's attributes, but the collector
  puts it in the natural key only (`collectors/telegram/collector.py:274`): `message_ref` is always null.
- A message search that fails has no records and an error nobody reads
  (`service.py:138-143`): the report says "0 public observation(s)".
- Messages that name no chat share the container key "unknown"
  (`collectors/telegram/collector.py:270`): two with one number count as duplicates and the second is
  dropped. A chat may be listed as two resources, by its link and by the
  collector's label for it.

Timeline and graph view

- `first_observed_at` is set nowhere, so the "First observed on Telegram" event of
  `timeline/builder.py:204` never appears.
- A relationship between a target and an entity resolved to it is listed twice, once
  for each end, and both count against the 500.
- LIMIT 100 per node drops edges without setting `truncated`; `truncated` is set when
  exactly `max_nodes` entities exist; edges between two nodes at the last depth are
  not shown.

Searches

- A failing Bot API call is reported as "not found", with no note; a search all of
  whose sources fail is COMPLETED all the same. E-mail and avatar never reach the
  score and only GitHub gives website and location, so the high band is out of reach.
- A channel or group found by a user name is stored as an account
  (`username/collector.py`); a `Location` that cannot be parsed and a Reddit profile
  with `"subreddit": null` raise out of the adapter (and become a note); Reddit JSON
  that is no object counts as an account.
- Telegram: a handle that has moved resolves to the old holder's row; a renamed
  entity keeps its old name (only empty attributes are filled), so a search by its
  new handle stores it and then finds nothing; an entity first stored without a
  handle plus a row that has only the handle become two rows of that name, after
  which every search for it raises MultipleResultsFound. A channel asked for as a
  group is stored and not found; a group asked for as a channel is stored as one.
  Messages of a chat whose record was skipped go to the only other chat.

Reports

- A bot that dies between the commit of the row and the submission of its job, or a
  job that fails for good, leaves the report PENDING. Files survive a rollback;
  overlapping or lost attempts leave files that differ from `content_json`.
- `builder.py:550`, "All findings are supported by the evidence in section 12": the
  section is capped at 300 rows over all entities, claims are not.

Rate limiter

- `apps/api/security.py:97`, "one user hitting their limit never blocks a different user
  behind the same IP": requests that stall between their two checks can fill the
  shared key with one user's hits. A limit of 0 is an IndexError in the in-memory
  limiter.

Dashboard

- Two tabs, or two requests of two tabs, that refresh at the same time present one
  cookie twice: the reuse detection signs the user out. The clear-cookie of its
  answer is lost with the response, because the endpoint raises.
- A refresh in progress during a sign-out leaves a live session; signing in before
  the sign-out is answered loses the new cookie; a lost sign-out goes unnoticed.
- `/auth/me` never refreshes, and any error of the first one drops the token:
  reloading the page with an expired access token signs the user out although the
  refresh cookie is good.

Bot

- `quota.py:4-5` and the docstring in `investigate.py:92-98`: a bare
  `/investigate` is charged when the prompt is shown (`investigate.py:75`), and
  the answer that names the target is charged again.

Watches

- `monitoring.py:4`, an activity "per genuinely new public event"
  (`EveryEventReported`): run `watch_window`. It also fails when the upsert of a
  message raises, is logged and skipped (`ingest.py:214`), while a later message of the
  batch is stored and moves the marker past it, and when a keyword search of a
  keyword watch (`monitoring.py:111`) stores a later message only. Polls that fail or return nothing while
  messages arrive make the first more likely, not less.
- `collectors/telegram/collector.py:5-6`, "recent public messages": no shipped source
  sees to that. The demo source returns the first messages in the order they were
  seeded, up to the limit (`source.py:147`), so with it a poll never sees what comes
  after the first 50; the others return none. `WatchMonitor` takes the
  contract at its word.
- `monitoring.py:5`, "so the next poll doesn't re-notify": overlapping polls
  report the same messages, and the later commit may lower the marker
  (`monitoring.py:80`), after which they are reported once more.

## 8. Not modelled

- Wording and rendering: report renderers, bot views and keyboards, dashboard pages.
  They keep no state whose order matters.
- The network itself: what Telegram and web sites answer is a choice in the models;
  what the code does with each answer is modelled.
- IOC extraction: regular expressions over text. What enrichment writes is in
  `EvidenceGraph`.
- Normalisers and target parsing: pure string functions; a key is a normalised model
  value, and a stored target that no longer parses is `Investigations!InvalidTarget`.
- Cryptography: tokens and passwords are model values.
- Configuration, logging, audit: constants, or never read by a guard.
- Read-only routes of the API and its middleware: queries over state that other
  modules own.
- Migrations: column types and CHECK constraints.
- Counters and timestamps of edges, evidence and entities: no guard reads them.
- Of the graph and the timeline: directions, labels, titles, grouping by year.
