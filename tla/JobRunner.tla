----------------------------- MODULE JobRunner ------------------------------
(***************************************************************************)
(* The background-job subsystem: submitters (apps/bot/jobs.py, POST        *)
(* /investigations, the watch scheduler), JobRunner worker processes       *)
(* (workers/runner.py) and cancel requests (POST /jobs/{id}/cancel,        *)
(* /cancel), around the shared job table and the queue.                    *)
(*                                                                         *)
(* Every session_scope that reads a row and later writes it is two steps,  *)
(* a read that keeps a snapshot and a write that flushes the changed       *)
(* columns: the code takes no row lock at the read (READ COMMITTED), so    *)
(* other transactions commit in between.  A flushed, uncommitted row is    *)
(* locked (Locked) until its transaction ends.                             *)
(***************************************************************************)
EXTENDS Jobs, JobQueue

CONSTANTS
    Workers,           \* worker processes, each one JobRunner.run_forever loop
    BotJobs,           \* jobs submitted through submit_job; the rest come from
                       \* callers that enqueue without handling its failure
    OrphanKinds,       \* jobs whose kind has no registered handler
    NoJob,             \* "this worker holds no job"
    MaxRetries,        \* Job.max_retries
    MaxTicks,          \* progress() calls a handler makes at most
    MaxSubmitFaults,   \* enqueue calls that raise while submitting
    MaxRequeueFaults,  \* enqueue calls that raise while rescheduling a retry
    MaxCrashes,        \* process crashes and aborted worker iterations
    MaxOutlasted       \* commits of _on_failure that take longer than the backoff

ASSUME JobsAssumption == /\ NoJob \notin Jobs
                         /\ BotJobs \subseteq Jobs
                         /\ OrphanKinds \subseteq Jobs
ASSUME BoundsAssumption == /\ MaxRetries \in Nat
                           /\ MaxTicks \in Nat
                           /\ MaxSubmitFaults \in Nat
                           /\ MaxRequeueFaults \in Nat
                           /\ MaxCrashes \in Nat
                           /\ MaxOutlasted \in Nat

VARIABLES
    row,            \* the job table
    sub, subSnap,   \* progress of j's submitter, and its snapshot of j's row
    can, canSnap,   \* progress of a cancel request for j, and its snapshot
    pc, cur, snap,  \* per worker: where it is, the job it holds, its snapshot
    ticks,          \* per worker: progress() calls made by the current handler
    attempts,       \* history: handler executions started, per job
    handled,        \* history: handler sessions committed, per job
    results,        \* history: result messages sent to the user, per job
    failures,       \* history: "Collection failed" messages sent, per job
    submitFaults, requeueFaults, crashes, outlasted

subVars == <<sub, subSnap>>
canVars == <<can, canSnap>>
workerVars == <<pc, cur, snap, ticks>>
userVars == <<results, failures>>
faultVars == <<submitFaults, requeueFaults, crashes, outlasted>>
vars == <<row, queueVars, subVars, canVars, workerVars, attempts, handled,
          userVars, faultVars>>

SubPhases == {"new", "created", "rejecting", "reject", "done", "dropped"}
CanPhases == {"none", "cancelling", "acked", "refused"}
Phases == {"idle", "loaded", "claim", "run", "tick", "finish", "complete", "notify",
           "failed", "failing", "requeue", "retrycommit", "notifyfail"}

\* Types; in particular a worker past dequeue holds a job, and no flush of a
\* stale snapshot leaves a column outside its domain (JobRunner._process).
TypeOK == /\ QueueTypeOK
          /\ row \in [Jobs -> Row]
          /\ sub \in [Jobs -> SubPhases]
          /\ subSnap \in [Jobs -> Row]
          /\ can \in [Jobs -> CanPhases]
          /\ canSnap \in [Jobs -> Row]
          /\ pc \in [Workers -> Phases]
          /\ cur \in [Workers -> Jobs \cup {NoJob}]
          /\ \A w \in Workers : pc[w] # "idle" => cur[w] \in Jobs
          /\ snap \in [Workers -> Row]
          /\ ticks \in [Workers -> 0..MaxTicks]
          /\ \A w \in Workers : pc[w] = "tick" => ticks[w] < MaxTicks
          /\ attempts \in [Jobs -> Nat]
          /\ handled \in [Jobs -> Nat]
          /\ results \in [Jobs -> Nat]
          /\ failures \in [Jobs -> Nat]
          /\ submitFaults \in 0..MaxSubmitFaults
          /\ requeueFaults \in 0..MaxRequeueFaults
          /\ crashes \in 0..MaxCrashes
          /\ outlasted \in 0..MaxOutlasted

Init == /\ QueueInit
        /\ row = [j \in Jobs |-> NewRow]
        /\ sub = [j \in Jobs |-> "new"]
        /\ subSnap = [j \in Jobs |-> NewRow]
        /\ can = [j \in Jobs |-> "none"]
        /\ canSnap = [j \in Jobs |-> NewRow]
        /\ pc = [w \in Workers |-> "idle"]
        /\ cur = [w \in Workers |-> NoJob]
        /\ snap = [w \in Workers |-> NewRow]
        /\ ticks = [w \in Workers |-> 0]
        /\ attempts = [j \in Jobs |-> 0]
        /\ handled = [j \in Jobs |-> 0]
        /\ results = [j \in Jobs |-> 0]
        /\ failures = [j \in Jobs |-> 0]
        /\ submitFaults = 0
        /\ requeueFaults = 0
        /\ crashes = 0
        /\ outlasted = 0

\* _on_failure has flushed its UPDATE of j and not committed yet.
Locked(j) == \E w \in Workers : /\ pc[w] \in {"requeue", "retrycommit"}
                                /\ cur[w] = j
-----------------------------------------------------------------------------
(* Submitting a job                                                        *)

\* JobRepository.create and commit.
Create(j) ==
    /\ sub[j] = "new"
    /\ sub' = [sub EXCEPT ![j] = "created"]
    /\ row' = [row EXCEPT ![j] = NewRow]
    /\ UNCHANGED <<queueVars, subSnap, canVars, workerVars, attempts, handled,
                   userVars, faultVars>>

SubmitEnqueue(j) ==
    /\ sub[j] = "created"
    /\ sub' = [sub EXCEPT ![j] = "done"]
    /\ Enqueue(j)
    /\ UNCHANGED <<row, subSnap, canVars, workerVars, attempts, handled,
                   userVars, faultVars>>

\* Mutant: the failure of enqueue is not compensated.
EnqueueRaisesUnhandled(j) ==
    /\ sub[j] = "created"
    /\ submitFaults < MaxSubmitFaults
    /\ submitFaults' = submitFaults + 1
    /\ sub' = [sub EXCEPT ![j] = "dropped"]
    /\ Enqueue(j) \/ UNCHANGED queueVars
    /\ UNCHANGED <<row, subSnap, canVars, workerVars, attempts, handled,
                   userVars, requeueFaults, crashes, outlasted>>

\* enqueue raises; a lost reply leaves the id in the queue all the same.
\* submit_job goes on to fail the row, the other callers let the error out.
EnqueueRaises(j) ==
    /\ sub[j] = "created"
    /\ submitFaults < MaxSubmitFaults
    /\ submitFaults' = submitFaults + 1
    /\ sub' = [sub EXCEPT ![j] = IF j \in BotJobs THEN "rejecting" ELSE "dropped"]
    /\ Enqueue(j) \/ UNCHANGED queueVars
    /\ UNCHANGED <<row, subSnap, canVars, workerVars, attempts, handled,
                   userVars, requeueFaults, crashes, outlasted>>

\* submit_job's except branch: transition(FAILED), read then flush + commit.
RejectRead(j) ==
    /\ sub[j] = "rejecting"
    /\ \/ /\ CanTransition(row[j].state, "FAILED")
          /\ sub' = [sub EXCEPT ![j] = "reject"]
          /\ subSnap' = [subSnap EXCEPT ![j] = row[j]]
       \/ /\ ~CanTransition(row[j].state, "FAILED")
          /\ sub' = [sub EXCEPT ![j] = "done"]
          /\ UNCHANGED subSnap
    /\ UNCHANGED <<row, queueVars, canVars, workerVars, attempts, handled,
                   userVars, faultVars>>

RejectWrite(j) ==
    /\ sub[j] = "reject"
    /\ ~Locked(j)
    /\ sub' = [sub EXCEPT ![j] = "done"]
    /\ subSnap' = [subSnap EXCEPT ![j] = NewRow]
    /\ row' = [row EXCEPT ![j] = Flush(@, subSnap[j],
                  Transition(subSnap[j], "FAILED", "queue unavailable", FALSE))]
    /\ UNCHANGED <<queueVars, canVars, workerVars, attempts, handled,
                   userVars, faultVars>>

\* The submitting process dies between its commit and the end of the request.
SubmitCrash(j) ==
    /\ sub[j] \in {"created", "rejecting", "reject"}
    /\ crashes < MaxCrashes
    /\ crashes' = crashes + 1
    /\ sub' = [sub EXCEPT ![j] = "dropped"]
    /\ subSnap' = [subSnap EXCEPT ![j] = NewRow]
    /\ UNCHANGED <<row, queueVars, canVars, workerVars, attempts, handled,
                   userVars, submitFaults, requeueFaults, outlasted>>
-----------------------------------------------------------------------------
(* Cancelling a job                                                        *)

CancelRead(j) ==
    /\ sub[j] # "new"
    /\ can[j] = "none"
    /\ \/ /\ ~IsTerminal(row[j].state)
          /\ can' = [can EXCEPT ![j] = "cancelling"]
          /\ canSnap' = [canSnap EXCEPT ![j] = row[j]]
       \/ /\ IsTerminal(row[j].state)
          /\ can' = [can EXCEPT ![j] = "refused"]
          /\ UNCHANGED canSnap
    /\ UNCHANGED <<row, queueVars, subVars, workerVars, attempts, handled,
                   userVars, faultVars>>

\* The requester is told "cancelled" when this commits.
CancelWrite(j) ==
    /\ can[j] = "cancelling"
    /\ ~Locked(j)
    /\ can' = [can EXCEPT ![j] = "acked"]
    /\ canSnap' = [canSnap EXCEPT ![j] = NewRow]
    /\ row' = [row EXCEPT ![j] = Flush(@, canSnap[j],
                  Transition(canSnap[j], "CANCELLED", "none", FALSE))]
    /\ UNCHANGED <<queueVars, subVars, workerVars, attempts, handled,
                   userVars, faultVars>>
-----------------------------------------------------------------------------
(* A worker: run_once                                                      *)

Goto(w, phase) == /\ pc' = [pc EXCEPT ![w] = phase]
                  /\ UNCHANGED <<cur, snap, ticks>>

\* The worker keeps a snapshot of the row it has just read.
ReadInto(w, phase) == /\ pc' = [pc EXCEPT ![w] = phase]
                      /\ snap' = [snap EXCEPT ![w] = row[cur[w]]]
                      /\ UNCHANGED <<cur, ticks>>

\* Back to the top of run_forever.
Return(w) == /\ pc' = [pc EXCEPT ![w] = "idle"]
             /\ cur' = [cur EXCEPT ![w] = NoJob]
             /\ snap' = [snap EXCEPT ![w] = NewRow]
             /\ ticks' = [ticks EXCEPT ![w] = 0]

\* dequeue, first half: an expired retry moves to the ready list, usually long
\* after the transaction that parked it has ended.
PromoteDue(w, j) ==
    /\ pc[w] = "idle"
    /\ Promote(j)
    /\ \/ ~Locked(j) /\ UNCHANGED outlasted
       \/ Locked(j) /\ outlasted < MaxOutlasted /\ outlasted' = outlasted + 1
    /\ UNCHANGED <<row, subVars, canVars, workerVars, attempts, handled,
                   userVars, submitFaults, requeueFaults, crashes>>

\* dequeue, second half: take the oldest ready id.
Pop(w, j) ==
    /\ pc[w] = "idle"
    /\ Dequeue(j)
    /\ pc' = [pc EXCEPT ![w] = "loaded"]
    /\ cur' = [cur EXCEPT ![w] = j]
    /\ UNCHANGED <<row, snap, ticks, subVars, canVars, attempts, handled,
                   userVars, faultVars>>

\* _process, first session: skip a finished job, else read it to claim it.
Load(w) ==
    /\ pc[w] = "loaded"
    /\ \/ /\ IsTerminal(row[cur[w]].state)
          /\ Return(w)
       \/ /\ ~IsTerminal(row[cur[w]].state)
          /\ ReadInto(w, "claim")
    /\ UNCHANGED <<row, queueVars, subVars, canVars, attempts, handled,
                   userVars, faultVars>>

\* Mutant: the claim already stores a result.
ClaimWithResult(w) ==
    LET j == cur[w]
        new == Transition(snap[w], "RUNNING", "none", TRUE)
    IN  /\ pc[w] = "claim"
        /\ ~Locked(j)
        /\ row' = [row EXCEPT ![j] = Flush(@, snap[w], new)]
        /\ Goto(w, "run")
        /\ attempts' = [attempts EXCEPT ![j] = @ + 1]
        /\ UNCHANGED <<queueVars, subVars, canVars, handled, userVars, faultVars>>

\* ... and its flush + commit: FAILED for a kind without a handler, otherwise
\* RUNNING.  A claim that changes nothing emits no UPDATE and waits for no lock.
Claim(w) ==
    LET j == cur[w]
        new == Transition(snap[w], "RUNNING", "none", FALSE)
    IN  /\ pc[w] = "claim"
        /\ \/ /\ j \in OrphanKinds
              /\ ~Locked(j)
              /\ row' = [row EXCEPT ![j] = Flush(@, snap[w],
                            Transition(snap[w], "FAILED", "no handler", FALSE))]
              /\ Return(w)
              /\ UNCHANGED attempts
           \/ /\ j \notin OrphanKinds
              /\ ~Locked(j) \/ new = snap[w]
              /\ row' = [row EXCEPT ![j] = Flush(@, snap[w], new)]
              /\ Goto(w, "run")
              /\ attempts' = [attempts EXCEPT ![j] = @ + 1]
        /\ UNCHANGED <<queueVars, subVars, canVars, handled, userVars, faultVars>>

\* ctx.progress(): a session of its own that transitions to RUNNING again,
\* and so raises inside the handler when the job is no longer runnable.
TickRead(w) ==
    /\ pc[w] = "run"
    /\ ticks[w] < MaxTicks
    /\ \/ /\ CanTransition(row[cur[w]].state, "RUNNING")
          /\ ReadInto(w, "tick")
       \/ /\ ~CanTransition(row[cur[w]].state, "RUNNING")
          /\ Goto(w, "failed")
    /\ UNCHANGED <<row, queueVars, subVars, canVars, attempts, handled,
                   userVars, faultVars>>

TickWrite(w) ==
    LET j == cur[w]
    IN  /\ pc[w] = "tick"
        /\ ~Locked(j)
        /\ row' = [row EXCEPT ![j] = Flush(@, snap[w],
                      Transition(snap[w], "RUNNING", "none", FALSE))]
        /\ ticks' = [ticks EXCEPT ![w] = @ + 1]
        /\ pc' = [pc EXCEPT ![w] = "run"]
        /\ UNCHANGED <<cur, snap, queueVars, subVars, canVars, attempts, handled,
                       userVars, faultVars>>

\* The handler returns and _dispatch's session commits its writes.
HandlerReturn(w) ==
    /\ pc[w] = "run"
    /\ handled' = [handled EXCEPT ![cur[w]] = @ + 1]
    /\ Goto(w, "finish")
    /\ UNCHANGED <<row, queueVars, subVars, canVars, attempts, userVars, faultVars>>

\* The handler raises and _dispatch's session rolls its writes back.
HandlerRaise(w) ==
    /\ pc[w] = "run"
    /\ Goto(w, "failed")
    /\ UNCHANGED <<row, queueVars, subVars, canVars, attempts, handled,
                   userVars, faultVars>>

\* Mutant: a refused completion is handled like a failed handler.
FinishReadRetries(w) ==
    /\ pc[w] = "finish"
    /\ \/ /\ CanTransition(row[cur[w]].state, "COMPLETED")
          /\ ReadInto(w, "complete")
       \/ /\ ~CanTransition(row[cur[w]].state, "COMPLETED")
          /\ Goto(w, "failed")
    /\ UNCHANGED <<row, queueVars, subVars, canVars, attempts, handled,
                   userVars, faultVars>>

\* _process, last session: a cancelled job is left alone, any other state
\* that does not allow COMPLETED aborts the iteration.
FinishRead(w) ==
    /\ pc[w] = "finish"
    /\ \/ /\ CanTransition(row[cur[w]].state, "COMPLETED")
          /\ ReadInto(w, "complete")
       \/ /\ ~CanTransition(row[cur[w]].state, "COMPLETED")
          /\ Return(w)
    /\ UNCHANGED <<row, queueVars, subVars, canVars, attempts, handled,
                   userVars, faultVars>>

Complete(w) ==
    LET j == cur[w]
    IN  /\ pc[w] = "complete"
        /\ ~Locked(j)
        /\ row' = [row EXCEPT ![j] = Flush(@, snap[w],
                      Transition(snap[w], "COMPLETED", "none", TRUE))]
        /\ Goto(w, "notify")
        /\ UNCHANGED <<queueVars, subVars, canVars, attempts, handled,
                       userVars, faultVars>>

\* _deliver: nobody to notify, or a failed send, is swallowed.
Deliver(w) ==
    /\ \/ /\ pc[w] = "notify"
          /\ \/ results' = [results EXCEPT ![cur[w]] = @ + 1]
             \/ UNCHANGED results
          /\ UNCHANGED failures
       \/ /\ pc[w] = "notifyfail"
          /\ \/ failures' = [failures EXCEPT ![cur[w]] = @ + 1]
             \/ UNCHANGED failures
          /\ UNCHANGED results
    /\ Return(w)
    /\ UNCHANGED <<row, queueVars, subVars, canVars, attempts, handled, faultVars>>
-----------------------------------------------------------------------------
(* A worker: _on_failure                                                   *)

\* A job that may not become FAILED (cancelled meanwhile) aborts the iteration.
FailRead(w) ==
    /\ pc[w] = "failed"
    /\ \/ /\ CanTransition(row[cur[w]].state, "FAILED")
          /\ ReadInto(w, "failing")
       \/ /\ ~CanTransition(row[cur[w]].state, "FAILED")
          /\ Return(w)
    /\ UNCHANGED <<row, queueVars, subVars, canVars, attempts, handled,
                   userVars, faultVars>>

\* Mutants: the retry records an investigation status; the last attempt is
\* taken for one with a retry left.
RetriedAsQueued(loaded) ==
    Transition(Transition(loaded, "FAILED", "handler error", FALSE), "QUEUED", "none", FALSE)
RetriesLeftOrEqual(loaded) == loaded.retry_count <= MaxRetries
Failed(loaded) == Transition(loaded, "FAILED", "handler error", FALSE)
Retried(loaded) == Transition(Failed(loaded), "PENDING", "none", FALSE)

RetriesLeft(loaded) == loaded.retry_count < MaxRetries

\* The first flush.  Retries left: the row stays locked, uncommitted, while the
\* id is enqueued.  None left: commit FAILED and tell the user.
FailFlush(w) ==
    LET j == cur[w]
    IN  /\ pc[w] = "failing"
        /\ ~Locked(j)
        /\ \/ /\ RetriesLeft(snap[w])
              /\ Goto(w, "requeue")
              /\ UNCHANGED row
           \/ /\ ~RetriesLeft(snap[w])
              /\ row' = [row EXCEPT ![j] = Flush(@, snap[w], Failed(snap[w]))]
              /\ Goto(w, "notifyfail")
        /\ UNCHANGED <<queueVars, subVars, canVars, attempts, handled,
                       userVars, faultVars>>

Requeue(w) ==
    /\ pc[w] = "requeue"
    /\ Park(cur[w])
    /\ Goto(w, "retrycommit")
    /\ UNCHANGED <<row, subVars, canVars, attempts, handled, userVars, faultVars>>

\* enqueue raises (its effect done or not): rollback, iteration aborted.
RequeueRaises(w) ==
    /\ pc[w] = "requeue"
    /\ requeueFaults < MaxRequeueFaults
    /\ requeueFaults' = requeueFaults + 1
    /\ Park(cur[w]) \/ UNCHANGED queueVars
    /\ Return(w)
    /\ UNCHANGED <<row, subVars, canVars, attempts, handled, userVars,
                   submitFaults, crashes, outlasted>>

\* Mutant: _on_failure goes on to the notification after scheduling a retry.
RetryCommitNotifies(w) ==
    LET j == cur[w]
    IN  /\ pc[w] = "retrycommit"
        /\ row' = [row EXCEPT ![j] =
                      Flush(Flush(@, snap[w], Failed(snap[w])),
                            Failed(snap[w]), Retried(snap[w]))]
        /\ Goto(w, "notifyfail")
        /\ UNCHANGED <<queueVars, subVars, canVars, attempts, handled,
                       userVars, faultVars>>

\* Both flushes of _on_failure become visible.
RetryCommit(w) ==
    LET j == cur[w]
    IN  /\ pc[w] = "retrycommit"
        /\ row' = [row EXCEPT ![j] =
                      Flush(Flush(@, snap[w], Failed(snap[w])),
                            Failed(snap[w]), Retried(snap[w]))]
        /\ Return(w)
        /\ UNCHANGED <<queueVars, subVars, canVars, attempts, handled,
                       userVars, faultVars>>

\* The process dies and is restarted, or a failing database makes run_forever
\* abandon the iteration: the open transaction rolls back, the id is gone.
Crash(w) ==
    /\ pc[w] # "idle"
    /\ crashes < MaxCrashes
    /\ crashes' = crashes + 1
    /\ Return(w)
    /\ UNCHANGED <<row, queueVars, subVars, canVars, attempts, handled, userVars,
                   submitFaults, requeueFaults, outlasted>>

\* ... or it dies inside dequeue with an expired retry in its hands.
CrashInDequeue(w, j) ==
    /\ pc[w] = "idle"
    /\ crashes < MaxCrashes
    /\ crashes' = crashes + 1
    /\ Lose(j)
    /\ UNCHANGED <<row, subVars, canVars, workerVars, attempts, handled,
                   userVars, submitFaults, requeueFaults, outlasted>>

\* dequeue times out on an empty list and the loop goes round.
Poll(w) == /\ pc[w] = "idle"
           /\ ready = <<>>
           /\ UNCHANGED vars
-----------------------------------------------------------------------------
SubmitStep(j) == \/ Create(j) \/ SubmitEnqueue(j) \/ EnqueueRaises(j)
                 \/ RejectRead(j) \/ RejectWrite(j) \/ SubmitCrash(j)

CancelStep(j) == CancelRead(j) \/ CancelWrite(j)

\* What run_once does with the job in hand.
Process(w) == \/ Load(w) \/ Claim(w) \/ TickRead(w) \/ TickWrite(w)
              \/ HandlerReturn(w) \/ HandlerRaise(w) \/ FinishRead(w)
              \/ Complete(w) \/ Deliver(w) \/ FailRead(w) \/ FailFlush(w)
              \/ Requeue(w) \/ RequeueRaises(w) \/ RetryCommit(w)

Next == \/ \E j \in Jobs : SubmitStep(j) \/ CancelStep(j)
        \/ \E w \in Workers : Process(w) \/ Crash(w) \/ Poll(w)
        \/ \E w \in Workers, j \in Jobs :
              PromoteDue(w, j) \/ Pop(w, j) \/ CrashInDequeue(w, j)

Spec == Init /\ [][Next]_vars

\* Submitters and workers keep running; cancel requests need not come, but one
\* that has been read is written.  Nothing forces a fault.
Fairness ==
    /\ \A j \in Jobs : /\ WF_vars(SubmitEnqueue(j) \/ RejectRead(j) \/ RejectWrite(j))
                       /\ WF_vars(CancelWrite(j))
                       /\ WF_vars(\E w \in Workers : PromoteDue(w, j))
    /\ \A w \in Workers : /\ WF_vars(Process(w))
                          /\ WF_vars(\E j \in Jobs : Pop(w, j))

FairSpec == Spec /\ Fairness
-----------------------------------------------------------------------------
(* Safety                                                                  *)

\* The phases in which a worker is the one carrier of its job: from dequeue
\* until the id is handed back to the queue or the outcome is delivered.
OwnerPhases == Phases \ {"idle", "retrycommit"}

Owns(w, j) == cur[w] = j /\ pc[w] \in OwnerPhases

InReady(j) == \E i \in 1..Len(ready) : ready[i] = j

Queued(j) == InReady(j) \/ delayed[j] > 0

Unsent(j) == sub[j] \in {"new", "created"}

\* While a handler of a job is running (JobRunner._dispatch), no other worker
\* runs or finishes a handler of the same job: the queue never delivers an id
\* to two workers, although retries, aborted iterations, half-failed enqueues
\* and promotions by several workers all move ids around.
HandlerExclusive ==
    \A v, w \in Workers : \A j \in Jobs :
        v # w => ~( /\ cur[v] = j /\ pc[v] \in {"run", "tick", "finish", "complete"}
                    /\ cur[w] = j /\ pc[w] \in {"run", "tick", "finish", "complete"} )

\* What a handler writes is committed at most once per job, whatever fails
\* after that commit: a job whose handler session committed is never rerun.
EffectsOnce == \A j \in Jobs : handled[j] <= 1

\* A user gets at most one outcome message per job, and never a result as
\* well as "Collection failed" (_process and _on_failure both deliver).
OutcomeOnce == \A j \in Jobs : results[j] + failures[j] <= 1

\* Why the three hold: a job is in one place at a time.  The invariant below is
\* inductive; JobRunnerProofs proves it and derives them from it.
NoDuplicates == \A i, k \in 1..Len(ready) : ready[i] = ready[k] => i = k

OnePlace ==
    \A j \in Jobs : /\ delayed[j] <= 1
                    /\ InReady(j) => delayed[j] = 0
                    /\ Queued(j) => ~Unsent(j)
                    /\ \A w \in Workers : Owns(w, j) => ~Queued(j) /\ ~Unsent(j)

OneOwner == \A v, w \in Workers : \A j \in Jobs : Owns(v, j) /\ Owns(w, j) => v = w

\* The phases after the handler's commit.
LatePhases == {"finish", "complete", "notify"}

\* A job leaves circulation for good when its handler commits ...
HandledIsLast ==
    \A j \in Jobs : handled[j] > 0 =>
        /\ handled[j] = 1
        /\ ~Queued(j) /\ ~Unsent(j)
        /\ \A w \in Workers : Owns(w, j) => pc[w] \in LatePhases

\* ... and when its user is told.
ToldIsLast ==
    \A j \in Jobs : results[j] + failures[j] > 0 =>
        /\ results[j] + failures[j] = 1
        /\ ~Queued(j) /\ ~Unsent(j)
        /\ \A w \in Workers : ~Owns(w, j)

\* An id is unsent, in the queue once, held by one worker, or gone; it is gone
\* for good once its handler has committed or its outcome was sent.  Retries,
\* aborted iterations, crashes and enqueues that fail after taking effect all
\* keep it so (JobRunner, submit_job, dequeue).
Tokens == NoDuplicates /\ OnePlace /\ OneOwner /\ HandledIsLast /\ ToldIsLast

\* A handler is started at most max_retries + 1 times; only an iteration
\* aborted between the enqueue and the commit of _on_failure, or a commit that
\* outlasts the backoff, so that the retry is not counted yet, adds one.
AttemptsBounded ==
    \A j \in Jobs :
        attempts[j] <= MaxRetries + 1 + crashes + requeueFaults + outlasted

\* Someone will still act on j: its submitter, the queue or a worker.
Carried(j) == \/ sub[j] \in {"created", "rejecting", "reject"}
              \/ Queued(j)
              \/ \E w \in Workers : cur[w] = j

\* "Don't leave a PENDING row the worker will never see" (submit_job): without
\* a crash, a committed unfinished job submitted by the bot always has a
\* carrier; one of another submitter has too unless its enqueue raised, and
\* retries keep it as long as their own enqueue succeeds and their commit
\* does not outlast the backoff.
NoOrphan ==
    \A j \in Jobs :
        /\ crashes = 0
        /\ outlasted = 0
        /\ requeueFaults = 0
        /\ j \in BotJobs \/ submitFaults = 0
        /\ sub[j] # "new"
        /\ ~IsTerminal(row[j].state)
        => Carried(j)

\* A worker, or the submitter, is about to write j's row from a snapshot that
\* does not show the cancellation.
StaleWriter(j) == \/ sub[j] = "reject" /\ subSnap[j].state # "CANCELLED"
                  \/ \E w \in Workers :
                        /\ cur[w] = j
                        /\ pc[w] \in {"claim", "tick", "complete", "failing",
                                     "requeue", "retrycommit"}
                        /\ snap[w].state # "CANCELLED"

\* "a job set to CANCELLED before it is picked up is skipped" and, once no
\* transaction that read the job before the cancellation is open, no worker
\* brings it back: it stays CANCELLED and no handler of it starts.
CancelledIsSkipped ==
    [][\A j \in Jobs :
          row[j].state = "CANCELLED" /\ ~StaleWriter(j)
          => row'[j].state = "CANCELLED" /\ attempts'[j] = attempts[j]]_vars

\* A result is recorded only with, or after, the handler's own commit, and the
\* user hears of a result only once it is recorded.
ResultBacked == \A j \in Jobs : /\ row[j].result => handled[j] > 0
                                /\ results[j] > 0 => row[j].result

\* The table, the queue and the history of a job account for each other: its
\* result for a handler that committed, its attempts for max_retries, and its
\* unfinished row for somebody who will act on it (_process, _on_failure,
\* submit_job).
JobsAccounted == ResultBacked /\ AttemptsBounded /\ NoOrphan

-----------------------------------------------------------------------------
(* Liveness                                                                *)

Settled(j) == IsTerminal(row[j].state) /\ ~Carried(j)

\* Every committed job settles in a terminal state, however often its handler
\* fails and whenever it is cancelled, as long as nothing crashes and the
\* queue accepts every id.
EventuallySettled == \A j \in Jobs : sub[j] = "created" ~> Settled(j)
-----------------------------------------------------------------------------
(* Statements of the documentation                                         *)

\* "no illegal transition is reachable -- enforced by _ALLOWED" (state-machine
\* review in PHASE_13_FINAL_QA_REPORT.md): COMPLETED, which _ALLOWED gives no
\* successor, is never left.
CompletedIsFinal ==
    [][\A j \in Jobs : row[j].state = "COMPLETED" => row'[j].state = "COMPLETED"]_vars
=============================================================================
