--------------------------- MODULE Investigations ---------------------------
(***************************************************************************)
(* One investigation from its request to its end: the row and its job as   *)
(* the bot (apps/bot/handlers/investigate.py) or the API                   *)
(* (apps/api/routers/investigations.py) create them, the job handler       *)
(* run_investigation, InvestigationService.run and the report              *)
(* generate_investigation_report writes.                                   *)
(*                                                                         *)
(* The handler works in one transaction that commits when it returns; the  *)
(* report's files are written on the way.  The races between workers and   *)
(* cancellations on the job row itself are in JobRunner: here one worker   *)
(* takes the job, and each of its transactions is one step.                *)
(***************************************************************************)
EXTENDS Jobs

CONSTANTS MaxRetries,   \* job.max_retries
          NoReport      \* report_id is NULL

ASSUME InvestigationsAssumption == MaxRetries \in Nat /\ NoReport \notin Nat

Status == {"none", "QUEUED", "RUNNING", "COMPLETED", "FAILED", "CANCELLED"}

Attempts == 0..MaxRetries

VARIABLES
    inv,       \* committed investigation row
    job,       \* committed job row
    made,      \* the job row exists
    queued,    \* the job id is in the queue
    pc,        \* the worker: where it is
    tx,        \* the worker's uncommitted investigation row
    files,     \* attempts whose report is on disk
    reports    \* per attempt: committed status of its report row

vars == <<inv, job, made, queued, pc, tx, files, reports>>

(* report: the attempt whose report the row links; observed: batches of    *)
(* observations stored.                                                    *)
InvRow == [status : Status, report : Attempts \cup {NoReport},
           observed : 0..(MaxRetries + 1)]

NoInv == [status |-> "none", report |-> NoReport, observed |-> 0]

(* Types; in particular no retry goes beyond max_retries, so every attempt *)
(* has its own report slot (_on_failure, run_investigation).               *)
TypeOK == /\ inv \in InvRow
          /\ job \in Row
          /\ job.retry_count \in Attempts
          /\ made \in BOOLEAN
          /\ queued \in BOOLEAN
          /\ pc \in {"idle", "claim", "start", "collect", "report", "progress",
                    "commit", "failing", "finish"}
          /\ tx \in InvRow
          /\ files \subseteq Attempts
          /\ reports \in [Attempts -> {"none", "PENDING", "COMPLETED"}]

Init == /\ inv = NoInv
        /\ job = NewRow
        /\ made = FALSE
        /\ queued = FALSE
        /\ pc = "idle"
        /\ tx = NoInv
        /\ files = {}
        /\ reports = [a \in Attempts |-> "none"]

Attempt == job.retry_count

SetStatus(row, s) == [row EXCEPT !.status = s]

(***************************************************************************)
(* The request                                                             *)
(***************************************************************************)

(* The bot commits the investigation, then submits the job; either may be  *)
(* the last thing it does.                                                 *)
BotCreate == /\ inv.status = "none"
             /\ inv' = SetStatus(inv, "QUEUED")
             /\ UNCHANGED <<job, made, queued, pc, tx, files, reports>>

BotSubmit == /\ inv.status = "QUEUED"
             /\ ~made
             /\ made' = TRUE
             /\ \/ queued' = TRUE /\ UNCHANGED job
                \/ queued' = FALSE
                   /\ job' = Transition(job, "FAILED", "queue unavailable", FALSE)
             /\ UNCHANGED <<inv, pc, tx, files, reports>>

(* The API commits both rows together and then enqueues.                   *)
ApiCreate == /\ inv.status = "none"
             /\ inv' = SetStatus(inv, "QUEUED")
             /\ made' = TRUE
             /\ queued' \in BOOLEAN
             /\ UNCHANGED <<job, pc, tx, files, reports>>

Cancel == /\ made
          /\ ~IsTerminal(job.state)
          /\ job' = Transition(job, "CANCELLED", "none", FALSE)
          /\ UNCHANGED <<inv, made, queued, pc, tx, files, reports>>

(***************************************************************************)
(* The worker                                                              *)
(***************************************************************************)
Take == /\ pc = "idle"
        /\ queued
        /\ queued' = FALSE
        /\ pc' = "claim"
        /\ UNCHANGED <<inv, job, made, tx, files, reports>>

Claim == /\ pc = "claim"
         /\ \/ /\ IsTerminal(job.state)
               /\ pc' = "idle"
               /\ UNCHANGED job
            \/ /\ ~IsTerminal(job.state)
               /\ job' = Transition(job, "RUNNING", "none", FALSE)
               /\ pc' = "start"
         /\ UNCHANGED <<inv, made, queued, tx, files, reports>>

(* ctx.progress: a transition to RUNNING in a transaction of its own.  On  *)
(* a cancelled job it raises, and the handler with it.                     *)
Progress(next) == pc' = IF CanTransition(job.state, "RUNNING") THEN next ELSE "failing"

(* The handler begins: progress 10, then the row RUNNING.                  *)
Start == /\ pc = "start"
         /\ Progress("collect")
         /\ tx' = SetStatus(inv, "RUNNING")
         /\ UNCHANGED <<inv, job, made, queued, files, reports>>

(* Progress 95, after the investigation has run.                           *)
Progress95 == /\ pc = "progress"
              /\ Progress("commit")
              /\ UNCHANGED <<inv, job, made, queued, tx, files, reports>>

(* The stored target no longer parses: FAILED, and the handler returns.    *)
InvalidTarget == /\ pc = "collect"
                 /\ tx' = SetStatus(tx, "FAILED")
                 /\ pc' = "progress"
                 /\ UNCHANGED <<inv, job, made, queued, files, reports>>

(* Observations, aliases, confidence and summary_json.                     *)
Summarise == /\ pc = "collect"
             /\ tx' = [tx EXCEPT !.observed = @ + 1]
             /\ pc' = "report"
             /\ UNCHANGED <<inv, job, made, queued, files, reports>>

(* Mutant: the row is completed without its files.                         *)
ReportOkUnwritten == /\ pc = "report"
                     /\ tx' = [tx EXCEPT !.report = Attempt, !.status = "COMPLETED"]
                     /\ pc' = "progress"
                     /\ UNCHANGED <<inv, job, made, queued, files, reports>>

(* The report: row, files, then the row completed and linked.              *)
ReportOk == /\ pc = "report"
            /\ files' = files \cup {Attempt}
            /\ tx' = [tx EXCEPT !.report = Attempt, !.status = "COMPLETED"]
            /\ pc' = "progress"
            /\ UNCHANGED <<inv, job, made, queued, reports>>

(* It raises, before or after the files are written: the investigation     *)
(* completes without it; the note goes to a list nobody stores any more.   *)
ReportFails == /\ pc = "report"
               /\ files' \in {files, files \cup {Attempt}}
               /\ tx' = SetStatus(tx, "COMPLETED")
               /\ pc' = "progress"
               /\ UNCHANGED <<inv, job, made, queued, reports>>

(* The handler's transaction commits, with the report row it created.      *)
Commit == /\ pc = "commit"
          /\ inv' = tx
          /\ reports' = IF tx.status = "FAILED" THEN reports
                        ELSE [reports EXCEPT ![Attempt] =
                                IF tx.report = Attempt THEN "COMPLETED" ELSE "PENDING"]
          /\ pc' = "finish"
          /\ UNCHANGED <<job, made, queued, tx, files>>

(* The handler raises anywhere before its commit: rollback.                *)
Raise == /\ pc \in {"collect", "report", "commit"}
         /\ pc' = "failing"
         /\ UNCHANGED <<inv, job, made, queued, tx, files, reports>>

(* _on_failure: a cancelled job refuses FAILED; otherwise it is retried    *)
(* while retries are left.                                                 *)
OnFailure ==
    /\ pc = "failing"
    /\ pc' = "idle"
    /\ LET failed == Transition(job, "FAILED", "handler error", FALSE)
       IN  \/ /\ ~CanTransition(job.state, "FAILED")
              /\ UNCHANGED <<job, queued>>
           \/ /\ CanTransition(job.state, "FAILED")
              /\ job.retry_count < MaxRetries
              /\ job' = Transition(failed, "PENDING", "none", FALSE)
              /\ queued' = TRUE
           \/ /\ CanTransition(job.state, "FAILED")
              /\ job.retry_count >= MaxRetries
              /\ job' = failed
              /\ UNCHANGED queued
    /\ UNCHANGED <<inv, made, tx, files, reports>>

(* Mutant: a finished job goes through _on_failure.                        *)
FinishRetries == /\ pc = "finish"
                 /\ pc' = "failing"
                 /\ UNCHANGED <<inv, job, made, queued, tx, files, reports>>

Finish == /\ pc = "finish"
          /\ pc' = "idle"
          /\ job' = IF CanTransition(job.state, "COMPLETED")
                    THEN Transition(job, "COMPLETED", "none", TRUE) ELSE job
          /\ UNCHANGED <<inv, made, queued, tx, files, reports>>

(* The worker dies: what is not committed is gone, files stay.             *)
Crash == /\ pc # "idle"
         /\ pc' = "idle"
         /\ UNCHANGED <<inv, job, made, queued, tx, files, reports>>

Next == \/ BotCreate \/ BotSubmit \/ ApiCreate \/ Cancel
        \/ Take \/ Claim \/ Start \/ Progress95 \/ InvalidTarget \/ Summarise \/ ReportOk \/ ReportFails
        \/ Commit \/ Raise \/ OnFailure \/ Finish \/ Crash

Spec == Init /\ [][Next]_vars

(***************************************************************************)
(* Properties                                                              *)
(***************************************************************************)

(* An investigation never links a report that is not finished or whose     *)
(* files are missing, whatever attempt produced it and wherever earlier    *)
(* attempts stopped (investigation_report.py:345-362).                     *)
LinkedReportExists ==
    inv.report # NoReport => reports[inv.report] = "COMPLETED" /\ inv.report \in files

(* However often the job is retried, its observations are stored once,     *)
(* and exactly when it completed (investigation/service.py:228).           *)
ObservedOnce == inv.observed = IF inv.status = "COMPLETED" THEN 1 ELSE 0
=============================================================================
