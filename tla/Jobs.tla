-------------------------------- MODULE Jobs --------------------------------
(***************************************************************************)
(* The job row and its state machine: database/models/job.py and           *)
(* JobRepository in database/repositories/jobs.py.                          *)
(*                                                                         *)
(* A row keeps the columns the state machine reads or writes.  Timestamps  *)
(* are reduced to "set / not set", result_json to "present / absent" and   *)
(* error to the call that wrote it.  progress is left out: no guard reads  *)
(* it.                                                                     *)
(***************************************************************************)
EXTENDS Naturals

JobState == {"PENDING", "RUNNING", "COMPLETED", "FAILED", "CANCELLED"}

\* Mutant of is_terminal: CANCELLED forgotten.
IsTerminalButCancelled(s) == s \in {"COMPLETED", "FAILED"}

IsTerminal(s) == s \in {"COMPLETED", "FAILED", "CANCELLED"}

Errors == {"none", "queue unavailable", "no handler", "handler error"}

Row == [state : JobState, retry_count : Nat, error : Errors,
        result : BOOLEAN, started_at : BOOLEAN, completed_at : BOOLEAN]

\* JobRepository.create: the column defaults of a new row.
NewRow == [state |-> "PENDING", retry_count |-> 0, error |-> "none",
           result |-> FALSE, started_at |-> FALSE, completed_at |-> FALSE]

Allowed == [s \in JobState |->
              CASE s = "PENDING"   -> {"RUNNING", "CANCELLED", "FAILED"}
                [] s = "RUNNING"   -> {"COMPLETED", "FAILED", "CANCELLED", "PENDING"}
                [] s = "COMPLETED" -> {}
                [] s = "FAILED"    -> {"PENDING"}
                [] s = "CANCELLED" -> {}]

\* JobRepository.transition raises IllegalJobStateTransition when this fails.
CanTransition(from, to) == to = from \/ to \in Allowed[from]

\* What transition() leaves in the session's copy of the row.
Transition(job, to, error, result) ==
    LET retried == to = "PENDING" /\ job.state = "FAILED"
    IN  [state        |-> to,
         retry_count  |-> job.retry_count + (IF retried THEN 1 ELSE 0),
         error        |-> IF error # "none" THEN error
                          ELSE IF retried THEN "none" ELSE job.error,
         result       |-> job.result \/ result,
         started_at   |-> job.started_at \/ to = "RUNNING",
         completed_at |-> job.completed_at \/ IsTerminal(to)]

\* The UPDATE a SQLAlchemy flush emits: only the columns whose value differs
\* from the loaded one are written, the others keep what the table holds now.
Column(stored, loaded, new) == IF new # loaded THEN new ELSE stored

Flush(stored, loaded, new) ==
    [state        |-> Column(stored.state, loaded.state, new.state),
     retry_count  |-> Column(stored.retry_count, loaded.retry_count, new.retry_count),
     error        |-> Column(stored.error, loaded.error, new.error),
     result       |-> Column(stored.result, loaded.result, new.result),
     started_at   |-> Column(stored.started_at, loaded.started_at, new.started_at),
     completed_at |-> Column(stored.completed_at, loaded.completed_at, new.completed_at)]
=============================================================================
