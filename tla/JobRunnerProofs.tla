-------------------------- MODULE JobRunnerProofs ---------------------------
(***************************************************************************)
(* Proofs about JobRunner: its type invariant, the conservation of job ids *)
(* (Tokens), and what follows from it for handlers and users; then what    *)
(* the table says of a job against its history and its carriers            *)
(* (JobsAccounted), and that a cancellation nobody has overtaken stays     *)
(* (CancelledIsSkipped).                                                   *)
(***************************************************************************)
EXTENDS JobRunner, TLAPS

\* JobRepository.create builds a well-typed row.
LEMMA NewRowType == NewRow \in Row
BY DEF NewRow, Row, JobState, Errors

\* JobRepository.transition keeps a row well-typed.
LEMMA TransitionType ==
    ASSUME NEW job \in Row, NEW to \in JobState, NEW error \in Errors,
           NEW result \in BOOLEAN
    PROVE  Transition(job, to, error, result) \in Row
<1>1. job.retry_count + (IF to = "PENDING" /\ job.state = "FAILED" THEN 1 ELSE 0) \in Nat
  BY DEF Row
<1>2. (IF error # "none" THEN error
       ELSE IF to = "PENDING" /\ job.state = "FAILED" THEN "none" ELSE job.error) \in Errors
  BY DEF Row, Errors
<1> QED
  BY <1>1, <1>2 DEF Transition, Row, IsTerminal

\* A flush mixes well-typed rows column by column.
LEMMA FlushType ==
    ASSUME NEW stored \in Row, NEW loaded \in Row, NEW new \in Row
    PROVE  Flush(stored, loaded, new) \in Row
BY DEF Flush, Column, Row

\* The rows _on_failure writes.
LEMMA FailureRowsType ==
    ASSUME NEW loaded \in Row
    PROVE  Failed(loaded) \in Row /\ Retried(loaded) \in Row
<1>1. Failed(loaded) \in Row
  BY TransitionType DEF Failed, JobState, Errors
<1>2. Retried(loaded) \in Row
  BY <1>1, TransitionType DEF Retried, JobState, Errors
<1> QED
  BY <1>1, <1>2
-----------------------------------------------------------------------------
LEMMA InitType == Init => TypeOK
BY NewRowType, BoundsAssumption
   DEF Init, TypeOK, QueueInit, QueueTypeOK, SubPhases, CanPhases, Phases

LEMMA SubmitType ==
    ASSUME TypeOK, NEW j \in Jobs, SubmitStep(j)
    PROVE  TypeOK'
<1> USE BoundsAssumption, NewRowType DEF TypeOK, QueueTypeOK, SubPhases
<1>1. CASE Create(j)
  BY <1>1 DEF Create, queueVars, canVars, workerVars, userVars, faultVars
<1>2. CASE SubmitEnqueue(j)
  BY <1>2 DEF SubmitEnqueue, Enqueue, canVars, workerVars, userVars, faultVars
<1>3. CASE EnqueueRaises(j)
  <2>1. CASE Enqueue(j)
    BY <1>3, <2>1 DEF EnqueueRaises, Enqueue, canVars, workerVars, userVars
  <2>2. CASE UNCHANGED queueVars
    BY <1>3, <2>2 DEF EnqueueRaises, queueVars, canVars, workerVars, userVars
  <2> QED
    BY <1>3, <2>1, <2>2 DEF EnqueueRaises
<1>4. CASE RejectRead(j)
  BY <1>4 DEF RejectRead, queueVars, canVars, workerVars, userVars, faultVars
<1>5. CASE RejectWrite(j)
  <2>1. Transition(subSnap[j], "FAILED", "queue unavailable", FALSE) \in Row
    BY TransitionType DEF JobState, Errors
  <2>2. row' \in [Jobs -> Row]
    BY <1>5, <2>1, FlushType DEF RejectWrite
  <2> QED
    BY <1>5, <2>2 DEF RejectWrite, queueVars, canVars, workerVars, userVars, faultVars
<1>6. CASE SubmitCrash(j)
  BY <1>6 DEF SubmitCrash, queueVars, canVars, workerVars, userVars
<1> QED
  BY <1>1, <1>2, <1>3, <1>4, <1>5, <1>6 DEF SubmitStep

LEMMA CancelType ==
    ASSUME TypeOK, NEW j \in Jobs, CancelStep(j)
    PROVE  TypeOK'
<1> USE NewRowType DEF TypeOK, QueueTypeOK, CanPhases
<1>1. CASE CancelRead(j)
  BY <1>1 DEF CancelRead, queueVars, subVars, workerVars, userVars, faultVars
<1>2. CASE CancelWrite(j)
  <2>1. Transition(canSnap[j], "CANCELLED", "none", FALSE) \in Row
    BY TransitionType DEF JobState, Errors
  <2>2. row' \in [Jobs -> Row]
    BY <1>2, <2>1, FlushType DEF CancelWrite
  <2> QED
    BY <1>2, <2>2 DEF CancelWrite, queueVars, subVars, workerVars, userVars, faultVars
<1> QED
  BY <1>1, <1>2 DEF CancelStep

\* Counting up for one job.
LEMMA CountType ==
    ASSUME NEW f \in [Jobs -> Nat], NEW j \in Jobs
    PROVE  [f EXCEPT ![j] = @ + 1] \in [Jobs -> Nat]
OBVIOUS

\* Where the control of a worker may be set.
LEMMA GotoType ==
    ASSUME TypeOK, NEW w \in Workers, pc[w] # "idle",
           NEW phase \in Phases, phase = "tick" => ticks[w] < MaxTicks,
           Goto(w, phase) \/ ReadInto(w, phase) \/ Return(w)
    PROVE  /\ pc' \in [Workers -> Phases]
           /\ cur' \in [Workers -> Jobs \cup {NoJob}]
           /\ \A v \in Workers : pc'[v] # "idle" => cur'[v] \in Jobs
           /\ snap' \in [Workers -> Row]
           /\ ticks' \in [Workers -> 0..MaxTicks]
           /\ \A v \in Workers : pc'[v] = "tick" => ticks'[v] < MaxTicks
<1> USE BoundsAssumption, NewRowType DEF TypeOK, Phases
<1>1. CASE Goto(w, phase)
  BY <1>1 DEF Goto
<1>2. CASE ReadInto(w, phase)
  BY <1>2 DEF ReadInto
<1>3. CASE Return(w)
  BY <1>3 DEF Return
<1> QED
  BY <1>1, <1>2, <1>3

LEMMA ProcessType ==
    ASSUME TypeOK, NEW w \in Workers, Process(w)
    PROVE  TypeOK'
<1> DEFINE Worker == /\ pc' \in [Workers -> Phases]
                     /\ cur' \in [Workers -> Jobs \cup {NoJob}]
                     /\ \A v \in Workers : pc'[v] # "idle" => cur'[v] \in Jobs
                     /\ snap' \in [Workers -> Row]
                     /\ ticks' \in [Workers -> 0..MaxTicks]
                     /\ \A v \in Workers : pc'[v] = "tick" => ticks'[v] < MaxTicks
           j == cur[w]
<1>0. pc[w] # "idle" => j \in Jobs /\ row[j] \in Row
  BY DEF TypeOK
<1>00. snap[w] \in Row
  BY DEF TypeOK
<1> USE DEF TypeOK, QueueTypeOK
<1>1. CASE Load(w)
  <2>1. Worker
    BY <1>1, GotoType DEF Load, Phases
  <2> QED
    BY <1>1, <2>1 DEF Load, queueVars, subVars, canVars, userVars, faultVars
<1>2. CASE Claim(w)
  <2>1. Worker
    BY <1>2, GotoType DEF Claim, Phases
  <2>2. /\ Transition(snap[w], "RUNNING", "none", FALSE) \in Row
        /\ Transition(snap[w], "FAILED", "no handler", FALSE) \in Row
    BY <1>00, TransitionType DEF JobState, Errors
  <2>3. row' \in [Jobs -> Row]
    <3>1. pc[w] = "claim"
      BY <1>2 DEF Claim
    <3>2. /\ Flush(row[j], snap[w], Transition(snap[w], "RUNNING", "none", FALSE)) \in Row
          /\ Flush(row[j], snap[w], Transition(snap[w], "FAILED", "no handler", FALSE)) \in Row
      BY <1>0, <1>00, <2>2, <3>1, FlushType
    <3>3. \/ row' = [row EXCEPT ![j] = Flush(@, snap[w], Transition(snap[w], "RUNNING", "none", FALSE))]
          \/ row' = [row EXCEPT ![j] = Flush(@, snap[w], Transition(snap[w], "FAILED", "no handler", FALSE))]
      BY <1>2 DEF Claim
    <3> QED
      BY <3>2, <3>3
  <2>4. attempts' \in [Jobs -> Nat]
    <3>1. \/ attempts' = attempts
          \/ attempts' = [attempts EXCEPT ![j] = @ + 1]
      BY <1>2 DEF Claim
    <3>2. j \in Jobs
      BY <1>0, <1>2 DEF Claim
    <3>3. [attempts EXCEPT ![j] = @ + 1] \in [Jobs -> Nat]
      BY <3>2, CountType
    <3> QED
      BY <3>1, <3>3
  <2> QED
    BY <1>2, <2>1, <2>3, <2>4 DEF Claim, queueVars, subVars, canVars, userVars, faultVars
<1>3. CASE TickRead(w)
  <2>1. Worker
    BY <1>3, GotoType DEF TickRead, Phases
  <2> QED
    BY <1>3, <2>1 DEF TickRead, queueVars, subVars, canVars, userVars, faultVars
<1>4. CASE TickWrite(w)
  <2>1. Transition(snap[w], "RUNNING", "none", FALSE) \in Row
    BY <1>00, TransitionType DEF JobState, Errors
  <2>2. row' \in [Jobs -> Row]
    BY <1>0, <1>00, <1>4, <2>1, FlushType DEF TickWrite
  <2>3. ticks' \in [Workers -> 0..MaxTicks]
    BY <1>4, BoundsAssumption DEF TickWrite
  <2>4. pc' \in [Workers -> Phases]
    BY <1>4 DEF TickWrite, Phases
  <2> QED
    BY <1>4, <2>2, <2>3, <2>4 DEF TickWrite, queueVars, subVars, canVars, userVars, faultVars
<1>5. CASE HandlerReturn(w)
  <2>1. Worker
    BY <1>5, GotoType DEF HandlerReturn, Phases
  <2>2. handled' \in [Jobs -> Nat]
    BY <1>0, <1>5, CountType DEF HandlerReturn
  <2> QED
    BY <1>5, <2>1, <2>2 DEF HandlerReturn, queueVars, subVars, canVars, userVars, faultVars
<1>6. CASE HandlerRaise(w)
  <2>1. Worker
    BY <1>6, GotoType DEF HandlerRaise, Phases
  <2> QED
    BY <1>6, <2>1 DEF HandlerRaise, queueVars, subVars, canVars, userVars, faultVars
<1>7. CASE FinishRead(w)
  <2>1. Worker
    BY <1>7, GotoType DEF FinishRead, Phases
  <2> QED
    BY <1>7, <2>1 DEF FinishRead, queueVars, subVars, canVars, userVars, faultVars
<1>8. CASE Complete(w)
  <2>1. Worker
    BY <1>8, GotoType DEF Complete, Phases
  <2>2. Transition(snap[w], "COMPLETED", "none", TRUE) \in Row
    BY <1>00, TransitionType DEF JobState, Errors
  <2>3. row' \in [Jobs -> Row]
    BY <1>0, <1>00, <1>8, <2>2, FlushType DEF Complete
  <2> QED
    BY <1>8, <2>1, <2>3 DEF Complete, queueVars, subVars, canVars, userVars, faultVars
<1>9. CASE Deliver(w)
  <2>1. Worker
    BY <1>9, GotoType DEF Deliver, Phases
  <2>2. results' \in [Jobs -> Nat] /\ failures' \in [Jobs -> Nat]
    <3>1. /\ \/ results' = results
             \/ results' = [results EXCEPT ![j] = @ + 1]
          /\ \/ failures' = failures
             \/ failures' = [failures EXCEPT ![j] = @ + 1]
      BY <1>9 DEF Deliver
    <3>2. j \in Jobs
      BY <1>0, <1>9 DEF Deliver
    <3>3. /\ [results EXCEPT ![j] = @ + 1] \in [Jobs -> Nat]
          /\ [failures EXCEPT ![j] = @ + 1] \in [Jobs -> Nat]
      BY <3>2, CountType
    <3> QED
      BY <3>1, <3>3
  <2> QED
    BY <1>9, <2>1, <2>2 DEF Deliver, queueVars, subVars, canVars, faultVars
<1>10. CASE FailRead(w)
  <2>1. Worker
    BY <1>10, GotoType DEF FailRead, Phases
  <2> QED
    BY <1>10, <2>1 DEF FailRead, queueVars, subVars, canVars, userVars, faultVars
<1>11. CASE FailFlush(w)
  <2>1. Worker
    BY <1>11, GotoType DEF FailFlush, Phases
  <2>2. row' \in [Jobs -> Row]
    <3>1. pc[w] # "idle" => Flush(row[j], snap[w], Failed(snap[w])) \in Row
      BY <1>0, <1>00, FailureRowsType, FlushType
    <3> QED
      BY <1>0, <1>11, <3>1 DEF FailFlush
  <2> QED
    BY <1>11, <2>1, <2>2 DEF FailFlush, queueVars, subVars, canVars, userVars, faultVars
<1>12. CASE Requeue(w)
  <2>1. Worker
    BY <1>12, GotoType DEF Requeue, Phases
  <2>2. QueueTypeOK'
    BY <1>0, <1>12 DEF Requeue, Park
  <2> QED
    BY <1>12, <2>1, <2>2 DEF Requeue, subVars, canVars, userVars, faultVars
<1>13. CASE RequeueRaises(w)
  <2>1. Worker
    BY <1>13, GotoType DEF RequeueRaises, Phases
  <2>2. QueueTypeOK'
    <3>1. CASE Park(j)
      BY <1>0, <1>13, <3>1, CountType DEF RequeueRaises, Park
    <3>2. CASE UNCHANGED queueVars
      BY <3>2 DEF queueVars
    <3> QED
      BY <1>13, <3>1, <3>2 DEF RequeueRaises
  <2>3. requeueFaults' \in 0..MaxRequeueFaults
    BY <1>13, BoundsAssumption DEF RequeueRaises
  <2> QED
    BY <1>13, <2>1, <2>2, <2>3 DEF RequeueRaises, subVars, canVars, userVars
<1>14. CASE RetryCommit(w)
  <2>1. Worker
    BY <1>14, GotoType DEF RetryCommit, Phases
  <2>2. /\ Failed(snap[w]) \in Row
        /\ Retried(snap[w]) \in Row
        /\ pc[w] # "idle" => Flush(row[j], snap[w], Failed(snap[w])) \in Row
    BY <1>0, <1>00, FailureRowsType, FlushType
  <2>3. row' \in [Jobs -> Row]
    BY <1>0, <1>14, <2>2, FlushType DEF RetryCommit
  <2> QED
    BY <1>14, <2>1, <2>3 DEF RetryCommit, queueVars, subVars, canVars, userVars, faultVars
<1> QED
  BY <1>1, <1>2, <1>3, <1>4, <1>5, <1>6, <1>7, <1>8, <1>9, <1>10, <1>11, <1>12,
     <1>13, <1>14 DEF Process

LEMMA WorkerType ==
    ASSUME TypeOK, NEW w \in Workers
    PROVE  /\ Crash(w) => TypeOK'
           /\ \A j \in Jobs : PromoteDue(w, j) \/ Pop(w, j) \/ CrashInDequeue(w, j) => TypeOK'
<1> USE BoundsAssumption
<1>1. ASSUME Crash(w) PROVE TypeOK'
  <2>1. pc[w] # "idle" /\ Return(w) /\ "idle" \in Phases
    BY <1>1 DEF Crash, Phases
  <2>2. /\ pc' \in [Workers -> Phases]
        /\ cur' \in [Workers -> Jobs \cup {NoJob}]
        /\ \A v \in Workers : pc'[v] # "idle" => cur'[v] \in Jobs
        /\ snap' \in [Workers -> Row]
        /\ ticks' \in [Workers -> 0..MaxTicks]
        /\ \A v \in Workers : pc'[v] = "tick" => ticks'[v] < MaxTicks
    BY <2>1, GotoType
  <2> QED
    BY <1>1, <2>2, SMTT(30)
       DEF Crash, TypeOK, QueueTypeOK, queueVars, subVars, canVars, userVars
<1>2. ASSUME NEW j \in Jobs, PromoteDue(w, j) PROVE TypeOK'
  <2>1. QueueTypeOK'
    <3>1. Promote(j) /\ QueueTypeOK
      BY <1>2 DEF PromoteDue, TypeOK
    <3> QED
      BY <3>1 DEF Promote, QueueTypeOK
  <2>2. outlasted' \in 0..MaxOutlasted
    BY <1>2 DEF PromoteDue, TypeOK
  <2>3. UNCHANGED <<row, sub, subSnap, can, canSnap, pc, cur, snap, ticks, attempts,
                    handled, results, failures, submitFaults, requeueFaults, crashes>>
    BY <1>2 DEF PromoteDue, subVars, canVars, workerVars, userVars
  <2> QED
    BY <2>1, <2>2, <2>3 DEF TypeOK
<1>3. ASSUME NEW j \in Jobs, Pop(w, j) PROVE TypeOK'
  <2>1. QueueTypeOK'
    BY <1>3 DEF Pop, Dequeue, TypeOK, QueueTypeOK
  <2> QED
    BY <1>3, <2>1 DEF Pop, TypeOK, Phases, subVars, canVars, userVars, faultVars
<1>4. ASSUME NEW j \in Jobs, CrashInDequeue(w, j) PROVE TypeOK'
  <2>1. QueueTypeOK'
    BY <1>4 DEF CrashInDequeue, Lose, TypeOK, QueueTypeOK
  <2> QED
    BY <1>4, <2>1 DEF CrashInDequeue, TypeOK, subVars, canVars, workerVars, userVars
<1> QED
  BY <1>1, <1>2, <1>3, <1>4

LEMMA StutterType == TypeOK /\ UNCHANGED vars => TypeOK'
BY DEF TypeOK, QueueTypeOK, vars, queueVars, subVars, canVars, workerVars, userVars, faultVars

\* Every step of submitters, cancel requests and workers keeps the types: in
\* particular a worker that is past dequeue always has a job in hand, and a
\* flush of a stale snapshot never leaves a value the column cannot hold.
THEOREM TypeCorrect == Spec => []TypeOK
<1>1. TypeOK /\ [Next]_vars => TypeOK'
  BY SubmitType, CancelType, ProcessType, WorkerType, StutterType DEF Next, Poll
<1> QED
  BY InitType, <1>1, PTL DEF Spec
-----------------------------------------------------------------------------
(* The queue's list                                                        *)

\* Enqueueing adds exactly one id to those in the list.
LEMMA AppendReady ==
    ASSUME ready \in Seq(Jobs), NEW j \in Jobs, ready' = Append(ready, j)
    PROVE  /\ \A k \in Jobs : InReady(k)' <=> InReady(k) \/ k = j
           /\ NoDuplicates /\ ~InReady(j) => NoDuplicates'
<1>1. /\ Len(ready') = Len(ready) + 1
      /\ \A i \in 1..Len(ready) : ready'[i] = ready[i]
      /\ ready'[Len(ready) + 1] = j
      /\ Len(ready) \in Nat
  OBVIOUS
<1>2. \A k \in Jobs : InReady(k)' <=> InReady(k) \/ k = j
  BY <1>1 DEF InReady
<1>3. ASSUME NoDuplicates, ~InReady(j)
      PROVE  NoDuplicates'
  BY <1>1, <1>3 DEF NoDuplicates, InReady
<1> QED
  BY <1>2, <1>3

\* Taking the head of a list without duplicates takes the id out of it.
LEMMA TailReady ==
    ASSUME ready \in Seq(Jobs), ready # <<>>, NEW j \in Jobs, j = Head(ready),
           ready' = Tail(ready), NoDuplicates
    PROVE  /\ InReady(j)
           /\ ~InReady(j)'
           /\ \A k \in Jobs : InReady(k)' => InReady(k)
           /\ NoDuplicates'
<1>1. /\ Len(ready) \in Nat \ {0}
      /\ Len(ready') = Len(ready) - 1
      /\ \A i \in 1..Len(ready') : ready'[i] = ready[i + 1]
      /\ j = ready[1]
  OBVIOUS
<1>2. InReady(j)
  BY <1>1 DEF InReady
<1>3. \A i \in 1..Len(ready') : ready'[i] # ready[1]
  BY <1>1 DEF NoDuplicates
<1>4. NoDuplicates'
  BY <1>1 DEF NoDuplicates
<1>5. \A k \in Jobs : InReady(k)' => InReady(k)
  BY <1>1 DEF InReady
<1> QED
  BY <1>1, <1>2, <1>3, <1>4, <1>5 DEF InReady
-----------------------------------------------------------------------------
(* Tokens is inductive                                                     *)

LEMMA InitTokens == Init => Tokens
BY DEF Init, QueueInit, Tokens, NoDuplicates, OnePlace, OneOwner, HandledIsLast,
       ToldIsLast, InReady, Queued, Owns, OwnerPhases

\* A step that puts no id anywhere: queue copies may disappear, owners may let
\* go or move on, but never from after the handler's commit to before it.
LEMMA QuietStep ==
    ASSUME TypeOK, Tokens,
           ready' = ready,
           delayed' \in [Jobs -> Nat],
           \A j \in Jobs : delayed'[j] <= delayed[j],
           \A j \in Jobs : Unsent(j)' => Unsent(j),
           handled' = handled, results' = results, failures' = failures,
           \A v \in Workers : \A j \in Jobs :
               Owns(v, j)' => Owns(v, j) /\ (pc[v] \in LatePhases => pc'[v] \in LatePhases)
    PROVE  Tokens'
<1>1. \A j \in Jobs : InReady(j)' <=> InReady(j)
  BY DEF InReady
<1>2. \A j \in Jobs : Queued(j)' => Queued(j)
  BY <1>1 DEF Queued, TypeOK, QueueTypeOK
<1>3. NoDuplicates'
  BY DEF Tokens, NoDuplicates
<1>4. OnePlace'
  BY <1>1, <1>2 DEF Tokens, OnePlace, TypeOK, QueueTypeOK
<1>5. OneOwner'
  BY DEF Tokens, OneOwner
<1>6. HandledIsLast'
  BY <1>2 DEF Tokens, HandledIsLast
<1>7. ToldIsLast'
  BY <1>2 DEF Tokens, ToldIsLast
<1> QED
  BY <1>3, <1>4, <1>5, <1>6, <1>7 DEF Tokens

\* A worker that moves to another phase takes its job along, ...
LEMMA MoveOwns ==
    ASSUME TypeOK, NEW w \in Workers, pc[w] \in OwnerPhases, NEW phase \in Phases,
           Goto(w, phase) \/ ReadInto(w, phase)
    PROVE  /\ pc'[w] = phase
           /\ \A v \in Workers : v # w => pc'[v] = pc[v]
           /\ \A v \in Workers : \A j \in Jobs : Owns(v, j)' => Owns(v, j)
<1>1. pc' = [pc EXCEPT ![w] = phase] /\ cur' = cur
  BY DEF Goto, ReadInto
<1> QED
  BY <1>1 DEF Owns, TypeOK

\* ... and one that returns to the loop lets it go.
LEMMA ReturnOwns ==
    ASSUME TypeOK, NEW w \in Workers, Return(w)
    PROVE  \A v \in Workers : \A j \in Jobs :
               Owns(v, j)' => v # w /\ Owns(v, j) /\ pc'[v] = pc[v]
BY DEF Return, Owns, OwnerPhases, TypeOK

\* An id is handed to the queue by whoever had it: nobody else owns it, and it
\* was not handled or reported before.
LEMMA SendTokens ==
    ASSUME TypeOK, Tokens, NEW j \in Jobs, ~Queued(j),
           \/ ready' = Append(ready, j) /\ delayed' = delayed
           \/ ready' = ready /\ delayed' = [delayed EXCEPT ![j] = @ + 1],
           handled[j] = 0, results[j] + failures[j] = 0,
           ~Unsent(j)', \A k \in Jobs : Unsent(k)' => Unsent(k),
           handled' = handled, results' = results, failures' = failures,
           \A v \in Workers : \A k \in Jobs : Owns(v, k)' => Owns(v, k) /\ k # j /\ pc'[v] = pc[v]
    PROVE  Tokens'
<1>1. /\ ready \in Seq(Jobs) /\ delayed \in [Jobs -> Nat]
      /\ ~InReady(j) /\ delayed[j] = 0
  BY DEF TypeOK, QueueTypeOK, Queued
<1>2. /\ NoDuplicates'
      /\ \A k \in Jobs : k # j => (InReady(k)' <=> InReady(k)) /\ delayed'[k] = delayed[k]
      /\ delayed'[j] <= 1 /\ (InReady(j)' => delayed'[j] = 0)
  <2>1. CASE ready' = Append(ready, j) /\ delayed' = delayed
    BY <1>1, <2>1, AppendReady DEF Tokens
  <2>2. CASE ready' = ready /\ delayed' = [delayed EXCEPT ![j] = @ + 1]
    <3>1. \A k \in Jobs : InReady(k)' <=> InReady(k)
      BY <2>2 DEF InReady
    <3>2. NoDuplicates'
      BY <2>2 DEF Tokens, NoDuplicates
    <3> QED
      BY <1>1, <2>2, <3>1, <3>2
  <2> QED
    BY <2>1, <2>2
<1>3. \A k \in Jobs : k # j => (Queued(k)' <=> Queued(k))
  BY <1>2 DEF Queued
<1>4. OnePlace'
  <2> SUFFICES ASSUME NEW k \in Jobs
               PROVE  /\ delayed'[k] <= 1
                      /\ InReady(k)' => delayed'[k] = 0
                      /\ Queued(k)' => ~Unsent(k)'
                      /\ \A w \in Workers : Owns(w, k)' => ~Queued(k)' /\ ~Unsent(k)'
    BY DEF OnePlace
  <2>1. CASE k = j
    BY <1>2, <2>1
  <2>2. CASE k # j
    BY <1>2, <1>3, <2>2 DEF Tokens, OnePlace
  <2> QED
    BY <2>1, <2>2
<1>5. OneOwner'
  BY DEF Tokens, OneOwner
<1>6. HandledIsLast'
  BY <1>3 DEF Tokens, HandledIsLast
<1>7. ToldIsLast'
  BY <1>3 DEF Tokens, ToldIsLast
<1> QED
  BY <1>2, <1>4, <1>5, <1>6, <1>7 DEF Tokens

LEMMA SubmitTokens ==
    ASSUME TypeOK, Tokens, NEW j \in Jobs, SubmitStep(j)
    PROVE  Tokens'
<1>0. delayed \in [Jobs -> Nat] /\ sub \in [Jobs -> SubPhases]
  BY DEF TypeOK, QueueTypeOK
<1>1. ASSUME UNCHANGED <<queueVars, workerVars, handled, userVars>>,
             \A k \in Jobs : Unsent(k)' => Unsent(k)
      PROVE  Tokens'
  <2>1. \A v \in Workers : \A k \in Jobs : Owns(v, k)' => Owns(v, k) /\ pc'[v] = pc[v]
    BY <1>1 DEF Owns, workerVars
  <2>2. /\ ready' = ready /\ delayed' = delayed /\ handled' = handled
        /\ results' = results /\ failures' = failures
    BY <1>1 DEF queueVars, userVars
  <2>3. \A k \in Jobs : delayed'[k] <= delayed[k]
    BY <1>0, <2>2
  <2> QED
    BY <1>0, <1>1, <2>1, <2>2, <2>3, QuietStep
<1>2. CASE Create(j) \/ RejectRead(j) \/ RejectWrite(j) \/ SubmitCrash(j)
  <2>1. UNCHANGED <<queueVars, workerVars, handled, userVars>>
    BY <1>2 DEF Create, RejectRead, RejectWrite, SubmitCrash
  <2>2. \A k \in Jobs : Unsent(k)' => Unsent(k)
    BY <1>0, <1>2 DEF Create, RejectRead, RejectWrite, SubmitCrash, Unsent
  <2> QED
    BY <1>1, <2>1, <2>2
<1>3. CASE SubmitEnqueue(j) \/ EnqueueRaises(j)
  <2>1. /\ sub[j] = "created"
        /\ sub'[j] \in {"done", "rejecting", "dropped"}
        /\ \A k \in Jobs : k # j => sub'[k] = sub[k]
    BY <1>0, <1>3 DEF SubmitEnqueue, EnqueueRaises
  <2>2. ~Unsent(j)' /\ \A k \in Jobs : Unsent(k)' => Unsent(k)
    BY <2>1 DEF Unsent
  <2>3. /\ Unsent(j) /\ ~Queued(j)
        /\ handled[j] = 0 /\ results[j] + failures[j] = 0
        /\ \A w \in Workers : ~Owns(w, j)
    <3>1. Unsent(j)
      BY <2>1 DEF Unsent
    <3>2. ~Queued(j) /\ \A w \in Workers : ~Owns(w, j)
      BY <3>1 DEF Tokens, OnePlace
    <3>3. handled[j] \in Nat /\ results[j] \in Nat /\ failures[j] \in Nat
      BY DEF TypeOK
    <3> QED
      BY <3>1, <3>2, <3>3 DEF Tokens, HandledIsLast, ToldIsLast
  <2>4. /\ handled' = handled /\ results' = results /\ failures' = failures
        /\ pc' = pc /\ cur' = cur
    BY <1>3 DEF SubmitEnqueue, EnqueueRaises, workerVars, userVars
  <2>5. \A v \in Workers : \A k \in Jobs : Owns(v, k)' => Owns(v, k) /\ k # j /\ pc'[v] = pc[v]
    BY <2>3, <2>4 DEF Owns
  <2>6. CASE Enqueue(j)
    BY <2>2, <2>3, <2>4, <2>5, <2>6, SendTokens DEF Enqueue
  <2>7. CASE UNCHANGED queueVars
    <3>1. ready' = ready /\ delayed' = delayed /\ \A k \in Jobs : delayed'[k] <= delayed[k]
      BY <1>0, <2>7 DEF queueVars
    <3> QED
      BY <1>0, <2>2, <2>4, <2>5, <3>1, QuietStep
  <2> QED
    BY <1>3, <2>6, <2>7 DEF SubmitEnqueue, EnqueueRaises
<1> QED
  BY <1>2, <1>3 DEF SubmitStep

LEMMA CancelTokens ==
    ASSUME TypeOK, Tokens, NEW j \in Jobs, CancelStep(j)
    PROVE  Tokens'
<1>1. UNCHANGED <<queueVars, subVars, workerVars, handled, userVars>>
  BY DEF CancelStep, CancelRead, CancelWrite
<1>2. /\ ready' = ready /\ delayed' = delayed /\ handled' = handled
      /\ results' = results /\ failures' = failures /\ sub' = sub
      /\ pc' = pc /\ cur' = cur
  BY <1>1 DEF queueVars, subVars, workerVars, userVars
<1>3. /\ \A v \in Workers : \A k \in Jobs : Owns(v, k)' => Owns(v, k) /\ pc'[v] = pc[v]
      /\ \A k \in Jobs : Unsent(k)' => Unsent(k)
      /\ delayed' \in [Jobs -> Nat] /\ \A k \in Jobs : delayed'[k] <= delayed[k]
  BY <1>2 DEF Owns, Unsent, TypeOK, QueueTypeOK
<1> QED
  BY <1>2, <1>3, QuietStep

\* The worker steps that put no id anywhere, and a crash: the worker moves on,
\* from a late phase only to a late one, or returns.
LEMMA QuietWorker ==
    ASSUME TypeOK, Tokens, NEW w \in Workers,
           UNCHANGED <<queueVars, subVars, handled, userVars>>,
           \/ Return(w)
           \/ \E phase \in Phases :
                  /\ pc[w] \in OwnerPhases
                  /\ Goto(w, phase) \/ ReadInto(w, phase)
                  /\ pc[w] \in LatePhases => phase \in LatePhases
    PROVE  Tokens'
<1>1. /\ ready' = ready /\ delayed' = delayed /\ handled' = handled
      /\ results' = results /\ failures' = failures /\ sub' = sub
  BY DEF queueVars, subVars, userVars
<1>2. /\ \A k \in Jobs : Unsent(k)' => Unsent(k)
      /\ delayed' \in [Jobs -> Nat] /\ \A k \in Jobs : delayed'[k] <= delayed[k]
  BY <1>1 DEF Unsent, TypeOK, QueueTypeOK
<1>3. \A v \in Workers : \A j \in Jobs :
          Owns(v, j)' => Owns(v, j) /\ (pc[v] \in LatePhases => pc'[v] \in LatePhases)
  <2>1. CASE Return(w)
    BY <2>1, ReturnOwns
  <2>2. ASSUME NEW phase \in Phases, pc[w] \in OwnerPhases,
               Goto(w, phase) \/ ReadInto(w, phase),
               pc[w] \in LatePhases => phase \in LatePhases
        PROVE  \A v \in Workers : \A j \in Jobs :
                  Owns(v, j)' => Owns(v, j) /\ (pc[v] \in LatePhases => pc'[v] \in LatePhases)
    BY <2>2, MoveOwns
  <2> QED
    BY <2>1, <2>2
<1> QED
  BY <1>1, <1>2, <1>3, QuietStep

LEMMA ProcessTokens ==
    ASSUME TypeOK, Tokens, NEW w \in Workers, Process(w)
    PROVE  Tokens'
<1> DEFINE j == cur[w]
<1>0. pc[w] # "idle" => /\ j \in Jobs
                        /\ handled[j] \in Nat /\ results[j] \in Nat /\ failures[j] \in Nat
  BY DEF TypeOK
<1> USE DEF OwnerPhases, LatePhases, Phases
<1>1. CASE Load(w)
  BY <1>1, QuietWorker DEF Load
<1>2. CASE Claim(w)
  BY <1>2, QuietWorker DEF Claim
<1>3. CASE TickRead(w)
  BY <1>3, QuietWorker DEF TickRead
<1>4. CASE TickWrite(w)
  <2>1. /\ pc[w] = "tick" /\ pc' = [pc EXCEPT ![w] = "run"] /\ cur' = cur
        /\ UNCHANGED <<queueVars, subVars, handled, userVars>>
    BY <1>4 DEF TickWrite
  <2>2. \A v \in Workers : \A k \in Jobs :
          Owns(v, k)' => Owns(v, k) /\ (pc[v] \in LatePhases => pc'[v] \in LatePhases)
    BY <2>1 DEF Owns, TypeOK
  <2>3. /\ \A k \in Jobs : Unsent(k)' => Unsent(k)
        /\ delayed' \in [Jobs -> Nat] /\ \A k \in Jobs : delayed'[k] <= delayed[k]
    BY <2>1 DEF Unsent, TypeOK, QueueTypeOK, queueVars, subVars
  <2> QED
    BY <2>1, <2>2, <2>3, QuietStep DEF queueVars, userVars
<1>5. CASE HandlerReturn(w)
  <2>1. /\ pc[w] = "run" /\ Goto(w, "finish")
        /\ handled' = [handled EXCEPT ![j] = @ + 1]
        /\ UNCHANGED <<queueVars, subVars, userVars>>
    BY <1>5 DEF HandlerReturn
  <2>2. j \in Jobs /\ Owns(w, j)
    BY <1>0, <2>1 DEF Owns
  <2>3. /\ handled[j] = 0 /\ ~Queued(j) /\ ~Unsent(j)
        /\ \A v \in Workers : Owns(v, j) => v = w
    BY <1>0, <2>1, <2>2 DEF Tokens, HandledIsLast, OnePlace, OneOwner
  <2>4. /\ pc'[w] = "finish"
        /\ \A v \in Workers : v # w => pc'[v] = pc[v]
        /\ \A v \in Workers : \A k \in Jobs : Owns(v, k)' => Owns(v, k)
    BY <2>1, MoveOwns
  <2>5. /\ \A k \in Jobs : Unsent(k)' <=> Unsent(k)
        /\ \A k \in Jobs : InReady(k)' <=> InReady(k)
        /\ \A k \in Jobs : Queued(k)' <=> Queued(k)
    <3>1. ready' = ready /\ delayed' = delayed /\ sub' = sub
      BY <2>1 DEF queueVars, subVars
    <3> QED
      BY <3>1 DEF Unsent, InReady, Queued
  <2>6. handled'[j] = 1 /\ \A k \in Jobs : k # j => handled'[k] = handled[k]
    BY <2>1, <2>2, <2>3 DEF TypeOK
  <2>7. NoDuplicates'
    BY <2>1 DEF Tokens, NoDuplicates, queueVars
  <2>8. OnePlace'
    BY <2>1, <2>4, <2>5 DEF Tokens, OnePlace, queueVars
  <2>9. OneOwner'
    BY <2>4 DEF Tokens, OneOwner
  <2>10. HandledIsLast'
    <3> SUFFICES ASSUME NEW k \in Jobs, handled'[k] > 0
                 PROVE  /\ handled'[k] = 1 /\ ~Queued(k)' /\ ~Unsent(k)'
                        /\ \A v \in Workers : Owns(v, k)' => pc'[v] \in LatePhases
      BY DEF HandledIsLast
    <3>1. CASE k = j
      BY <2>3, <2>4, <2>5, <2>6, <3>1
    <3>2. CASE k # j
      BY <2>4, <2>5, <2>6, <3>2 DEF Tokens, HandledIsLast
    <3> QED
      BY <3>1, <3>2
  <2>11. ToldIsLast'
    BY <2>1, <2>4, <2>5 DEF Tokens, ToldIsLast, userVars
  <2> QED
    BY <2>7, <2>8, <2>9, <2>10, <2>11 DEF Tokens
<1>6. CASE HandlerRaise(w)
  BY <1>6, QuietWorker DEF HandlerRaise
<1>7. CASE FinishRead(w)
  BY <1>7, QuietWorker DEF FinishRead
<1>8. CASE Complete(w)
  BY <1>8, QuietWorker DEF Complete
<1>9. CASE Deliver(w)
  <2>1. /\ pc[w] \in {"notify", "notifyfail"} /\ Return(w)
        /\ UNCHANGED <<queueVars, subVars, handled>>
        /\ \/ results' = results
           \/ results' = [results EXCEPT ![j] = @ + 1] /\ failures' = failures
        /\ \/ failures' = failures
           \/ failures' = [failures EXCEPT ![j] = @ + 1] /\ results' = results
    BY <1>9 DEF Deliver
  <2>2. j \in Jobs /\ Owns(w, j)
    BY <1>0, <2>1 DEF Owns
  <2>3. /\ results[j] + failures[j] = 0 /\ ~Queued(j) /\ ~Unsent(j)
        /\ \A v \in Workers : Owns(v, j) => v = w
    BY <1>0, <2>1, <2>2 DEF Tokens, ToldIsLast, OnePlace, OneOwner
  <2>4. /\ \A v \in Workers : \A k \in Jobs :
              Owns(v, k)' => v # w /\ Owns(v, k) /\ pc'[v] = pc[v]
        /\ \A k \in Jobs : Unsent(k)' <=> Unsent(k)
        /\ \A k \in Jobs : InReady(k)' <=> InReady(k)
        /\ \A k \in Jobs : Queued(k)' <=> Queued(k)
    <3>1. ready' = ready /\ delayed' = delayed /\ sub' = sub
      BY <2>1 DEF queueVars, subVars
    <3> QED
      BY <2>1, <3>1, ReturnOwns DEF Unsent, InReady, Queued
  <2>5. /\ results'[j] + failures'[j] \in {0, 1}
        /\ \A k \in Jobs : k # j => results'[k] = results[k] /\ failures'[k] = failures[k]
    BY <1>0, <2>1, <2>2, <2>3 DEF TypeOK
  <2>6. NoDuplicates'
    BY <2>1 DEF Tokens, NoDuplicates, queueVars
  <2>7. OnePlace'
    BY <2>1, <2>4 DEF Tokens, OnePlace, queueVars
  <2>8. OneOwner'
    BY <2>4 DEF Tokens, OneOwner
  <2>9. HandledIsLast'
    BY <2>1, <2>4 DEF Tokens, HandledIsLast
  <2>10. ToldIsLast'
    BY <2>2, <2>3, <2>4, <2>5 DEF Tokens, ToldIsLast
  <2> QED
    BY <2>6, <2>7, <2>8, <2>9, <2>10 DEF Tokens
<1>10. CASE FailRead(w)
  BY <1>10, QuietWorker DEF FailRead
<1>11. CASE FailFlush(w)
  BY <1>11, QuietWorker DEF FailFlush
<1>12. CASE Requeue(w) \/ RequeueRaises(w)
  <2>1. /\ pc[w] = "requeue"
        /\ Return(w) \/ Goto(w, "retrycommit")
        /\ Park(j) \/ UNCHANGED queueVars
        /\ UNCHANGED <<subVars, handled, userVars>>
    BY <1>12 DEF Requeue, RequeueRaises
  <2>2. j \in Jobs /\ Owns(w, j)
    BY <1>0, <2>1 DEF Owns
  <2>3. /\ handled[j] = 0 /\ results[j] + failures[j] = 0 /\ ~Queued(j) /\ ~Unsent(j)
        /\ \A v \in Workers : Owns(v, j) => v = w
    BY <1>0, <2>1, <2>2 DEF Tokens, HandledIsLast, ToldIsLast, OnePlace, OneOwner
  <2>4. /\ handled' = handled /\ results' = results /\ failures' = failures
        /\ \A k \in Jobs : Unsent(k)' <=> Unsent(k)
    BY <2>1 DEF userVars, subVars, Unsent
  <2>5. \A v \in Workers : \A k \in Jobs :
          Owns(v, k)' => v # w /\ Owns(v, k) /\ pc'[v] = pc[v]
    <3>1. CASE Return(w)
      BY <3>1, ReturnOwns
    <3>2. CASE Goto(w, "retrycommit")
      BY <3>2 DEF Goto, Owns, TypeOK
    <3> QED
      BY <2>1, <3>1, <3>2
  <2>6. \A v \in Workers : \A k \in Jobs : Owns(v, k)' => Owns(v, k) /\ k # j /\ pc'[v] = pc[v]
    BY <2>3, <2>5
  <2>7. CASE Park(j)
    BY <2>2, <2>3, <2>4, <2>6, <2>7, SendTokens DEF Park
  <2>8. CASE UNCHANGED queueVars
    <3>1. /\ ready' = ready /\ delayed' \in [Jobs -> Nat]
          /\ \A k \in Jobs : delayed'[k] <= delayed[k]
      BY <2>8 DEF queueVars, TypeOK, QueueTypeOK
    <3> QED
      BY <2>4, <2>6, <3>1, QuietStep
  <2> QED
    BY <2>1, <2>7, <2>8
<1>14. CASE RetryCommit(w)
  BY <1>14, QuietWorker DEF RetryCommit
<1> QED
  BY <1>1, <1>2, <1>3, <1>4, <1>5, <1>6, <1>7, <1>8, <1>9, <1>10, <1>11, <1>12,
     <1>14 DEF Process

LEMMA PopTokens ==
    ASSUME TypeOK, Tokens, NEW w \in Workers, NEW j \in Jobs, Pop(w, j)
    PROVE  Tokens'
<1>1. /\ pc[w] = "idle" /\ ready # <<>> /\ j = Head(ready) /\ ready' = Tail(ready)
      /\ delayed' = delayed /\ sub' = sub /\ handled' = handled
      /\ results' = results /\ failures' = failures
      /\ pc' = [pc EXCEPT ![w] = "loaded"] /\ cur' = [cur EXCEPT ![w] = j]
  BY DEF Pop, Dequeue, subVars, userVars
<1>2. /\ InReady(j) /\ ~InReady(j)'
      /\ \A k \in Jobs : InReady(k)' => InReady(k)
      /\ NoDuplicates'
  BY <1>1, TailReady DEF Tokens, TypeOK, QueueTypeOK
<1>3. /\ Queued(j) /\ delayed[j] = 0 /\ ~Unsent(j) /\ handled[j] = 0
      /\ results[j] + failures[j] = 0 /\ \A v \in Workers : ~Owns(v, j)
  <2>1. Queued(j) /\ handled[j] \in Nat /\ results[j] \in Nat /\ failures[j] \in Nat
    BY <1>2 DEF Queued, TypeOK
  <2> QED
    BY <1>2, <2>1 DEF Tokens, OnePlace, HandledIsLast, ToldIsLast
<1>4. /\ ~Queued(j)'
      /\ \A k \in Jobs : Queued(k)' => Queued(k)
      /\ \A k \in Jobs : Unsent(k)' <=> Unsent(k)
  BY <1>1, <1>2, <1>3 DEF Queued, Unsent
<1>5. \A v \in Workers : \A k \in Jobs :
        Owns(v, k)' => (v = w /\ k = j) \/ (v # w /\ Owns(v, k) /\ pc'[v] = pc[v])
  BY <1>1 DEF Owns, TypeOK
<1>6. OnePlace'
  <2> SUFFICES ASSUME NEW k \in Jobs
               PROVE  /\ delayed'[k] <= 1
                      /\ InReady(k)' => delayed'[k] = 0
                      /\ Queued(k)' => ~Unsent(k)'
                      /\ \A v \in Workers : Owns(v, k)' => ~Queued(k)' /\ ~Unsent(k)'
    BY DEF OnePlace
  <2>1. CASE k = j
    BY <1>1, <1>2, <1>3, <1>4, <2>1
  <2>2. CASE k # j
    BY <1>1, <1>2, <1>4, <1>5, <2>2 DEF Tokens, OnePlace
  <2> QED
    BY <2>1, <2>2
<1>7. OneOwner'
  BY <1>3, <1>5 DEF Tokens, OneOwner
<1>8. HandledIsLast'
  BY <1>1, <1>3, <1>4, <1>5 DEF Tokens, HandledIsLast
<1>9. ToldIsLast'
  BY <1>1, <1>3, <1>4, <1>5 DEF Tokens, ToldIsLast
<1> QED
  BY <1>2, <1>6, <1>7, <1>8, <1>9 DEF Tokens

LEMMA PromoteTokens ==
    ASSUME TypeOK, Tokens, NEW w \in Workers, NEW j \in Jobs, PromoteDue(w, j)
    PROVE  Tokens'
<1>1. /\ delayed[j] > 0 /\ delayed' = [delayed EXCEPT ![j] = @ - 1]
      /\ ready' = Append(ready, j)
      /\ sub' = sub /\ handled' = handled /\ results' = results /\ failures' = failures
      /\ pc' = pc /\ cur' = cur
  BY DEF PromoteDue, Promote, subVars, userVars, workerVars
<1>2. /\ delayed \in [Jobs -> Nat] /\ delayed[j] <= 1 /\ ~InReady(j) /\ Queued(j)
  BY <1>1 DEF Tokens, OnePlace, Queued, TypeOK, QueueTypeOK
<1>3. /\ NoDuplicates'
      /\ \A k \in Jobs : InReady(k)' <=> InReady(k) \/ k = j
  BY <1>1, <1>2, AppendReady DEF Tokens, TypeOK, QueueTypeOK
<1>4. delayed'[j] = 0 /\ \A k \in Jobs : k # j => delayed'[k] = delayed[k]
  BY <1>1, <1>2
<1>5. /\ \A k \in Jobs : Queued(k)' <=> Queued(k)
      /\ \A k \in Jobs : Unsent(k)' <=> Unsent(k)
      /\ \A v \in Workers : \A k \in Jobs : Owns(v, k)' <=> Owns(v, k)
  BY <1>1, <1>2, <1>3, <1>4 DEF Queued, Unsent, Owns
<1>6. OnePlace'
  BY <1>3, <1>4, <1>5 DEF Tokens, OnePlace
<1>7. OneOwner' /\ HandledIsLast' /\ ToldIsLast'
  BY <1>1, <1>5 DEF Tokens, OneOwner, HandledIsLast, ToldIsLast
<1> QED
  BY <1>3, <1>6, <1>7 DEF Tokens

LEMMA CrashTokens ==
    ASSUME TypeOK, Tokens, NEW w \in Workers
    PROVE  /\ Crash(w) => Tokens'
           /\ \A j \in Jobs : CrashInDequeue(w, j) => Tokens'
<1>1. ASSUME Crash(w) PROVE Tokens'
  BY <1>1, QuietWorker DEF Crash
<1>2. ASSUME NEW j \in Jobs, CrashInDequeue(w, j) PROVE Tokens'
  <2>1. /\ ready' = ready /\ delayed[j] > 0 /\ delayed' = [delayed EXCEPT ![j] = @ - 1]
        /\ sub' = sub /\ handled' = handled /\ results' = results /\ failures' = failures
        /\ pc' = pc /\ cur' = cur
    BY <1>2 DEF CrashInDequeue, Lose, subVars, userVars, workerVars
  <2>2. delayed' \in [Jobs -> Nat] /\ \A k \in Jobs : delayed'[k] <= delayed[k]
    <3>1. delayed \in [Jobs -> Nat]
      BY DEF TypeOK, QueueTypeOK
    <3>2. \A k \in Jobs : delayed'[k] = IF k = j THEN delayed[k] - 1 ELSE delayed[k]
      BY <2>1, <3>1
    <3> QED
      BY <2>1, <3>1, <3>2
  <2>3. /\ \A v \in Workers : \A k \in Jobs : Owns(v, k)' => Owns(v, k) /\ pc'[v] = pc[v]
        /\ \A k \in Jobs : Unsent(k)' => Unsent(k)
    BY <2>1 DEF Owns, Unsent
  <2> QED
    BY <2>1, <2>2, <2>3, QuietStep
<1> QED
  BY <1>1, <1>2

LEMMA StutterTokens == Tokens /\ UNCHANGED vars => Tokens'
BY DEF Tokens, NoDuplicates, OnePlace, OneOwner, HandledIsLast, ToldIsLast, InReady,
       Queued, Unsent, Owns, vars, queueVars, subVars, workerVars, userVars

\* For any number of jobs and workers, and any number of faults: an id is never
\* in two places (submit_job, JobQueue, JobRunner.run_once).
THEOREM TokensInvariant == Spec => []Tokens
<1>1. TypeOK /\ Tokens /\ [Next]_vars => Tokens'
  BY SubmitTokens, CancelTokens, ProcessTokens, PopTokens, PromoteTokens, CrashTokens,
     StutterTokens DEF Next, Poll
<1> QED
  BY InitTokens, TypeCorrect, <1>1, PTL DEF Spec

\* No two workers are inside a handler of one job (JobRunner._dispatch).
THEOREM HandlersExclusive == Spec => []HandlerExclusive
<1>1. Tokens => HandlerExclusive
  BY DEF Tokens, OneOwner, Owns, OwnerPhases, Phases, HandlerExclusive
<1> QED
  BY TokensInvariant, <1>1, PTL

\* A handler's writes are committed at most once per job (JobRunner._dispatch).
THEOREM EffectsHappenOnce == Spec => []EffectsOnce
<1>1. TypeOK /\ Tokens => EffectsOnce
  <2> SUFFICES ASSUME TypeOK, Tokens, NEW j \in Jobs
               PROVE  handled[j] <= 1
    BY DEF EffectsOnce
  <2>1. handled[j] \in Nat
    BY DEF TypeOK
  <2> QED
    BY <2>1 DEF Tokens, HandledIsLast
<1> QED
  BY TypeCorrect, TokensInvariant, <1>1, PTL

\* A user hears at most one outcome per job (JobRunner._process, _on_failure).
THEOREM OutcomeSentOnce == Spec => []OutcomeOnce
<1>1. TypeOK /\ Tokens => OutcomeOnce
  <2> SUFFICES ASSUME TypeOK, Tokens, NEW j \in Jobs
               PROVE  results[j] + failures[j] <= 1
    BY DEF OutcomeOnce
  <2>1. results[j] \in Nat /\ failures[j] \in Nat
    BY DEF TypeOK
  <2> QED
    BY <2>1 DEF Tokens, ToldIsLast
<1> QED
  BY TypeCorrect, TokensInvariant, <1>1, PTL

-----------------------------------------------------------------------------
(* The accounts of a job: inductive invariants.  TLC has checked each on   *)
(* the instance of MCJobRunner before it was proved.                       *)

\* A writer has read a state that allows what it is about to write, a job is
\* nobody's business before its row is committed, and no worker holds an id
\* that has not been sent.
SnapshotsFit ==
    /\ \A j \in Jobs : /\ sub[j] = "new" => row[j] = NewRow /\ can[j] = "none"
                       /\ sub[j] = "reject" => CanTransition(subSnap[j].state, "FAILED")
    /\ \A w \in Workers :
         /\ pc[w] # "idle" => ~Unsent(cur[w])
         /\ pc[w] = "claim" => ~IsTerminal(snap[w].state)
         /\ pc[w] = "tick" => CanTransition(snap[w].state, "RUNNING")
         /\ pc[w] = "complete" => CanTransition(snap[w].state, "COMPLETED")
         /\ pc[w] \in {"failing", "requeue", "retrycommit"}
              => CanTransition(snap[w].state, "FAILED")

\* Where a result comes from: a worker past its handler's commit, whose own
\* snapshot is never ahead of the table.
ResultTraced ==
    /\ \A w \in Workers :
         /\ pc[w] \in {"idle", "loaded"} => snap[w] = NewRow
         /\ pc[w] # "idle" /\ snap[w].result => row[cur[w]].result
         /\ pc[w] \in {"finish", "complete", "notify"} => handled[cur[w]] > 0
         /\ pc[w] = "notify" => row[cur[w]].result
    /\ ResultBacked

Faults == crashes + requeueFaults + outlasted

Retries(j) == row[j].retry_count

Locks(w, j) == cur[w] = j /\ pc[w] \in {"requeue", "retrycommit"}

FailPhases == {"failing", "requeue", "retrycommit"}

\* Attempts against the retry counter of the row, for every place a job can
\* be in.  A worker in _on_failure counts with the counter it has read; a copy
\* parked by an open transaction counts with the one about to be committed.
QueueAttempts(j) ==
    /\ Unsent(j) => attempts[j] = 0
    /\ InReady(j) => attempts[j] <= Retries(j) + Faults
    /\ delayed[j] > 0 /\ ~Locked(j) => attempts[j] <= Retries(j) + Faults

WorkerAttempts(w, j) ==
    /\ pc[w] \in {"loaded", "claim"} => attempts[j] <= Retries(j) + Faults
    /\ pc[w] \in OwnerPhases => attempts[j] <= Retries(j) + 1 + Faults
    /\ pc[w] \in {"failing", "requeue"} =>
          attempts[j] <= snap[w].retry_count + 1 + Faults
    /\ pc[w] = "retrycommit" /\ delayed[j] > 0 =>
          attempts[j] <= snap[w].retry_count + 1 + Faults

\* The counter a worker in _on_failure has read is the row's, or one behind
\* while that worker's own row lock has not been taken.
WorkerCounter(w, j) ==
    /\ pc[w] \in FailPhases => /\ snap[w].retry_count <= Retries(j)
                               /\ Retries(j) <= snap[w].retry_count + 1
    /\ pc[w] \in {"requeue", "retrycommit"} => snap[w].retry_count < MaxRetries
    /\ \A v \in Workers : Locks(v, j) =>
          /\ Locks(w, j) => v = w
          /\ pc[w] = "failing" => snap[w].retry_count = Retries(j)

JobAttempts(j) ==
    /\ Retries(j) <= MaxRetries
    /\ attempts[j] <= MaxRetries + 1 + Faults
    /\ QueueAttempts(j)
    /\ \A w \in Workers : cur[w] = j => WorkerAttempts(w, j) /\ WorkerCounter(w, j)

AttemptsTraced == \A j \in Jobs : JobAttempts(j)

Calm == crashes = 0 /\ outlasted = 0 /\ requeueFaults = 0

\* j is finished, or the queue or a worker has it.
Kept(j) == \/ IsTerminal(row[j].state)
           \/ Queued(j)
           \/ \E w \in Workers : pc[w] # "idle" /\ cur[w] = j

\* Without faults a worker that commits a retry has parked the id, one past
\* the claim finds its job claimed, and one that has read or written a
\* terminal state finds one.
HoldersInformed ==
    \A w \in Workers : pc[w] # "idle" =>
        /\ pc[w] = "retrycommit" => delayed[cur[w]] > 0
        /\ pc[w] \notin {"loaded", "claim"} => row[cur[w]].state # "PENDING"
        /\ snap[w].state # "PENDING" => row[cur[w]].state # "PENDING"
        /\ pc[w] \in {"complete", "failing"} /\ IsTerminal(snap[w].state)
              => IsTerminal(row[cur[w]].state)
        /\ pc[w] \in {"notify", "notifyfail"} => IsTerminal(row[cur[w]].state)

SubmittersInformed ==
    \A j \in Jobs : j \in BotJobs \/ submitFaults = 0 =>
        /\ sub[j] \notin {"new", "created", "rejecting", "reject"} => Kept(j)
        /\ sub[j] = "reject" /\ IsTerminal(subSnap[j].state) => Kept(j)

CarriersTraced == Calm => HoldersInformed /\ SubmittersInformed
-----------------------------------------------------------------------------
(* What a flush leaves in the table                                        *)

\* The row after each of the program's writes, from the stored row and the
\* snapshot the writer has read.
Claimed(stored, loaded) == Flush(stored, loaded, Transition(loaded, "RUNNING", "none", FALSE))
Orphaned(stored, loaded) == Flush(stored, loaded, Transition(loaded, "FAILED", "no handler", FALSE))
Rejected(stored, loaded) ==
    Flush(stored, loaded, Transition(loaded, "FAILED", "queue unavailable", FALSE))
Cancelled(stored, loaded) == Flush(stored, loaded, Transition(loaded, "CANCELLED", "none", FALSE))
Completed(stored, loaded) == Flush(stored, loaded, Transition(loaded, "COMPLETED", "none", TRUE))
GivenUp(stored, loaded) == Flush(stored, loaded, Failed(loaded))
Rescheduled(stored, loaded) ==
    Flush(GivenUp(stored, loaded), Failed(loaded), Retried(loaded))

\* A write stores its state unless the snapshot has it already, keeps the
\* retry counter, and adds a result but never takes one away.
LEMMA ClaimedFacts ==
    ASSUME NEW stored \in Row, NEW loaded \in Row
    PROVE  /\ loaded.state = "RUNNING" => Claimed(stored, loaded).state = stored.state
           /\ loaded.state # "RUNNING" => Claimed(stored, loaded).state = "RUNNING"
           /\ Claimed(stored, loaded).retry_count = stored.retry_count
           /\ Claimed(stored, loaded).result = stored.result
<1>0. /\ loaded.retry_count \in Nat
      /\ loaded.result \in BOOLEAN /\ stored.result \in BOOLEAN
  BY DEF Row
<1>1. /\ loaded.state = "RUNNING" => Claimed(stored, loaded).state = stored.state
      /\ loaded.state # "RUNNING" => Claimed(stored, loaded).state = "RUNNING"
  BY DEF Claimed, Flush, Transition, Column
<1>2. Claimed(stored, loaded).retry_count = stored.retry_count
  BY <1>0 DEF Claimed, Flush, Transition, Column
<1>3. Claimed(stored, loaded).result = stored.result
  BY <1>0 DEF Claimed, Flush, Transition, Column
<1> QED
  BY <1>1, <1>2, <1>3

LEMMA OrphanedFacts ==
    ASSUME NEW stored \in Row, NEW loaded \in Row
    PROVE  /\ loaded.state = "FAILED" => Orphaned(stored, loaded).state = stored.state
           /\ loaded.state # "FAILED" => Orphaned(stored, loaded).state = "FAILED"
           /\ Orphaned(stored, loaded).retry_count = stored.retry_count
           /\ Orphaned(stored, loaded).result = stored.result
<1>0. /\ loaded.retry_count \in Nat
      /\ loaded.result \in BOOLEAN /\ stored.result \in BOOLEAN
  BY DEF Row
<1>1. /\ loaded.state = "FAILED" => Orphaned(stored, loaded).state = stored.state
      /\ loaded.state # "FAILED" => Orphaned(stored, loaded).state = "FAILED"
  BY DEF Orphaned, Flush, Transition, Column
<1>2. Orphaned(stored, loaded).retry_count = stored.retry_count
  BY <1>0 DEF Orphaned, Flush, Transition, Column
<1>3. Orphaned(stored, loaded).result = stored.result
  BY <1>0 DEF Orphaned, Flush, Transition, Column
<1> QED
  BY <1>1, <1>2, <1>3

LEMMA RejectedFacts ==
    ASSUME NEW stored \in Row, NEW loaded \in Row
    PROVE  /\ loaded.state = "FAILED" => Rejected(stored, loaded).state = stored.state
           /\ loaded.state # "FAILED" => Rejected(stored, loaded).state = "FAILED"
           /\ Rejected(stored, loaded).retry_count = stored.retry_count
           /\ Rejected(stored, loaded).result = stored.result
<1>0. /\ loaded.retry_count \in Nat
      /\ loaded.result \in BOOLEAN /\ stored.result \in BOOLEAN
  BY DEF Row
<1>1. /\ loaded.state = "FAILED" => Rejected(stored, loaded).state = stored.state
      /\ loaded.state # "FAILED" => Rejected(stored, loaded).state = "FAILED"
  BY DEF Rejected, Flush, Transition, Column
<1>2. Rejected(stored, loaded).retry_count = stored.retry_count
  BY <1>0 DEF Rejected, Flush, Transition, Column
<1>3. Rejected(stored, loaded).result = stored.result
  BY <1>0 DEF Rejected, Flush, Transition, Column
<1> QED
  BY <1>1, <1>2, <1>3

LEMMA CancelledFacts ==
    ASSUME NEW stored \in Row, NEW loaded \in Row
    PROVE  /\ loaded.state = "CANCELLED" => Cancelled(stored, loaded).state = stored.state
           /\ loaded.state # "CANCELLED" => Cancelled(stored, loaded).state = "CANCELLED"
           /\ Cancelled(stored, loaded).retry_count = stored.retry_count
           /\ Cancelled(stored, loaded).result = stored.result
<1>0. /\ loaded.retry_count \in Nat
      /\ loaded.result \in BOOLEAN /\ stored.result \in BOOLEAN
  BY DEF Row
<1>1. /\ loaded.state = "CANCELLED" => Cancelled(stored, loaded).state = stored.state
      /\ loaded.state # "CANCELLED" => Cancelled(stored, loaded).state = "CANCELLED"
  BY DEF Cancelled, Flush, Transition, Column
<1>2. Cancelled(stored, loaded).retry_count = stored.retry_count
  BY <1>0 DEF Cancelled, Flush, Transition, Column
<1>3. Cancelled(stored, loaded).result = stored.result
  BY <1>0 DEF Cancelled, Flush, Transition, Column
<1> QED
  BY <1>1, <1>2, <1>3

LEMMA CompletedFacts ==
    ASSUME NEW stored \in Row, NEW loaded \in Row
    PROVE  /\ loaded.state = "COMPLETED" => Completed(stored, loaded).state = stored.state
           /\ loaded.state # "COMPLETED" => Completed(stored, loaded).state = "COMPLETED"
           /\ Completed(stored, loaded).retry_count = stored.retry_count
           /\ (loaded.result => stored.result) => Completed(stored, loaded).result
<1>0. /\ loaded.retry_count \in Nat
      /\ loaded.result \in BOOLEAN /\ stored.result \in BOOLEAN
  BY DEF Row
<1>1. /\ loaded.state = "COMPLETED" => Completed(stored, loaded).state = stored.state
      /\ loaded.state # "COMPLETED" => Completed(stored, loaded).state = "COMPLETED"
  BY DEF Completed, Flush, Transition, Column
<1>2. Completed(stored, loaded).retry_count = stored.retry_count
  BY <1>0 DEF Completed, Flush, Transition, Column
<1>3. (loaded.result => stored.result) => Completed(stored, loaded).result
  BY <1>0 DEF Completed, Flush, Transition, Column
<1> QED
  BY <1>1, <1>2, <1>3

\* The rows _on_failure writes.
LEMMA FailureFacts ==
    ASSUME NEW job \in Row
    PROVE  /\ Failed(job).state = "FAILED"
           /\ Failed(job).retry_count = job.retry_count
           /\ Failed(job).result = job.result
           /\ Retried(job).state = "PENDING"
           /\ Retried(job).retry_count = job.retry_count + 1
           /\ Retried(job).result = job.result
<1>0. job.retry_count \in Nat /\ job.result \in BOOLEAN
  BY DEF Row
<1>1. Failed(job).state = "FAILED" /\ Failed(job).retry_count = job.retry_count
  BY <1>0 DEF Failed, Transition
<1>2. Failed(job).result = job.result
  BY <1>0 DEF Failed, Transition
<1>3. Retried(job).state = "PENDING" /\ Retried(job).retry_count = job.retry_count + 1
  BY <1>0 DEF Failed, Retried, Transition
<1>4. Retried(job).result = job.result
  BY <1>0, <1>2 DEF Retried, Transition
<1> QED
  BY <1>1, <1>2, <1>3, <1>4

LEMMA GivenUpFacts ==
    ASSUME NEW stored \in Row, NEW loaded \in Row
    PROVE  /\ loaded.state = "FAILED" => GivenUp(stored, loaded).state = stored.state
           /\ loaded.state # "FAILED" => GivenUp(stored, loaded).state = "FAILED"
           /\ GivenUp(stored, loaded).retry_count = stored.retry_count
           /\ GivenUp(stored, loaded).result = stored.result
<1>0. loaded.retry_count \in Nat
  BY DEF Row
<1> QED
  BY <1>0, FailureFacts DEF GivenUp, Flush, Column

\* The two flushes of _on_failure leave the job PENDING with the counter one
\* above the one that was read.
LEMMA RescheduledFacts ==
    ASSUME NEW stored \in Row, NEW loaded \in Row
    PROVE  /\ Rescheduled(stored, loaded).state = "PENDING"
           /\ Rescheduled(stored, loaded).retry_count = loaded.retry_count + 1
           /\ Rescheduled(stored, loaded).result = stored.result
<1>1. loaded.retry_count \in Nat
  BY DEF Row
<1>2. GivenUp(stored, loaded).result = stored.result
  BY GivenUpFacts
<1> QED
  BY <1>1, <1>2, FailureFacts DEF Rescheduled, Flush, Column
-----------------------------------------------------------------------------
(* What a step of one actor leaves alone                                   *)

\* A worker that processes its job touches no other job and no other worker.
LEMMA ProcessFrame ==
    ASSUME TypeOK, NEW w \in Workers, Process(w)
    PROVE  /\ pc[w] # "idle" /\ cur[w] \in Jobs
           /\ sub' = sub /\ subSnap' = subSnap /\ can' = can /\ canSnap' = canSnap
           /\ ready' = ready /\ submitFaults' = submitFaults
           /\ crashes' = crashes /\ outlasted' = outlasted
           /\ \A v \in Workers : v # w => /\ pc'[v] = pc[v] /\ cur'[v] = cur[v]
                                         /\ snap'[v] = snap[v]
           /\ pc'[w] # "idle" => cur'[w] = cur[w]
           /\ pc'[w] = "idle" => cur'[w] = NoJob /\ snap'[w] = NewRow
           /\ pc'[w] # "loaded"
           /\ \A j \in Jobs : j # cur[w] =>
                 /\ row'[j] = row[j] /\ attempts'[j] = attempts[j]
                 /\ handled'[j] = handled[j] /\ results'[j] = results[j]
                 /\ delayed'[j] = delayed[j]
<1> DEFINE Frame ==
        /\ \A v \in Workers : v # w => /\ pc'[v] = pc[v] /\ cur'[v] = cur[v]
                                      /\ snap'[v] = snap[v]
        /\ pc'[w] # "idle" => cur'[w] = cur[w]
        /\ pc'[w] = "idle" => cur'[w] = NoJob /\ snap'[w] = NewRow
        /\ pc'[w] # "loaded"
<1>1. /\ pc[w] # "idle"
      /\ sub' = sub /\ subSnap' = subSnap /\ can' = can /\ canSnap' = canSnap
      /\ ready' = ready /\ submitFaults' = submitFaults
      /\ crashes' = crashes /\ outlasted' = outlasted
  BY DEF Process, Load, Claim, TickRead, TickWrite, HandlerReturn, HandlerRaise,
         FinishRead, Complete, Deliver, FailRead, FailFlush, Requeue, RequeueRaises,
         RetryCommit, Park, subVars, canVars, queueVars, faultVars
<1>2. ASSUME NEW phase \in Phases \ {"idle", "loaded"}, Goto(w, phase) \/ ReadInto(w, phase)
      PROVE  Frame
  BY <1>2 DEF Goto, ReadInto, TypeOK
<1>3. ASSUME Return(w) PROVE Frame
  BY <1>3 DEF Return, TypeOK
<1>4. Frame
  <2>1. CASE TickWrite(w)
    BY <2>1 DEF TickWrite, TypeOK
  <2> QED
    BY <1>2, <1>3, <2>1
       DEF Process, Load, Claim, TickRead, HandlerReturn, HandlerRaise, FinishRead,
           Complete, Deliver, FailRead, FailFlush, Requeue, RequeueRaises, RetryCommit, Phases
<1>5. \A j \in Jobs : j # cur[w] => row'[j] = row[j] /\ attempts'[j] = attempts[j]
  BY DEF Process, Load, Claim, TickRead, TickWrite, HandlerReturn, HandlerRaise,
         FinishRead, Complete, Deliver, FailRead, FailFlush, Requeue, RequeueRaises,
         RetryCommit, TypeOK
<1>6. \A j \in Jobs : j # cur[w] => /\ handled'[j] = handled[j] /\ results'[j] = results[j]
                                   /\ delayed'[j] = delayed[j]
  BY DEF Process, Load, Claim, TickRead, TickWrite, HandlerReturn, HandlerRaise,
         FinishRead, Complete, Deliver, FailRead, FailFlush, Requeue, RequeueRaises,
         RetryCommit, Park, userVars, queueVars, TypeOK, QueueTypeOK
<1> QED
  BY <1>1, <1>4, <1>5, <1>6 DEF TypeOK

\* A submitter touches no other job and no worker, ...
LEMMA SubmitFrame ==
    ASSUME TypeOK, NEW j \in Jobs, SubmitStep(j)
    PROVE  /\ pc' = pc /\ cur' = cur /\ snap' = snap
           /\ can' = can /\ attempts' = attempts /\ handled' = handled
           /\ results' = results /\ delayed' = delayed
           /\ requeueFaults' = requeueFaults /\ outlasted' = outlasted
           /\ crashes' \in {crashes, crashes + 1}
           /\ ready' \in {ready, Append(ready, j)}
           /\ \A k \in Jobs : k # j => /\ sub'[k] = sub[k] /\ subSnap'[k] = subSnap[k]
                                      /\ row'[k] = row[k]
           /\ sub[j] # "new" => sub'[j] # "new"
           /\ Unsent(j)' => Unsent(j)
<1> USE DEF SubmitStep, Create, SubmitEnqueue, EnqueueRaises, RejectRead, RejectWrite,
            SubmitCrash, canVars, workerVars, userVars, faultVars
<1>1. /\ pc' = pc /\ cur' = cur /\ snap' = snap
      /\ can' = can /\ attempts' = attempts /\ handled' = handled /\ results' = results
  OBVIOUS
<1>2. /\ requeueFaults' = requeueFaults /\ outlasted' = outlasted
      /\ crashes' \in {crashes, crashes + 1}
  OBVIOUS
<1>3. delayed' = delayed /\ ready' \in {ready, Append(ready, j)}
  BY DEF Enqueue, queueVars
<1>4. \A k \in Jobs : k # j => /\ sub'[k] = sub[k] /\ subSnap'[k] = subSnap[k]
                              /\ row'[k] = row[k]
  BY DEF TypeOK
<1>5. /\ sub[j] # "new" => sub'[j] # "new"
      /\ Unsent(j)' => Unsent(j)
  BY DEF TypeOK, Unsent
<1> QED
  BY <1>1, <1>2, <1>3, <1>4, <1>5

\* ... and neither does a cancel request.
LEMMA CancelFrame ==
    ASSUME TypeOK, NEW j \in Jobs, CancelStep(j)
    PROVE  /\ pc' = pc /\ cur' = cur /\ snap' = snap
           /\ sub' = sub /\ subSnap' = subSnap /\ attempts' = attempts /\ handled' = handled
           /\ results' = results /\ delayed' = delayed /\ ready' = ready
           /\ UNCHANGED faultVars
           /\ \A k \in Jobs : k # j => row'[k] = row[k] /\ can'[k] = can[k]
BY DEF CancelStep, CancelRead, CancelWrite, queueVars, subVars, workerVars, userVars, TypeOK

\* Fetching an id, dying and polling leave the table and the histories alone.
LEMMA FetchFrame ==
    ASSUME TypeOK, NEW w \in Workers,
           \/ Crash(w)
           \/ \E j \in Jobs : PromoteDue(w, j) \/ Pop(w, j) \/ CrashInDequeue(w, j)
    PROVE  /\ row' = row /\ sub' = sub /\ subSnap' = subSnap /\ can' = can
           /\ attempts' = attempts /\ handled' = handled /\ results' = results
           /\ submitFaults' = submitFaults /\ requeueFaults' = requeueFaults
           /\ \A v \in Workers : v # w => /\ pc'[v] = pc[v] /\ cur'[v] = cur[v]
                                         /\ snap'[v] = snap[v]
           /\ \/ pc'[w] = pc[w] /\ cur'[w] = cur[w] /\ snap'[w] = snap[w]
              \/ pc'[w] = "idle" /\ cur'[w] = NoJob /\ snap'[w] = NewRow
              \/ /\ pc[w] = "idle" /\ pc'[w] = "loaded" /\ snap'[w] = snap[w]
                 /\ \E j \in Jobs : cur'[w] = j /\ Dequeue(j)
<1> USE DEF subVars, canVars, workerVars, userVars, TypeOK
<1>1. CASE Crash(w)
  BY <1>1 DEF Crash, Return
<1>2. ASSUME NEW j \in Jobs, PromoteDue(w, j) \/ CrashInDequeue(w, j)
      PROVE  /\ row' = row /\ sub' = sub /\ subSnap' = subSnap /\ can' = can
             /\ attempts' = attempts /\ handled' = handled /\ results' = results
             /\ submitFaults' = submitFaults /\ requeueFaults' = requeueFaults
             /\ pc' = pc /\ cur' = cur /\ snap' = snap
  BY <1>2 DEF PromoteDue, CrashInDequeue
<1>3. ASSUME NEW j \in Jobs, Pop(w, j)
      PROVE  /\ row' = row /\ sub' = sub /\ subSnap' = subSnap /\ can' = can
             /\ attempts' = attempts /\ handled' = handled /\ results' = results
             /\ submitFaults' = submitFaults /\ requeueFaults' = requeueFaults
             /\ \A v \in Workers : v # w => /\ pc'[v] = pc[v] /\ cur'[v] = cur[v]
                                           /\ snap'[v] = snap[v]
             /\ pc[w] = "idle" /\ pc'[w] = "loaded" /\ snap'[w] = snap[w]
             /\ cur'[w] = j /\ Dequeue(j)
  BY <1>3 DEF Pop, faultVars
<1> QED
  BY <1>1, <1>2, <1>3
-----------------------------------------------------------------------------
(* Snapshots, and cancellations that stay                                  *)

LEMMA InitSnapshots == Init => SnapshotsFit
BY DEF Init, SnapshotsFit, Unsent

LEMMA SubmitSnapshots ==
    ASSUME TypeOK, SnapshotsFit, NEW j \in Jobs, SubmitStep(j)
    PROVE  SnapshotsFit'
<1>1. \A k \in Jobs : Unsent(k)' => Unsent(k)
  BY SubmitFrame DEF Unsent
<1>2. ASSUME NEW k \in Jobs
      PROVE  /\ sub'[k] = "new" => row'[k] = NewRow /\ can'[k] = "none"
             /\ sub'[k] = "reject" => CanTransition(subSnap'[k].state, "FAILED")
  <2>1. CASE k # j
    BY <2>1, SubmitFrame DEF SnapshotsFit
  <2>2. CASE k = j
    BY <2>2 DEF SubmitStep, Create, SubmitEnqueue, EnqueueRaises, RejectRead, RejectWrite,
                SubmitCrash, TypeOK, SnapshotsFit
  <2> QED
    BY <2>1, <2>2
<1>3. \A w \in Workers : pc[w] # "idle" => cur[w] \in Jobs
  BY DEF TypeOK
<1> QED
  BY <1>1, <1>2, <1>3, SubmitFrame DEF SnapshotsFit

LEMMA CancelSnapshots ==
    ASSUME TypeOK, SnapshotsFit, NEW j \in Jobs, CancelStep(j)
    PROVE  SnapshotsFit'
<1>1. sub[j] # "new"
  BY DEF CancelStep, CancelRead, CancelWrite, SnapshotsFit
<1> QED
  BY <1>1, CancelFrame DEF SnapshotsFit, Unsent

LEMMA ProcessSnapshots ==
    ASSUME TypeOK, SnapshotsFit, NEW w \in Workers, Process(w)
    PROVE  SnapshotsFit'
<1>1. \A k \in Jobs : Unsent(k)' <=> Unsent(k)
  BY ProcessFrame DEF Unsent
<1>2. \A k \in Jobs : sub'[k] = "new" => row'[k] = NewRow /\ can'[k] = "none"
  BY ProcessFrame DEF SnapshotsFit, Unsent
<1>3. ASSUME NEW v \in Workers
      PROVE  /\ pc'[v] # "idle" => ~Unsent(cur[v])'
             /\ pc'[v] = "claim" => ~IsTerminal(snap'[v].state)
             /\ pc'[v] = "tick" => CanTransition(snap'[v].state, "RUNNING")
             /\ pc'[v] = "complete" => CanTransition(snap'[v].state, "COMPLETED")
             /\ pc'[v] \in {"failing", "requeue", "retrycommit"}
                  => CanTransition(snap'[v].state, "FAILED")
  <2>1. CASE v # w
    <3>1. cur[v] \in Jobs \/ pc[v] = "idle"
      BY DEF TypeOK
    <3> QED
      BY <1>1, <2>1, <3>1, ProcessFrame DEF SnapshotsFit
  <2>2. CASE v = w
    <3>1. pc'[w] # "idle" => ~Unsent(cur[w])'
      BY <1>1, ProcessFrame DEF SnapshotsFit
    <3>2. /\ pc'[w] = "claim" => ~IsTerminal(snap'[w].state)
          /\ pc'[w] = "tick" => CanTransition(snap'[w].state, "RUNNING")
          /\ pc'[w] = "complete" => CanTransition(snap'[w].state, "COMPLETED")
          /\ pc'[w] \in {"failing", "requeue", "retrycommit"}
               => CanTransition(snap'[w].state, "FAILED")
      <4>1. pc \in [Workers -> Phases] /\ snap \in [Workers -> Row]
        BY DEF TypeOK
      <4>2. CASE Load(w) \/ TickRead(w) \/ FinishRead(w) \/ FailRead(w)
        BY <4>1, <4>2 DEF Load, TickRead, FinishRead, FailRead, Goto, ReadInto, Return
      <4>3. CASE \/ Claim(w) \/ TickWrite(w) \/ HandlerReturn(w) \/ HandlerRaise(w)
                 \/ Complete(w) \/ Deliver(w)
        BY <4>1, <4>3 DEF Claim, TickWrite, HandlerReturn, HandlerRaise, Complete, Deliver, Goto,
                          Return
      <4>4. CASE FailFlush(w) \/ Requeue(w) \/ RequeueRaises(w) \/ RetryCommit(w)
        BY <4>1, <4>4 DEF FailFlush, Requeue, RequeueRaises, RetryCommit, Goto, Return,
                          SnapshotsFit
      <4> QED
        BY <4>2, <4>3, <4>4 DEF Process
    <3> QED
      BY <2>2, <3>1, <3>2
  <2> QED
    BY <2>1, <2>2
<1> QED
  BY <1>1, <1>2, <1>3, ProcessFrame DEF SnapshotsFit

LEMMA FetchSnapshots ==
    ASSUME TypeOK, Tokens, SnapshotsFit, NEW w \in Workers,
           \/ Crash(w)
           \/ \E j \in Jobs : PromoteDue(w, j) \/ Pop(w, j) \/ CrashInDequeue(w, j)
    PROVE  SnapshotsFit'
<1>1. \A j \in Jobs : Dequeue(j) => ~Unsent(j)
  <2> SUFFICES ASSUME NEW j \in Jobs, Dequeue(j)
               PROVE  ~Unsent(j)
    OBVIOUS
  <2>1. InReady(j)
    BY TailReady DEF Dequeue, TypeOK, QueueTypeOK, Tokens
  <2> QED
    BY <2>1 DEF Tokens, OnePlace, Queued
<1>2. \A k \in Jobs : Unsent(k)' <=> Unsent(k)
  BY FetchFrame DEF Unsent
<1>3. \A v \in Workers : pc[v] # "idle" => cur[v] \in Jobs
  BY DEF TypeOK
<1> QED
  BY <1>1, <1>2, <1>3, FetchFrame DEF SnapshotsFit

LEMMA SnapshotsInvariant == Spec => []SnapshotsFit
<1>1. TypeOK /\ Tokens /\ SnapshotsFit /\ [Next]_vars => SnapshotsFit'
  <2> SUFFICES ASSUME TypeOK, Tokens, SnapshotsFit, [Next]_vars
               PROVE  SnapshotsFit'
    OBVIOUS
  <2>1. CASE UNCHANGED vars
    BY <2>1 DEF vars, subVars, canVars, workerVars, SnapshotsFit, Unsent
  <2>2. ASSUME NEW j \in Jobs, SubmitStep(j) \/ CancelStep(j)
        PROVE  SnapshotsFit'
    BY <2>2, SubmitSnapshots, CancelSnapshots
  <2>3. ASSUME NEW w \in Workers, Process(w)
        PROVE  SnapshotsFit'
    BY <2>3, ProcessSnapshots
  <2>4. ASSUME NEW w \in Workers,
               \/ Crash(w)
               \/ \E j \in Jobs : PromoteDue(w, j) \/ Pop(w, j) \/ CrashInDequeue(w, j)
        PROVE  SnapshotsFit'
    BY <2>4, FetchSnapshots
  <2> QED
    BY <2>1, <2>2, <2>3, <2>4 DEF Next, Poll
<1> QED
  BY InitSnapshots, TypeCorrect, TokensInvariant, <1>1, PTL DEF Spec

\* A step on a job whose cancellation is visible and which no open transaction
\* is about to overwrite.
LEMMA CancelledStep ==
    ASSUME TypeOK, SnapshotsFit, [Next]_vars, NEW j \in Jobs,
           row[j].state = "CANCELLED", ~StaleWriter(j)
    PROVE  row'[j].state = "CANCELLED" /\ attempts'[j] = attempts[j]
<1>1. CASE UNCHANGED vars
  BY <1>1 DEF vars
<1>2. ASSUME NEW k \in Jobs, SubmitStep(k)
      PROVE  row'[j].state = "CANCELLED" /\ attempts'[j] = attempts[j]
  <2>1. CASE k # j
    BY <1>2, <2>1, SubmitFrame
  <2>2. CASE k = j
    <3>1. ~Create(j)
      BY DEF Create, SnapshotsFit, NewRow
    <3>2. ~RejectWrite(j)
      BY DEF RejectWrite, SnapshotsFit, StaleWriter, CanTransition, Allowed, JobState
    <3>3. row' = row
      BY <1>2, <2>2, <3>1, <3>2 DEF SubmitStep, SubmitEnqueue, EnqueueRaises, RejectRead, SubmitCrash
    <3> QED
      BY <1>2, <3>3, SubmitFrame
  <2> QED
    BY <2>1, <2>2
<1>3. ASSUME NEW k \in Jobs, CancelStep(k)
      PROVE  row'[j].state = "CANCELLED" /\ attempts'[j] = attempts[j]
  <2>1. CASE k # j \/ CancelRead(k)
    BY <1>3, <2>1, CancelFrame DEF CancelRead
  <2>2. CASE k = j /\ CancelWrite(k)
    <3>1. /\ row'[j] = Cancelled(row[j], canSnap[j])
          /\ row[j] \in Row /\ canSnap[j] \in Row
      BY <2>2 DEF CancelWrite, Cancelled, TypeOK
    <3>2. row'[j].state = "CANCELLED"
      BY <3>1, CancelledFacts
    <3> QED
      BY <1>3, <3>2, CancelFrame
  <2> QED
    BY <1>3, <2>1, <2>2 DEF CancelStep
<1>4. ASSUME NEW w \in Workers, Process(w)
      PROVE  row'[j].state = "CANCELLED" /\ attempts'[j] = attempts[j]
  <2>1. CASE cur[w] # j
    BY <1>4, <2>1, ProcessFrame
  <2>2. CASE cur[w] = j
    <3>1. pc[w] \notin {"claim", "tick", "complete", "failing", "requeue", "retrycommit"}
      BY <2>2 DEF StaleWriter, SnapshotsFit, IsTerminal, CanTransition, Allowed, JobState
    <3>2. row' = row /\ attempts' = attempts
      BY <1>4, <3>1 DEF Process, Load, Claim, TickRead, TickWrite, HandlerReturn, HandlerRaise,
             FinishRead, Complete, Deliver, FailRead, FailFlush, Requeue, RequeueRaises,
             RetryCommit
    <3> QED
      BY <3>2
  <2> QED
    BY <2>1, <2>2
<1>5. ASSUME NEW w \in Workers,
             \/ Crash(w)
             \/ \E k \in Jobs : PromoteDue(w, k) \/ Pop(w, k) \/ CrashInDequeue(w, k)
      PROVE  row'[j].state = "CANCELLED" /\ attempts'[j] = attempts[j]
  BY <1>5, FetchFrame
<1> QED
  BY <1>1, <1>2, <1>3, <1>4, <1>5 DEF Next, Poll

\* Whatever submitters, workers and other cancel requests do, a job that is
\* CANCELLED in the table stays so and is not started, once every transaction
\* that had read it before has ended (JobRunner._process, submit_job).
THEOREM CancellationStays == Spec => CancelledIsSkipped
<1>1. TypeOK /\ SnapshotsFit /\ [Next]_vars
      => [\A j \in Jobs : row[j].state = "CANCELLED" /\ ~StaleWriter(j)
            => row'[j].state = "CANCELLED" /\ attempts'[j] = attempts[j]]_vars
  BY CancelledStep
<1> QED
  BY TypeCorrect, SnapshotsInvariant, <1>1, PTL DEF Spec, CancelledIsSkipped
-----------------------------------------------------------------------------
(* What each actor writes                                                  *)

LEMMA SubmitWrites ==
    ASSUME TypeOK, NEW j \in Jobs, SubmitStep(j)
    PROVE  \/ sub[j] = "new" /\ sub'[j] = "created" /\ row'[j] = NewRow
           \/ /\ sub[j] = "reject" /\ sub'[j] = "done" /\ ~Locked(j)
              /\ row'[j] = Rejected(row[j], subSnap[j])
           \/ sub[j] # "new" /\ row'[j] = row[j]
BY DEF SubmitStep, Create, SubmitEnqueue, EnqueueRaises, RejectRead, RejectWrite,
       SubmitCrash, Rejected, TypeOK

LEMMA CancelWrites ==
    ASSUME TypeOK, NEW j \in Jobs, CancelStep(j)
    PROVE  \/ /\ can[j] = "cancelling" /\ ~Locked(j)
              /\ row'[j] = Cancelled(row[j], canSnap[j])
           \/ sub[j] # "new" /\ row'[j] = row[j]
BY DEF CancelStep, CancelRead, CancelWrite, Cancelled, TypeOK

LEMMA ProcessWrites ==
    ASSUME TypeOK, NEW w \in Workers, Process(w), NEW j \in Jobs, j = cur[w]
    PROVE  \/ row'[j] = row[j]
           \/ /\ pc[w] = "claim" /\ pc'[w] = "idle" /\ row'[j] = Orphaned(row[j], snap[w])
           \/ /\ pc[w] = "claim" /\ pc'[w] = "run" /\ row'[j] = Claimed(row[j], snap[w])
           \/ /\ pc[w] = "tick" /\ pc'[w] = "run" /\ row'[j] = Claimed(row[j], snap[w])
           \/ /\ pc[w] = "complete" /\ pc'[w] = "notify" /\ row'[j] = Completed(row[j], snap[w])
           \/ /\ pc[w] = "failing" /\ pc'[w] = "notifyfail" /\ row'[j] = GivenUp(row[j], snap[w])
           \/ /\ pc[w] = "retrycommit" /\ pc'[w] = "idle" /\ row'[j] = Rescheduled(row[j], snap[w])
<1> USE DEF TypeOK
<1>1. CASE Claim(w)
  BY <1>1 DEF Claim, Orphaned, Claimed, Goto, Return
<1>2. CASE TickWrite(w)
  BY <1>2 DEF TickWrite, Claimed
<1>3. CASE Complete(w)
  BY <1>3 DEF Complete, Completed, Goto
<1>4. CASE FailFlush(w)
  BY <1>4 DEF FailFlush, GivenUp, Goto
<1>5. CASE RetryCommit(w)
  BY <1>5 DEF RetryCommit, Rescheduled, GivenUp, Return
<1> QED
  BY <1>1, <1>2, <1>3, <1>4, <1>5
     DEF Process, Load, TickRead, HandlerReturn, HandlerRaise, FinishRead, Deliver,
         FailRead, Requeue, RequeueRaises

\* What a worker has in its snapshot after a step: what it had, the row it has
\* read in this step without writing, or nothing.
LEMMA ProcessReads ==
    ASSUME TypeOK, NEW w \in Workers, Process(w), NEW j \in Jobs, j = cur[w]
    PROVE  \/ /\ snap'[w] = snap[w] /\ pc[w] # "loaded"
              /\ pc'[w] \notin {"claim", "tick", "complete", "failing"}
           \/ /\ snap'[w] = row[j] /\ row' = row /\ attempts' = attempts
              /\ pc'[w] \in {"claim", "tick", "complete", "failing"}
           \/ snap'[w] = NewRow /\ pc'[w] = "idle"
<1> USE DEF TypeOK, Goto, ReadInto, Return
<1>1. CASE Load(w) \/ TickRead(w) \/ FinishRead(w) \/ FailRead(w)
  BY <1>1 DEF Load, TickRead, FinishRead, FailRead
<1>2. CASE ~(Load(w) \/ TickRead(w) \/ FinishRead(w) \/ FailRead(w))
  BY <1>2 DEF Process, Claim, TickWrite, HandlerReturn, HandlerRaise, Complete, Deliver,
              FailFlush, Requeue, RequeueRaises, RetryCommit
<1> QED
  BY <1>1, <1>2
-----------------------------------------------------------------------------
(* Results                                                                 *)

LEMMA InitResults == Init => ResultTraced
BY DEF Init, ResultTraced, ResultBacked, NewRow

LEMMA SubmitResults ==
    ASSUME TypeOK, SnapshotsFit, ResultTraced, NEW j \in Jobs, SubmitStep(j)
    PROVE  ResultTraced'
<1>1. row'[j].result = row[j].result
  <2>1. CASE sub[j] = "new" /\ row'[j] = NewRow
    BY <2>1 DEF SnapshotsFit
  <2>2. CASE row'[j] = Rejected(row[j], subSnap[j])
    BY <2>2, RejectedFacts DEF TypeOK
  <2> QED
    BY <2>1, <2>2, SubmitWrites
<1>2. \A k \in Jobs : row'[k].result = row[k].result
  BY <1>1, SubmitFrame
<1>3. \A w \in Workers : pc[w] # "idle" => cur[w] \in Jobs
  BY DEF TypeOK
<1> QED
  BY <1>2, <1>3, SubmitFrame DEF ResultTraced, ResultBacked

LEMMA CancelResults ==
    ASSUME TypeOK, ResultTraced, NEW j \in Jobs, CancelStep(j)
    PROVE  ResultTraced'
<1>1. row'[j].result = row[j].result
  <2>1. row[j] \in Row /\ canSnap[j] \in Row
    BY DEF TypeOK
  <2>2. row'[j] = Cancelled(row[j], canSnap[j]) \/ row'[j] = row[j]
    BY CancelWrites
  <2> QED
    BY <2>1, <2>2, CancelledFacts
<1>2. \A k \in Jobs : row'[k].result = row[k].result
  BY <1>1, CancelFrame
<1>3. \A w \in Workers : pc[w] # "idle" => cur[w] \in Jobs
  BY DEF TypeOK
<1> QED
  BY <1>2, <1>3, CancelFrame DEF ResultTraced, ResultBacked

LEMMA ProcessResults ==
    ASSUME TypeOK, ResultTraced, NEW w \in Workers, Process(w)
    PROVE  ResultTraced'
<1> DEFINE j == cur[w]
<1>0. pc[w] # "idle" /\ j \in Jobs /\ row[j] \in Row /\ snap[w] \in Row
  BY ProcessFrame DEF TypeOK
<1>1. /\ row[j].result => row'[j].result
      /\ row'[j].result => row[j].result \/ pc[w] = "complete"
      /\ pc[w] = "complete" => row'[j].result
      /\ snap[w].result => row'[j].result
  <2>1. snap[w].result => row[j].result
    BY <1>0 DEF ResultTraced
  <2>2. CASE pc[w] = "complete"
    <3>1. row'[j] = Completed(row[j], snap[w])
      <4>1. Complete(w)
        BY <2>2 DEF Process, Load, Claim, TickRead, TickWrite, HandlerReturn, HandlerRaise,
             FinishRead, Deliver, FailRead, FailFlush, Requeue, RequeueRaises, RetryCommit
      <4> QED
        BY <1>0, <4>1 DEF Complete, Completed, TypeOK
    <3> QED
      BY <1>0, <2>1, <2>2, <3>1, CompletedFacts
  <2>3. CASE pc[w] # "complete"
    <3>1. row'[j].result = row[j].result
      BY <1>0, <2>3, ProcessWrites, OrphanedFacts, ClaimedFacts, GivenUpFacts, RescheduledFacts
    <3> QED
      BY <2>1, <2>3, <3>1
  <2> QED
    BY <2>2, <2>3
<1>2. /\ handled'[j] >= handled[j]
      /\ pc'[w] \in {"finish", "complete", "notify"} => handled'[j] > 0
      /\ pc'[w] = "notify" => pc[w] = "complete"
      /\ results'[j] > 0 => results[j] > 0 \/ pc[w] = "notify"
  <2>1. handled[j] \in Nat /\ results[j] \in Nat
    BY <1>0 DEF TypeOK
  <2>2. handled'[j] \in {handled[j], handled[j] + 1}
    BY <1>0 DEF Process, Load, Claim, TickRead, TickWrite, HandlerReturn, HandlerRaise,
             FinishRead, Complete, Deliver, FailRead, FailFlush, Requeue, RequeueRaises,
             RetryCommit, TypeOK
  <2>4. results'[j] = results[j] \/ pc[w] = "notify"
    BY <1>0 DEF Process, Load, Claim, TickRead, TickWrite, HandlerReturn, HandlerRaise,
             FinishRead, Complete, Deliver, FailRead, FailFlush, Requeue, RequeueRaises,
             RetryCommit, userVars
  <2>3. /\ pc'[w] = "notify" => pc[w] = "complete"
        /\ pc'[w] \in {"finish", "complete", "notify"} =>
              pc[w] \in {"finish", "complete", "notify"} \/ handled'[j] = handled[j] + 1
    BY <1>0 DEF Process, Load, Claim, TickRead, TickWrite, HandlerReturn, HandlerRaise,
             FinishRead, Complete, Deliver, FailRead, FailFlush, Requeue, RequeueRaises,
             RetryCommit, Goto, ReadInto, Return, TypeOK
  <2>5. pc[w] \in {"finish", "complete", "notify"} => handled[j] > 0
    BY <1>0 DEF ResultTraced
  <2> HIDE DEF j
  <2> QED
    BY <2>1, <2>2, <2>3, <2>4, <2>5
<1>3. /\ pc'[w] \in {"idle", "loaded"} => snap'[w] = NewRow
      /\ pc'[w] # "idle" /\ snap'[w].result => row'[j].result
  BY <1>0, <1>1, ProcessReads, ProcessFrame
<1>4. ASSUME NEW v \in Workers
      PROVE  /\ pc'[v] \in {"idle", "loaded"} => snap'[v] = NewRow
             /\ pc'[v] # "idle" /\ snap'[v].result => row'[cur'[v]].result
             /\ pc'[v] \in {"finish", "complete", "notify"} => handled'[cur'[v]] > 0
             /\ pc'[v] = "notify" => row'[cur'[v]].result
  <2>1. CASE v = w
    BY <1>0, <1>1, <1>2, <1>3, <2>1, ProcessFrame
  <2>2. CASE v # w
    <3>1. pc[v] # "idle" => cur[v] \in Jobs /\ handled[cur[v]] \in Nat
      BY DEF TypeOK
    <3>2. pc[v] # "idle" => /\ handled[cur[v]] > 0 => handled'[cur[v]] > 0
                            /\ row[cur[v]].result => row'[cur[v]].result
      <4>1. CASE cur[v] = j
        <5>1. handled'[j] \in Nat
          BY <1>0, ProcessType DEF TypeOK
        <5> QED
          BY <1>0, <1>1, <1>2, <3>1, <4>1, <5>1
      <4>2. CASE cur[v] # j
        BY <3>1, <4>2, ProcessFrame
      <4> QED
        BY <4>1, <4>2
    <3> QED
      BY <2>2, <3>2, ProcessFrame DEF ResultTraced
  <2> QED
    BY <2>1, <2>2
<1>5. ResultBacked'
  <2> SUFFICES ASSUME NEW k \in Jobs
               PROVE  /\ row'[k].result => handled'[k] > 0
                      /\ results'[k] > 0 => row'[k].result
    BY DEF ResultBacked
  <2>1. CASE k = j
    <3>1. handled[j] \in Nat /\ handled'[j] \in Nat
      BY <1>0, ProcessType DEF TypeOK
    <3> QED
      BY <1>0, <1>1, <1>2, <2>1, <3>1 DEF ResultTraced, ResultBacked
  <2>2. CASE k # j
    BY <2>2, ProcessFrame DEF ResultTraced, ResultBacked
  <2> QED
    BY <2>1, <2>2
<1> QED
  BY <1>4, <1>5 DEF ResultTraced

LEMMA FetchResults ==
    ASSUME TypeOK, ResultTraced, NEW w \in Workers,
           \/ Crash(w)
           \/ \E j \in Jobs : PromoteDue(w, j) \/ Pop(w, j) \/ CrashInDequeue(w, j)
    PROVE  ResultTraced'
<1>1. ASSUME NEW v \in Workers
      PROVE  /\ pc'[v] \in {"idle", "loaded"} => snap'[v] = NewRow
             /\ pc'[v] # "idle" /\ snap'[v].result => row'[cur'[v]].result
             /\ pc'[v] \in {"finish", "complete", "notify"} => handled'[cur'[v]] > 0
             /\ pc'[v] = "notify" => row'[cur'[v]].result
  <2>1. ~NewRow.result
    BY DEF NewRow
  <2>2. CASE v # w
    BY <2>2, FetchFrame DEF ResultTraced
  <2>3. CASE v = w
    BY <2>1, <2>3, FetchFrame DEF ResultTraced
  <2> QED
    BY <2>2, <2>3
<1> QED
  BY <1>1, FetchFrame DEF ResultTraced, ResultBacked

LEMMA ResultsInvariant == Spec => []ResultTraced
<1>1. TypeOK /\ SnapshotsFit /\ ResultTraced /\ [Next]_vars => ResultTraced'
  <2> SUFFICES ASSUME TypeOK, SnapshotsFit, ResultTraced, [Next]_vars
               PROVE  ResultTraced'
    OBVIOUS
  <2>1. CASE UNCHANGED vars
    BY <2>1 DEF vars, workerVars, userVars, ResultTraced, ResultBacked
  <2> QED
    BY <2>1, SubmitResults, CancelResults, ProcessResults, FetchResults DEF Next, Poll
<1> QED
  BY InitResults, TypeCorrect, SnapshotsInvariant, <1>1, PTL DEF Spec
-----------------------------------------------------------------------------
(* Attempts                                                                *)

LEMMA CountersTyped ==
    ASSUME TypeOK
    PROVE  /\ Faults \in Nat /\ MaxRetries \in Nat
           /\ \A j \in Jobs : attempts[j] \in Nat /\ Retries(j) \in Nat /\ delayed[j] \in Nat
           /\ \A w \in Workers : snap[w].retry_count \in Nat
BY BoundsAssumption DEF TypeOK, QueueTypeOK, Faults, Retries, Row

LEMMA SumNat == ASSUME NEW a \in Nat, NEW b \in Nat, NEW c \in Nat PROVE a + b + c \in Nat
OBVIOUS

LEMMA FaultsTypedNext == ASSUME TypeOK' PROVE Faults' \in Nat
<1>1. crashes' \in Nat /\ requeueFaults' \in Nat /\ outlasted' \in Nat
  BY BoundsAssumption DEF TypeOK
<1> QED
  BY <1>1, SumNat DEF Faults

LEMMA InitAttempts == Init => AttemptsTraced
<1> SUFFICES ASSUME Init, NEW j \in Jobs
             PROVE  JobAttempts(j)
  BY DEF AttemptsTraced
<1>1. Faults = 0 /\ Retries(j) = 0 /\ attempts[j] = 0
  BY DEF Init, Faults, Retries, NewRow
<1>2. \A w \in Workers : cur[w] # j
  BY JobsAssumption DEF Init
<1> QED
  BY <1>1, <1>2, BoundsAssumption DEF JobAttempts, QueueAttempts

\* A step that neither starts a handler of k nor moves its retry counter, its
\* row lock or its copies forward.
LEMMA QuietAttempts ==
    ASSUME TypeOK, TypeOK', NEW k \in Jobs, JobAttempts(k),
           row'[k].retry_count = row[k].retry_count, attempts'[k] = attempts[k],
           Faults' >= Faults, delayed'[k] <= delayed[k],
           InReady(k)' => InReady(k) \/ attempts[k] = 0,
           Unsent(k)' => Unsent(k),
           \A v \in Workers : Locks(v, k)' <=> Locks(v, k),
           \A v \in Workers : cur'[v] = k =>
               /\ cur[v] = k
               /\ pc'[v] \in {"loaded", "claim"} => pc[v] \in {"loaded", "claim"}
               /\ pc'[v] \in OwnerPhases => pc[v] \in OwnerPhases
               /\ pc'[v] \in FailPhases => pc[v] = pc'[v] /\ snap'[v] = snap[v]
    PROVE  JobAttempts(k)'
<1>1. /\ Faults \in Nat /\ Faults' \in Nat /\ MaxRetries \in Nat
      /\ attempts[k] \in Nat /\ Retries(k) \in Nat /\ delayed[k] \in Nat /\ delayed'[k] \in Nat
      /\ \A w \in Workers : snap[w].retry_count \in Nat
  <2>1. delayed'[k] \in Nat
    BY DEF TypeOK, QueueTypeOK
  <2> QED
    BY <2>1, CountersTyped, FaultsTypedNext
<1>2. Retries(k)' = Retries(k)
  BY DEF Retries
<1>3. QueueAttempts(k)'
  <2>1. Locked(k)' <=> Locked(k)
    BY DEF Locked, Locks
  <2> QED
    BY <1>1, <1>2, <2>1 DEF JobAttempts, QueueAttempts
<1>4. ASSUME NEW v \in Workers, cur'[v] = k
      PROVE  WorkerAttempts(v, k)' /\ WorkerCounter(v, k)'
  <2>1. /\ cur[v] = k /\ WorkerAttempts(v, k) /\ WorkerCounter(v, k)
        /\ snap[v].retry_count \in Nat
    BY <1>1, <1>4 DEF JobAttempts
  <2>2. WorkerAttempts(v, k)'
    BY <1>1, <1>2, <1>4, <2>1 DEF WorkerAttempts, FailPhases
  <2>3. WorkerCounter(v, k)'
    BY <1>1, <1>2, <1>4, <2>1 DEF WorkerCounter, FailPhases
  <2> QED
    BY <2>2, <2>3
<1> QED
  BY <1>1, <1>2, <1>3, <1>4 DEF JobAttempts

LEMMA SubmitAttempts ==
    ASSUME TypeOK, SnapshotsFit, AttemptsTraced, NEW j \in Jobs, SubmitStep(j)
    PROVE  AttemptsTraced'
<1>0. TypeOK'
  BY SubmitType
<1>1. row'[j].retry_count = row[j].retry_count
  <2>1. row[j] \in Row /\ subSnap[j] \in Row
    BY DEF TypeOK
  <2> QED
    BY <2>1, SubmitWrites, RejectedFacts DEF SnapshotsFit
<1>2. ASSUME NEW k \in Jobs
      PROVE  /\ row'[k].retry_count = row[k].retry_count
             /\ Unsent(k)' => Unsent(k)
             /\ InReady(k)' => InReady(k) \/ attempts[k] = 0
  <2>1. Unsent(k)' => Unsent(k)
    BY SubmitFrame DEF Unsent
  <2>2. CASE ready' = ready
    BY <1>1, <2>1, <2>2, SubmitFrame DEF InReady
  <2>3. CASE ready' # ready
    <3>1. ready' = Append(ready, j) /\ Unsent(j)
      BY <2>3 DEF SubmitStep, Create, SubmitEnqueue, EnqueueRaises, Enqueue, RejectRead,
                  RejectWrite, SubmitCrash, queueVars, Unsent
    <3>2. InReady(k)' <=> InReady(k) \/ k = j
      BY <3>1, AppendReady DEF TypeOK, QueueTypeOK
    <3>3. attempts[j] = 0
      BY <3>1 DEF AttemptsTraced, JobAttempts, QueueAttempts
    <3> QED
      BY <1>1, <2>1, <3>2, <3>3, SubmitFrame
  <2> QED
    BY <2>2, <2>3
<1>3. Faults' >= Faults
  <2>1. crashes \in Nat /\ requeueFaults \in Nat /\ outlasted \in Nat
    BY BoundsAssumption DEF TypeOK
  <2> QED
    BY <2>1, SubmitFrame DEF Faults
<1>4. \A k \in Jobs : delayed'[k] <= delayed[k]
  BY SubmitFrame, CountersTyped
<1>5. \A v \in Workers : \A k \in Jobs : Locks(v, k)' <=> Locks(v, k)
  BY SubmitFrame DEF Locks
<1>6. ASSUME NEW k \in Jobs PROVE JobAttempts(k)'
  <2>1. JobAttempts(k)
    BY DEF AttemptsTraced
  <2> QED
    BY <1>0, <1>2, <1>3, <1>4, <1>5, <2>1, SubmitFrame, QuietAttempts
<1> QED
  BY <1>6 DEF AttemptsTraced

LEMMA CancelAttempts ==
    ASSUME TypeOK, AttemptsTraced, NEW j \in Jobs, CancelStep(j)
    PROVE  AttemptsTraced'
<1>0. TypeOK'
  BY CancelType
<1>1. \A k \in Jobs : row'[k].retry_count = row[k].retry_count
  <2>1. row[j] \in Row /\ canSnap[j] \in Row
    BY DEF TypeOK
  <2>2. row'[j] = Cancelled(row[j], canSnap[j]) \/ row'[j] = row[j]
    BY CancelWrites
  <2> QED
    BY <2>1, <2>2, CancelledFacts, CancelFrame
<1>2. Faults' = Faults /\ Faults \in Nat
  BY CancelFrame, CountersTyped DEF Faults, faultVars
<1>3. \A k \in Jobs : /\ delayed'[k] <= delayed[k]
                      /\ InReady(k)' => InReady(k)
                      /\ Unsent(k)' => Unsent(k)
                      /\ \A v \in Workers : Locks(v, k)' <=> Locks(v, k)
  BY CancelFrame, CountersTyped DEF InReady, Unsent, Locks
<1>4. ASSUME NEW k \in Jobs PROVE JobAttempts(k)'
  <2>1. JobAttempts(k)
    BY DEF AttemptsTraced
  <2> QED
    BY <1>0, <1>1, <1>2, <1>3, <2>1, CancelFrame, QuietAttempts
<1> QED
  BY <1>4 DEF AttemptsTraced

\* What counting an attempt of the job in hand needs to know of the others.
LEMMA OwnerAlone ==
    ASSUME TypeOK, Tokens, NEW w \in Workers, pc[w] \in OwnerPhases, NEW j \in Jobs, cur[w] = j
    PROVE  /\ ~InReady(j) /\ delayed[j] = 0 /\ ~Unsent(j)
           /\ \A v \in Workers : v # w /\ cur[v] = j => pc[v] \in {"idle", "retrycommit"}
<1>1. Owns(w, j)
  BY DEF Owns
<1>2. ~Queued(j) /\ ~Unsent(j) /\ delayed[j] \in Nat
  BY <1>1 DEF Tokens, OnePlace, TypeOK, QueueTypeOK
<1>3. ASSUME NEW v \in Workers, v # w, cur[v] = j
      PROVE  pc[v] \in {"idle", "retrycommit"}
  <2>1. ~Owns(v, j)
    BY <1>1, <1>3 DEF Tokens, OneOwner
  <2> QED
    BY <1>3, <2>1 DEF Owns, OwnerPhases, TypeOK
<1> QED
  BY <1>2, <1>3 DEF Queued

\* The steps of a worker that do not count, read or lock the retry counter.
LEMMA ProcessQuiet ==
    ASSUME TypeOK, TypeOK', NEW w \in Workers, Process(w), NEW k \in Jobs, JobAttempts(k),
           \/ k # cur[w]
           \/ /\ pc[w] \notin {"requeue", "retrycommit"}
              /\ pc'[w] \notin FailPhases
              /\ attempts' = attempts
    PROVE  JobAttempts(k)'
<1>0. pc[w] # "idle" /\ cur[w] \in Jobs /\ snap[w] \in Row /\ row[cur[w]] \in Row
  BY ProcessFrame DEF TypeOK
<1>1. row'[k].retry_count = row[k].retry_count
  <2>1. CASE k = cur[w]
    BY <1>0, <2>1, ProcessWrites, OrphanedFacts, ClaimedFacts, CompletedFacts, GivenUpFacts
  <2> QED
    BY <2>1, ProcessFrame
<1>2. attempts'[k] = attempts[k]
  BY ProcessFrame
<1>3. Faults' >= Faults
  <2>1. requeueFaults' \in {requeueFaults, requeueFaults + 1}
    BY DEF Process, Load, Claim, TickRead, TickWrite, HandlerReturn, HandlerRaise,
           FinishRead, Complete, Deliver, FailRead, FailFlush, Requeue, RequeueRaises,
           RetryCommit, faultVars
  <2>2. crashes \in Nat /\ requeueFaults \in Nat /\ outlasted \in Nat
    BY BoundsAssumption DEF TypeOK
  <2> QED
    BY <2>1, <2>2, ProcessFrame DEF Faults
<1>4. delayed'[k] <= delayed[k]
  <2>1. CASE k = cur[w]
    <3>1. delayed' = delayed
      BY <2>1 DEF Process, Load, Claim, TickRead, TickWrite, HandlerReturn, HandlerRaise,
             FinishRead, Complete, Deliver, FailRead, FailFlush, Requeue, RequeueRaises,
             RetryCommit, queueVars
    <3> QED
      BY <3>1, CountersTyped
  <2> QED
    BY <2>1, ProcessFrame, CountersTyped
<1>5. /\ InReady(k)' => InReady(k)
      /\ Unsent(k)' => Unsent(k)
  BY ProcessFrame DEF InReady, Unsent
<1>6. \A v \in Workers : Locks(v, k)' <=> Locks(v, k)
  <2>1. \A v \in Workers : v # w => (Locks(v, k)' <=> Locks(v, k))
    BY ProcessFrame DEF Locks
  <2>2. Locks(w, k)' <=> Locks(w, k)
    BY <1>0, ProcessFrame, JobsAssumption DEF Locks, FailPhases
  <2> QED
    BY <2>1, <2>2
<1>7. ASSUME NEW v \in Workers, cur'[v] = k
      PROVE  /\ cur[v] = k
             /\ pc'[v] \in {"loaded", "claim"} => pc[v] \in {"loaded", "claim"}
             /\ pc'[v] \in OwnerPhases => pc[v] \in OwnerPhases
             /\ pc'[v] \in FailPhases => pc[v] = pc'[v] /\ snap'[v] = snap[v]
  <2>1. CASE v # w
    BY <1>7, <2>1, ProcessFrame
  <2>2. CASE v = w
    <3>1. pc'[w] # "idle" /\ cur[w] = k
      BY <1>7, <2>2, ProcessFrame, JobsAssumption
    <3>2. pc'[w] \in {"loaded", "claim"} => pc[w] \in {"loaded", "claim"}
      BY DEF Process, Load, Claim, TickRead, TickWrite, HandlerReturn, HandlerRaise,
             FinishRead, Complete, Deliver, FailRead, FailFlush, Requeue, RequeueRaises,
             RetryCommit, Goto, ReadInto, Return, TypeOK
    <3>3. pc[w] \in OwnerPhases
      BY <1>0, <3>1 DEF OwnerPhases, TypeOK
    <3> QED
      BY <2>2, <3>1, <3>2, <3>3
  <2> QED
    BY <2>1, <2>2
<1> QED
  BY <1>1, <1>2, <1>3, <1>4, <1>5, <1>6, <1>7, QuietAttempts

\* A handler starts: one attempt more, by the only carrier of the job.
LEMMA ClaimAttempts ==
    ASSUME TypeOK, TypeOK', Tokens, AttemptsTraced, NEW w \in Workers, Claim(w), pc'[w] = "run",
           NEW j \in Jobs, j = cur[w]
    PROVE  JobAttempts(j)'
<1>1. /\ pc[w] = "claim" /\ snap[w] \in Row /\ row[j] \in Row
      /\ Process(w)
  BY DEF Claim, TypeOK, Process
<1>2. /\ attempts' = [attempts EXCEPT ![j] = @ + 1] /\ Goto(w, "run")
      /\ row'[j] = Claimed(row[j], snap[w])
      /\ ready' = ready /\ delayed' = delayed /\ sub' = sub /\ Faults' = Faults
  BY <1>1 DEF Claim, Return, Claimed, queueVars, subVars, faultVars, Faults, TypeOK
<1>3. /\ attempts'[j] = attempts[j] + 1
      /\ Retries(j)' = Retries(j)
  BY <1>1, <1>2, ClaimedFacts DEF Retries, TypeOK
<1>4. /\ Faults \in Nat /\ MaxRetries \in Nat /\ attempts[j] \in Nat /\ Retries(j) \in Nat
      /\ \A v \in Workers : snap[v].retry_count \in Nat
  BY <1>1, CountersTyped
<1>5. /\ ~InReady(j) /\ delayed[j] = 0 /\ ~Unsent(j)
      /\ \A v \in Workers : v # w /\ cur[v] = j => pc[v] \in {"idle", "retrycommit"}
  BY <1>1, OwnerAlone DEF OwnerPhases, Phases
<1>6. /\ pc'[w] = "run" /\ snap' = snap /\ cur' = cur
      /\ \A v \in Workers : v # w => pc'[v] = pc[v]
  BY <1>1, <1>2 DEF Goto, TypeOK
<1>7. /\ attempts[j] <= Retries(j) + Faults /\ Retries(j) <= MaxRetries
      /\ \A v \in Workers : cur[v] = j => WorkerCounter(v, j)
  BY <1>1 DEF AttemptsTraced, JobAttempts, WorkerAttempts
<1>8. QueueAttempts(j)'
  BY <1>2, <1>5 DEF QueueAttempts, InReady, Unsent
<1>9. ASSUME NEW v \in Workers, cur'[v] = j
      PROVE  WorkerAttempts(v, j)' /\ WorkerCounter(v, j)'
  <2>1. WorkerAttempts(v, j)'
    BY <1>2, <1>3, <1>4, <1>5, <1>6, <1>7, <1>9 DEF WorkerAttempts, OwnerPhases
  <2>2. \A u \in Workers : Locks(u, j)' => Locks(u, j)
    BY <1>6 DEF Locks
  <2>3. WorkerCounter(v, j)'
    BY <1>3, <1>6, <1>7, <1>9, <2>2 DEF WorkerCounter, FailPhases
  <2> QED
    BY <2>1, <2>3
<1> QED
  BY <1>2, <1>3, <1>4, <1>7, <1>8, <1>9 DEF JobAttempts

\* The worker reads the row to fail it.
LEMMA FailReadAttempts ==
    ASSUME TypeOK, TypeOK', Tokens, AttemptsTraced, NEW w \in Workers, FailRead(w),
           pc'[w] = "failing", NEW j \in Jobs, j = cur[w]
    PROVE  JobAttempts(j)'
<1>1. pc[w] = "failed" /\ row[j] \in Row
  BY DEF FailRead, TypeOK
<1>2. /\ attempts' = attempts /\ row' = row /\ ReadInto(w, "failing")
      /\ ready' = ready /\ delayed' = delayed /\ sub' = sub /\ Faults' = Faults
  BY <1>1 DEF FailRead, Return, queueVars, subVars, faultVars, Faults, TypeOK
<1>3. Retries(j)' = Retries(j)
  BY <1>2 DEF Retries
<1>4. /\ Faults \in Nat /\ MaxRetries \in Nat /\ attempts[j] \in Nat /\ Retries(j) \in Nat
      /\ \A v \in Workers : snap[v].retry_count \in Nat
  BY <1>1, CountersTyped
<1>6. /\ snap'[w].retry_count = Retries(j) /\ cur' = cur
      /\ \A v \in Workers : v # w => pc'[v] = pc[v] /\ snap'[v] = snap[v]
  BY <1>1, <1>2 DEF ReadInto, Retries, TypeOK
<1>7. /\ attempts[j] <= Retries(j) + 1 + Faults /\ QueueAttempts(j)
      /\ \A v \in Workers : cur[v] = j => WorkerAttempts(v, j) /\ WorkerCounter(v, j)
      /\ Retries(j) <= MaxRetries /\ attempts[j] <= MaxRetries + 1 + Faults
  BY <1>1 DEF AttemptsTraced, JobAttempts, WorkerAttempts, OwnerPhases, Phases
<1>9. \A u \in Workers : Locks(u, j)' <=> Locks(u, j)
  BY <1>1, <1>6 DEF Locks
<1>10. QueueAttempts(j)'
  <2>1. Locked(j)' <=> Locked(j)
    BY <1>9 DEF Locked, Locks
  <2> QED
    BY <1>2, <1>3, <1>7, <2>1 DEF QueueAttempts, InReady, Unsent
<1>11. ASSUME NEW v \in Workers, cur'[v] = j
       PROVE  WorkerAttempts(v, j)' /\ WorkerCounter(v, j)'
  <2>1. CASE v = w
    <3>1. WorkerAttempts(v, j)'
      BY <1>2, <1>3, <1>4, <1>6, <1>7, <2>1 DEF WorkerAttempts
    <3>2. WorkerCounter(v, j)'
      BY <1>3, <1>4, <1>6, <1>7, <1>9, <2>1 DEF WorkerCounter, Locks
    <3> QED
      BY <3>1, <3>2
  <2>2. CASE v # w
    <3>1. WorkerAttempts(v, j)'
      BY <1>2, <1>3, <1>6, <1>7, <1>11, <2>2 DEF WorkerAttempts
    <3>2. WorkerCounter(v, j)'
      BY <1>3, <1>6, <1>7, <1>9, <1>11, <2>2 DEF WorkerCounter
    <3> QED
      BY <3>1, <3>2
  <2> QED
    BY <2>1, <2>2
<1> QED
  BY <1>2, <1>3, <1>7, <1>10, <1>11 DEF JobAttempts

\* The worker takes the row lock for a retry: it is the only one to hold it.
LEMMA LockAttempts ==
    ASSUME TypeOK, TypeOK', Tokens, AttemptsTraced, NEW w \in Workers, FailFlush(w),
           pc'[w] = "requeue", NEW j \in Jobs, j = cur[w]
    PROVE  JobAttempts(j)'
<1>1. pc[w] = "failing" /\ RetriesLeft(snap[w]) /\ ~Locked(j)
  BY DEF FailFlush, Goto, TypeOK
<1>2. /\ attempts' = attempts /\ row' = row /\ Goto(w, "requeue")
      /\ ready' = ready /\ delayed' = delayed /\ sub' = sub /\ Faults' = Faults
  BY <1>1 DEF FailFlush, Goto, queueVars, subVars, faultVars, Faults, TypeOK
<1>3. Retries(j)' = Retries(j)
  BY <1>2 DEF Retries
<1>4. /\ pc'[w] = "requeue" /\ snap' = snap /\ cur' = cur
      /\ \A v \in Workers : v # w => pc'[v] = pc[v]
  BY <1>2 DEF Goto, TypeOK
<1>5. /\ ~InReady(j) /\ delayed[j] = 0 /\ ~Unsent(j)
      /\ \A v \in Workers : v # w /\ cur[v] = j => pc[v] = "idle"
  BY <1>1, OwnerAlone DEF OwnerPhases, Phases, Locked
<1>6. /\ \A v \in Workers : cur[v] = j => WorkerAttempts(v, j) /\ WorkerCounter(v, j)
      /\ Retries(j) <= MaxRetries /\ attempts[j] <= MaxRetries + 1 + Faults
  BY DEF AttemptsTraced, JobAttempts
<1>7. QueueAttempts(j)'
  BY <1>2, <1>5 DEF QueueAttempts, InReady, Unsent
<1>8. ASSUME NEW v \in Workers, cur'[v] = j
      PROVE  WorkerAttempts(v, j)' /\ WorkerCounter(v, j)'
  <2>1. CASE v = w
    <3>1. WorkerAttempts(w, j)'
      BY <1>1, <1>2, <1>3, <1>4, <1>5, <1>6 DEF WorkerAttempts, OwnerPhases, Phases
    <3>2. \A u \in Workers : Locks(u, j)' => u = w
      BY <1>4, <1>5 DEF Locks
    <3>3. WorkerCounter(w, j)'
      BY <1>1, <1>3, <1>4, <1>6, <3>2 DEF WorkerCounter, FailPhases, RetriesLeft
    <3> QED
      BY <2>1, <3>1, <3>3
  <2>2. CASE v # w
    <3>1. pc'[v] = "idle"
      BY <1>4, <1>5, <1>8, <2>2
    <3> QED
      BY <3>1 DEF WorkerAttempts, WorkerCounter, OwnerPhases, FailPhases, Locks
  <2> QED
    BY <2>1, <2>2
<1> QED
  BY <1>2, <1>3, <1>6, <1>7, <1>8 DEF JobAttempts

\* The worker with the row lock parks the id, or fails to and lets go.
LEMMA ParkAttempts ==
    ASSUME TypeOK, TypeOK', Tokens, AttemptsTraced, NEW w \in Workers,
           Requeue(w) \/ RequeueRaises(w), NEW j \in Jobs, j = cur[w]
    PROVE  JobAttempts(j)'
<1>1. pc[w] = "requeue" /\ Locks(w, j)
  BY DEF Requeue, RequeueRaises, Locks
<1>2. /\ attempts' = attempts /\ row' = row /\ ready' = ready /\ sub' = sub
  BY DEF Requeue, RequeueRaises, Park, queueVars, subVars
<1>3. Retries(j)' = Retries(j)
  BY <1>2 DEF Retries
<1>4. /\ Faults \in Nat /\ MaxRetries \in Nat /\ attempts[j] \in Nat /\ Retries(j) \in Nat
      /\ \A v \in Workers : snap[v].retry_count \in Nat
  BY CountersTyped
<1>5. /\ ~InReady(j) /\ delayed[j] = 0 /\ ~Unsent(j)
      /\ \A v \in Workers : v # w /\ cur[v] = j => pc[v] \in {"idle", "retrycommit"}
  BY <1>1, OwnerAlone DEF OwnerPhases, Phases
<1>6. /\ \A v \in Workers : cur[v] = j => WorkerAttempts(v, j) /\ WorkerCounter(v, j)
      /\ Retries(j) <= MaxRetries /\ attempts[j] <= MaxRetries + 1 + Faults
      /\ WorkerAttempts(w, j) /\ WorkerCounter(w, j)
  BY DEF AttemptsTraced, JobAttempts
<1>7. \A v \in Workers : v # w /\ cur[v] = j => pc[v] = "idle"
  BY <1>1, <1>5, <1>6 DEF WorkerCounter, Locks
<1>8. /\ attempts[j] <= snap[w].retry_count + 1 + Faults
      /\ snap[w].retry_count <= Retries(j) /\ Retries(j) <= snap[w].retry_count + 1
      /\ snap[w].retry_count < MaxRetries
  BY <1>1, <1>6 DEF WorkerAttempts, WorkerCounter, FailPhases
<1>9. CASE Requeue(w)
  <2>1. /\ pc'[w] = "retrycommit" /\ snap' = snap /\ cur' = cur /\ Faults' = Faults
        /\ \A v \in Workers : v # w => pc'[v] = pc[v]
    BY <1>9 DEF Requeue, Goto, Faults, faultVars, TypeOK
  <2>2. QueueAttempts(j)'
    BY <1>2, <1>5, <2>1 DEF QueueAttempts, InReady, Unsent, Locked
  <2>3. ASSUME NEW v \in Workers, cur'[v] = j
        PROVE  WorkerAttempts(v, j)' /\ WorkerCounter(v, j)'
    <3>1. CASE v = w
      <4>1. WorkerAttempts(w, j)'
        BY <1>2, <1>3, <1>8, <2>1 DEF WorkerAttempts, OwnerPhases
      <4>2. \A u \in Workers : Locks(u, j)' => u = w
        BY <1>7, <2>1 DEF Locks
      <4>3. WorkerCounter(w, j)'
        BY <1>3, <1>8, <2>1, <4>2 DEF WorkerCounter, FailPhases
      <4> QED
        BY <3>1, <4>1, <4>3
    <3>2. CASE v # w
      <4>1. pc'[v] = "idle"
        BY <1>7, <2>1, <2>3, <3>2
      <4> QED
        BY <4>1 DEF WorkerAttempts, WorkerCounter, OwnerPhases, FailPhases, Locks
    <3> QED
      BY <3>1, <3>2
  <2> QED
    BY <1>2, <1>3, <1>6, <2>1, <2>2, <2>3 DEF JobAttempts
<1>10. CASE RequeueRaises(w)
  <2>1. Faults' = Faults + 1
    <3>1. /\ requeueFaults' = requeueFaults + 1 /\ crashes' = crashes /\ outlasted' = outlasted
      BY <1>10 DEF RequeueRaises
    <3>2. crashes \in Nat /\ requeueFaults \in Nat /\ outlasted \in Nat
      BY BoundsAssumption DEF TypeOK
    <3> QED
      BY <3>1, <3>2 DEF Faults
  <2>2. \A v \in Workers : cur'[v] = j => pc'[v] = "idle"
    BY <1>7, <1>10, JobsAssumption DEF RequeueRaises, Return, TypeOK
  <2>3. QueueAttempts(j)'
    BY <1>2, <1>3, <1>4, <1>5, <1>8, <2>1 DEF QueueAttempts, InReady, Unsent
  <2>4. ASSUME NEW v \in Workers, cur'[v] = j
        PROVE  WorkerAttempts(v, j)' /\ WorkerCounter(v, j)'
    BY <2>2, <2>4 DEF WorkerAttempts, WorkerCounter, OwnerPhases, FailPhases, Locks
  <2> QED
    BY <1>2, <1>3, <1>4, <1>6, <2>1, <2>3, <2>4 DEF JobAttempts
<1> QED
  BY <1>9, <1>10

\* The retry is committed and the counter catches up with the attempts.
LEMMA CommitAttempts ==
    ASSUME TypeOK, TypeOK', AttemptsTraced, NEW w \in Workers, RetryCommit(w),
           NEW j \in Jobs, j = cur[w]
    PROVE  JobAttempts(j)'
<1>1. pc[w] = "retrycommit" /\ Locks(w, j) /\ row[j] \in Row /\ snap[w] \in Row
  BY DEF RetryCommit, Locks, TypeOK
<1>2. /\ attempts' = attempts /\ ready' = ready /\ sub' = sub /\ delayed' = delayed
      /\ Faults' = Faults
  BY DEF RetryCommit, queueVars, subVars, faultVars, Faults
<1>3. Retries(j)' = snap[w].retry_count + 1
  <2>1. row'[j] = Rescheduled(row[j], snap[w])
    BY DEF RetryCommit, Rescheduled, GivenUp, TypeOK
  <2> QED
    BY <1>1, <2>1, RescheduledFacts DEF Retries
<1>4. /\ Faults \in Nat /\ MaxRetries \in Nat /\ attempts[j] \in Nat /\ Retries(j) \in Nat
      /\ delayed[j] \in Nat
      /\ \A v \in Workers : snap[v].retry_count \in Nat
  BY CountersTyped
<1>5. /\ \A v \in Workers : cur[v] = j => WorkerAttempts(v, j) /\ WorkerCounter(v, j)
      /\ Retries(j) <= MaxRetries /\ attempts[j] <= MaxRetries + 1 + Faults
      /\ WorkerAttempts(w, j) /\ WorkerCounter(w, j) /\ QueueAttempts(j)
  BY DEF AttemptsTraced, JobAttempts
<1>6. /\ snap[w].retry_count <= Retries(j) /\ Retries(j) <= snap[w].retry_count + 1
      /\ snap[w].retry_count < MaxRetries
      /\ delayed[j] > 0 => attempts[j] <= snap[w].retry_count + 1 + Faults
  BY <1>1, <1>5 DEF WorkerAttempts, WorkerCounter, FailPhases
<1>7. \A v \in Workers : cur'[v] = j => /\ v # w /\ cur[v] = j /\ pc'[v] = pc[v]
                                        /\ snap'[v] = snap[v]
  <2>1. Return(w)
    BY DEF RetryCommit
  <2>2. /\ pc \in [Workers -> Phases] /\ cur \in [Workers -> Jobs \cup {NoJob}]
        /\ snap \in [Workers -> Row]
    BY DEF TypeOK
  <2>3. cur'[w] = NoJob /\ NoJob # j
    BY <2>1, <2>2, JobsAssumption DEF Return
  <2>4. \A v \in Workers : v # w => cur'[v] = cur[v] /\ pc'[v] = pc[v] /\ snap'[v] = snap[v]
    BY <2>1, <2>2 DEF Return
  <2> QED
    BY <2>3, <2>4
<1>8. QueueAttempts(j)'
  <2>1. /\ Unsent(j)' <=> Unsent(j)
        /\ InReady(j)' <=> InReady(j)
    BY <1>2 DEF InReady, Unsent
  <2>2. Unsent(j) => attempts[j] = 0
    BY <1>5 DEF QueueAttempts
  <2>3. InReady(j) => attempts[j] <= Retries(j)' + Faults
    <3>1. InReady(j) => attempts[j] <= Retries(j) + Faults
      BY <1>5 DEF QueueAttempts
    <3> QED
      BY <1>3, <1>4, <1>6, <3>1
  <2>4. delayed[j] > 0 => attempts[j] <= Retries(j)' + Faults
    BY <1>3, <1>6
  <2> QED
    BY <1>2, <2>1, <2>2, <2>3, <2>4 DEF QueueAttempts
<1>9. ASSUME NEW v \in Workers, cur'[v] = j
      PROVE  WorkerAttempts(v, j)' /\ WorkerCounter(v, j)'
  <2>1. /\ v # w /\ cur[v] = j /\ pc'[v] = pc[v] /\ snap'[v] = snap[v]
        /\ WorkerAttempts(v, j) /\ WorkerCounter(v, j)
        /\ snap[v].retry_count \in Nat
    BY <1>4, <1>5, <1>7, <1>9
  <2>2. pc[v] \notin {"requeue", "retrycommit"}
    BY <1>1, <2>1 DEF WorkerCounter, Locks
  <2>3. pc[v] = "failing" => snap[v].retry_count = Retries(j)
    BY <1>1, <2>1 DEF WorkerCounter
  <2>4. WorkerAttempts(v, j)'
    BY <1>2, <1>3, <1>4, <1>6, <2>1, <2>2 DEF WorkerAttempts
  <2>5. \A u \in Workers : ~Locks(u, j)'
    BY <1>1, <1>5, <1>7 DEF WorkerCounter, Locks
  <2>6. WorkerCounter(v, j)'
    BY <1>3, <1>4, <1>6, <2>1, <2>2, <2>3, <2>5 DEF WorkerCounter, FailPhases
  <2> QED
    BY <2>4, <2>6
<1> QED
  BY <1>2, <1>3, <1>4, <1>5, <1>6, <1>8, <1>9 DEF JobAttempts

LEMMA ProcessAttempts ==
    ASSUME TypeOK, Tokens, AttemptsTraced, NEW w \in Workers, Process(w)
    PROVE  AttemptsTraced'
<1>0. TypeOK'
  BY ProcessType
<1> SUFFICES ASSUME NEW k \in Jobs
             PROVE  JobAttempts(k)'
  BY DEF AttemptsTraced
<1>1. JobAttempts(k)
  BY DEF AttemptsTraced
<1>2. CASE k # cur[w]
  BY <1>0, <1>1, <1>2, ProcessQuiet
<1>3. CASE k = cur[w] /\ (\/ Claim(w) /\ pc'[w] = "run"
                          \/ FailRead(w) /\ pc'[w] = "failing"
                          \/ FailFlush(w) /\ pc'[w] = "requeue"
                          \/ Requeue(w) \/ RequeueRaises(w) \/ RetryCommit(w))
  BY <1>0, <1>3, ClaimAttempts, FailReadAttempts, LockAttempts, ParkAttempts, CommitAttempts
<1>4. CASE k = cur[w] /\ ~(\/ Claim(w) /\ pc'[w] = "run"
                           \/ FailRead(w) /\ pc'[w] = "failing"
                           \/ FailFlush(w) /\ pc'[w] = "requeue"
                           \/ Requeue(w) \/ RequeueRaises(w) \/ RetryCommit(w))
  <2>1. pc[w] \notin {"requeue", "retrycommit"} /\ pc'[w] \notin FailPhases
    BY <1>4 DEF Process, Load, Claim, TickRead, TickWrite, HandlerReturn, HandlerRaise,
             FinishRead, Complete, Deliver, FailRead, FailFlush,
             Goto, ReadInto, Return, FailPhases, TypeOK
  <2>2. attempts' = attempts
    BY <1>4 DEF Process, Load, Claim, TickRead, TickWrite, HandlerReturn, HandlerRaise,
             FinishRead, Complete, Deliver, FailRead, FailFlush, Goto, TypeOK
  <2> QED
    BY <1>0, <1>1, <2>1, <2>2, ProcessQuiet
<1> QED
  BY <1>2, <1>3, <1>4

\* The carriers of a parked copy whose transaction is still open.
LEMMA ParkedOpen ==
    ASSUME TypeOK, Tokens, NEW k \in Jobs, JobAttempts(k), delayed[k] > 0, Locked(k)
    PROVE  attempts[k] <= Retries(k) + 1 + Faults
<1>1. PICK v \in Workers : pc[v] \in {"requeue", "retrycommit"} /\ cur[v] = k
  BY DEF Locked
<1>2. pc[v] = "retrycommit"
  BY <1>1, OwnerAlone DEF OwnerPhases, Phases
<1>3. /\ attempts[k] <= snap[v].retry_count + 1 + Faults
      /\ snap[v].retry_count <= Retries(k)
  BY <1>1, <1>2 DEF JobAttempts, WorkerAttempts, WorkerCounter, FailPhases
<1>4. /\ Faults \in Nat /\ attempts[k] \in Nat /\ Retries(k) \in Nat
      /\ snap[v].retry_count \in Nat
  BY CountersTyped
<1> QED
  BY <1>3, <1>4

LEMMA CrashAttempts ==
    ASSUME TypeOK, Tokens, AttemptsTraced, NEW w \in Workers, Crash(w)
    PROVE  AttemptsTraced'
<1>0. TypeOK'
  BY WorkerType
<1> SUFFICES ASSUME NEW k \in Jobs
             PROVE  JobAttempts(k)'
  BY DEF AttemptsTraced
<1>1. JobAttempts(k)
  BY DEF AttemptsTraced
<1>2. /\ attempts' = attempts /\ row' = row /\ ready' = ready /\ sub' = sub
      /\ delayed' = delayed /\ Retries(k)' = Retries(k)
  BY DEF Crash, queueVars, subVars, Retries
<1>3. Faults' = Faults + 1
  <2>1. crashes \in Nat /\ requeueFaults \in Nat /\ outlasted \in Nat
    BY BoundsAssumption DEF TypeOK
  <2> QED
    BY <2>1 DEF Crash, Faults
<1>4. \A v \in Workers : cur'[v] = k => /\ v # w /\ cur[v] = k /\ pc'[v] = pc[v]
                                        /\ snap'[v] = snap[v]
  BY JobsAssumption DEF Crash, Return, TypeOK
<1>5. /\ Faults \in Nat /\ MaxRetries \in Nat /\ attempts[k] \in Nat /\ Retries(k) \in Nat
      /\ delayed[k] \in Nat
      /\ \A v \in Workers : snap[v].retry_count \in Nat
  BY CountersTyped
<1>6. QueueAttempts(k)'
  BY <1>1, <1>2, <1>3, <1>5, ParkedOpen DEF JobAttempts, QueueAttempts, InReady, Unsent
<1>7. ASSUME NEW v \in Workers, cur'[v] = k
      PROVE  WorkerAttempts(v, k)' /\ WorkerCounter(v, k)'
  <2>1. /\ cur[v] = k /\ pc'[v] = pc[v] /\ snap'[v] = snap[v]
        /\ WorkerAttempts(v, k) /\ WorkerCounter(v, k) /\ snap[v].retry_count \in Nat
    BY <1>1, <1>4, <1>5, <1>7 DEF JobAttempts
  <2>2. WorkerAttempts(v, k)'
    BY <1>2, <1>3, <1>5, <2>1 DEF WorkerAttempts
  <2>3. \A u \in Workers : Locks(u, k)' => Locks(u, k)
    BY <1>4 DEF Locks
  <2>4. WorkerCounter(v, k)'
    BY <1>2, <2>1, <2>3 DEF WorkerCounter, Locks
  <2> QED
    BY <2>2, <2>4
<1> QED
  BY <1>1, <1>2, <1>3, <1>5, <1>6, <1>7 DEF JobAttempts

LEMMA PromoteAttempts ==
    ASSUME TypeOK, Tokens, AttemptsTraced, NEW w \in Workers, NEW j \in Jobs, PromoteDue(w, j)
    PROVE  AttemptsTraced'
<1>0. TypeOK'
  BY WorkerType
<1> SUFFICES ASSUME NEW k \in Jobs
             PROVE  JobAttempts(k)'
  BY DEF AttemptsTraced
<1>1. JobAttempts(k)
  BY DEF AttemptsTraced
<1>2. /\ attempts' = attempts /\ row' = row /\ sub' = sub
      /\ pc' = pc /\ cur' = cur /\ snap' = snap
      /\ ready' = Append(ready, j) /\ delayed[j] > 0
      /\ delayed' = [delayed EXCEPT ![j] = @ - 1]
  BY DEF PromoteDue, Promote, subVars, workerVars
<1>3. /\ Retries(k)' = Retries(k) /\ Locked(k)' = Locked(k)
      /\ \A u \in Workers : Locks(u, k)' <=> Locks(u, k)
  BY <1>2 DEF Retries, Locked, Locks
<1>4. /\ Faults \in Nat /\ MaxRetries \in Nat /\ attempts[k] \in Nat /\ Retries(k) \in Nat
      /\ delayed[k] \in Nat
      /\ \A v \in Workers : snap[v].retry_count \in Nat
  BY CountersTyped
<1>5. /\ Faults' \in {Faults, Faults + 1}
      /\ Locked(j) => Faults' = Faults + 1
  <2>1. crashes \in Nat /\ requeueFaults \in Nat /\ outlasted \in Nat
    BY BoundsAssumption DEF TypeOK
  <2> QED
    BY <2>1 DEF PromoteDue, Faults
<1>6. /\ InReady(k)' <=> InReady(k) \/ k = j
      /\ delayed'[k] <= delayed[k]
      /\ delayed'[k] > 0 => delayed[k] > 0
  <2>1. InReady(k)' <=> InReady(k) \/ k = j
    BY <1>2, AppendReady DEF TypeOK, QueueTypeOK
  <2>2. delayed'[k] = IF k = j THEN delayed[k] - 1 ELSE delayed[k]
    BY <1>2 DEF TypeOK, QueueTypeOK
  <2> QED
    BY <1>4, <2>1, <2>2
<1>7. QueueAttempts(k)'
  <2>1. Unsent(k)' <=> Unsent(k)
    BY <1>2 DEF Unsent
  <2>2. CASE k = j
    BY <1>1, <1>2, <1>3, <1>4, <1>5, <1>6, <2>1, <2>2, ParkedOpen DEF JobAttempts, QueueAttempts
  <2>3. CASE k # j
    BY <1>1, <1>2, <1>3, <1>4, <1>5, <1>6, <2>1, <2>3 DEF JobAttempts, QueueAttempts
  <2> QED
    BY <2>2, <2>3
<1>8. ASSUME NEW v \in Workers, cur'[v] = k
      PROVE  WorkerAttempts(v, k)' /\ WorkerCounter(v, k)'
  <2>1. cur[v] = k /\ WorkerAttempts(v, k) /\ WorkerCounter(v, k) /\ snap[v].retry_count \in Nat
    BY <1>1, <1>2, <1>4, <1>8 DEF JobAttempts
  <2>2. WorkerAttempts(v, k)'
    BY <1>2, <1>3, <1>4, <1>5, <1>6, <2>1, SMTT(30) DEF WorkerAttempts
  <2>3. WorkerCounter(v, k)'
    BY <1>2, <1>3, <2>1 DEF WorkerCounter
  <2> QED
    BY <2>2, <2>3
<1> QED
  BY <1>1, <1>2, <1>3, <1>4, <1>5, <1>7, <1>8 DEF JobAttempts

LEMMA PopAttempts ==
    ASSUME TypeOK, Tokens, AttemptsTraced, NEW w \in Workers, NEW j \in Jobs, Pop(w, j)
    PROVE  AttemptsTraced'
<1> SUFFICES ASSUME NEW k \in Jobs
             PROVE  JobAttempts(k)'
  BY DEF AttemptsTraced
<1>1. JobAttempts(k)
  BY DEF AttemptsTraced
<1>2. /\ attempts' = attempts /\ row' = row /\ sub' = sub /\ snap' = snap
      /\ Dequeue(j) /\ delayed' = delayed /\ pc[w] = "idle"
      /\ pc' = [pc EXCEPT ![w] = "loaded"] /\ cur' = [cur EXCEPT ![w] = j]
  BY DEF Pop, Dequeue, subVars
<1>3. Retries(k)' = Retries(k) /\ Faults' = Faults
  BY <1>2 DEF Pop, Retries, Faults, faultVars
<1>4. /\ Faults \in Nat /\ MaxRetries \in Nat /\ attempts[k] \in Nat /\ Retries(k) \in Nat
      /\ \A v \in Workers : snap[v].retry_count \in Nat
  BY CountersTyped
<1>5. InReady(j) /\ (InReady(k)' => InReady(k))
  BY <1>2, TailReady DEF Dequeue, Tokens, TypeOK, QueueTypeOK
<1>6. \A u \in Workers : Locks(u, k)' <=> Locks(u, k)
  BY <1>2 DEF Locks, TypeOK
<1>7. QueueAttempts(k)'
  <2>1. (Unsent(k)' <=> Unsent(k)) /\ (Locked(k)' <=> Locked(k))
    BY <1>2, <1>6 DEF Unsent, Locked, Locks
  <2> QED
    BY <1>1, <1>2, <1>3, <1>5, <2>1 DEF JobAttempts, QueueAttempts
<1>8. ASSUME NEW v \in Workers, cur'[v] = k
      PROVE  WorkerAttempts(v, k)' /\ WorkerCounter(v, k)'
  <2>1. CASE v = w
    <3>1. k = j /\ pc'[w] = "loaded"
      BY <1>2, <1>8, <2>1 DEF TypeOK
    <3>2. attempts[k] <= Retries(k) + Faults
      BY <1>1, <1>5, <3>1 DEF JobAttempts, QueueAttempts
    <3>3. WorkerAttempts(w, k)'
      BY <1>2, <1>3, <1>4, <3>1, <3>2 DEF WorkerAttempts
    <3>4. WorkerCounter(w, k)'
      BY <3>1 DEF WorkerCounter, FailPhases, Locks
    <3> QED
      BY <2>1, <3>3, <3>4
  <2>2. CASE v # w
    <3>1. /\ cur[v] = k /\ pc'[v] = pc[v] /\ WorkerAttempts(v, k) /\ WorkerCounter(v, k)
      BY <1>1, <1>2, <1>8, <2>2 DEF JobAttempts
    <3>2. WorkerAttempts(v, k)'
      BY <1>2, <1>3, <3>1 DEF WorkerAttempts
    <3>3. WorkerCounter(v, k)'
      BY <1>2, <1>3, <1>6, <3>1 DEF WorkerCounter
    <3> QED
      BY <3>2, <3>3
  <2> QED
    BY <2>1, <2>2
<1> QED
  BY <1>1, <1>2, <1>3, <1>7, <1>8 DEF JobAttempts

LEMMA LoseAttempts ==
    ASSUME TypeOK, AttemptsTraced, NEW w \in Workers, NEW j \in Jobs, CrashInDequeue(w, j)
    PROVE  AttemptsTraced'
<1>0. TypeOK'
  BY WorkerType
<1>1. /\ attempts' = attempts /\ row' = row /\ sub' = sub /\ ready' = ready
      /\ pc' = pc /\ cur' = cur /\ snap' = snap
      /\ delayed' = [delayed EXCEPT ![j] = @ - 1] /\ delayed[j] > 0
  BY DEF CrashInDequeue, Lose, subVars, workerVars
<1>2. Faults' >= Faults
  <2>1. crashes \in Nat /\ requeueFaults \in Nat /\ outlasted \in Nat
    BY BoundsAssumption DEF TypeOK
  <2> QED
    BY <2>1 DEF CrashInDequeue, Faults
<1>3. \A k \in Jobs : /\ delayed'[k] <= delayed[k]
                      /\ InReady(k)' => InReady(k)
                      /\ Unsent(k)' => Unsent(k)
                      /\ \A v \in Workers : Locks(v, k)' <=> Locks(v, k)
  <2> SUFFICES ASSUME NEW k \in Jobs
               PROVE  /\ delayed'[k] <= delayed[k]
                      /\ InReady(k)' => InReady(k)
                      /\ Unsent(k)' => Unsent(k)
                      /\ \A v \in Workers : Locks(v, k)' <=> Locks(v, k)
    OBVIOUS
  <2>1. delayed'[k] <= delayed[k]
    <3>1. delayed \in [Jobs -> Nat]
      BY DEF TypeOK, QueueTypeOK
    <3>2. delayed'[k] = IF k = j THEN delayed[k] - 1 ELSE delayed[k]
      BY <1>1, <3>1
    <3> QED
      BY <3>1, <3>2
  <2>2. (InReady(k)' => InReady(k)) /\ (Unsent(k)' => Unsent(k))
    BY <1>1 DEF InReady, Unsent
  <2>3. \A v \in Workers : Locks(v, k)' <=> Locks(v, k)
    BY <1>1 DEF Locks
  <2> QED
    BY <2>1, <2>2, <2>3
<1>4. ASSUME NEW k \in Jobs PROVE JobAttempts(k)'
  <2>1. JobAttempts(k)
    BY DEF AttemptsTraced
  <2> QED
    BY <1>0, <1>1, <1>2, <1>3, <2>1, QuietAttempts
<1> QED
  BY <1>4 DEF AttemptsTraced

LEMMA AttemptsInvariant == Spec => []AttemptsTraced
<1>1. TypeOK /\ Tokens /\ SnapshotsFit /\ AttemptsTraced /\ [Next]_vars => AttemptsTraced'
  <2> SUFFICES ASSUME TypeOK, Tokens, SnapshotsFit, AttemptsTraced, [Next]_vars
               PROVE  AttemptsTraced'
    OBVIOUS
  <2>1. CASE UNCHANGED vars
    BY <2>1 DEF vars, queueVars, subVars, workerVars, faultVars, AttemptsTraced, JobAttempts,
                QueueAttempts, WorkerAttempts, WorkerCounter, Retries, Faults, Locked, Locks,
                InReady, Unsent
  <2> QED
    BY <2>1, SubmitAttempts, CancelAttempts, ProcessAttempts, CrashAttempts, PromoteAttempts,
       PopAttempts, LoseAttempts DEF Next, Poll
<1> QED
  BY InitAttempts, TypeCorrect, TokensInvariant, SnapshotsInvariant, <1>1, PTL DEF Spec
-----------------------------------------------------------------------------
(* Carriers                                                                *)

LEMMA InitCarriers == Init => CarriersTraced
BY DEF Init, CarriersTraced, HoldersInformed, SubmittersInformed

LEMMA CalmBefore == TypeOK /\ [Next]_vars /\ Calm' => Calm
<1> SUFFICES ASSUME TypeOK, [Next]_vars, Calm'
             PROVE  Calm
  OBVIOUS
<1>0. /\ crashes \in Nat /\ outlasted \in Nat /\ requeueFaults \in Nat
      /\ crashes' = 0 /\ outlasted' = 0 /\ requeueFaults' = 0
  BY BoundsAssumption DEF TypeOK, Calm
<1> SUFFICES crashes' >= crashes /\ outlasted' >= outlasted /\ requeueFaults' >= requeueFaults
  BY <1>0 DEF Calm
<1>1. ASSUME NEW j \in Jobs, SubmitStep(j) \/ CancelStep(j)
      PROVE  crashes' >= crashes /\ outlasted' >= outlasted /\ requeueFaults' >= requeueFaults
  BY <1>0, <1>1, SubmitFrame, CancelFrame DEF faultVars
<1>2. ASSUME NEW w \in Workers, Process(w)
      PROVE  crashes' >= crashes /\ outlasted' >= outlasted /\ requeueFaults' >= requeueFaults
  <2>1. requeueFaults' \in {requeueFaults, requeueFaults + 1}
    BY <1>2 DEF Process, Load, Claim, TickRead, TickWrite, HandlerReturn, HandlerRaise,
           FinishRead, Complete, Deliver, FailRead, FailFlush, Requeue, RequeueRaises,
           RetryCommit, faultVars
  <2> QED
    BY <1>0, <1>2, <2>1, ProcessFrame
<1>3. ASSUME NEW w \in Workers,
             \/ Crash(w)
             \/ \E j \in Jobs : PromoteDue(w, j) \/ Pop(w, j) \/ CrashInDequeue(w, j)
      PROVE  crashes' >= crashes /\ outlasted' >= outlasted /\ requeueFaults' >= requeueFaults
  BY <1>0, <1>3 DEF Crash, PromoteDue, Pop, CrashInDequeue, faultVars
<1>4. CASE UNCHANGED vars
  BY <1>0, <1>4 DEF vars, faultVars
<1> QED
  BY <1>1, <1>2, <1>3, <1>4 DEF Next, Poll

\* Without faults a job is in the hands of one worker, its commit included.
LEMMA OneHolder ==
    ASSUME TypeOK, Tokens, AttemptsTraced, HoldersInformed,
           NEW v \in Workers, NEW w \in Workers, pc[v] # "idle", pc[w] # "idle", cur[v] = cur[w]
    PROVE  v = w
<1> SUFFICES ASSUME v # w PROVE FALSE
  OBVIOUS
<1>0. cur[w] \in Jobs /\ cur[v] \in Jobs
  BY DEF TypeOK
<1>1. pc[w] \in OwnerPhases \/ pc[w] = "retrycommit"
  BY DEF OwnerPhases, TypeOK
<1>2. CASE pc[w] \in OwnerPhases
  <2>1. delayed[cur[w]] = 0 /\ pc[v] = "retrycommit"
    BY <1>0, <1>2, OwnerAlone
  <2>2. delayed[cur[v]] > 0
    BY <2>1 DEF HoldersInformed
  <2> QED
    BY <2>1, <2>2
<1>3. CASE pc[w] = "retrycommit" /\ pc[v] \in OwnerPhases
  <2>1. delayed[cur[v]] = 0
    BY <1>0, <1>3, OwnerAlone
  <2>2. delayed[cur[w]] > 0
    BY <1>3 DEF HoldersInformed
  <2> QED
    BY <2>1, <2>2
<1>4. CASE pc[w] = "retrycommit" /\ pc[v] = "retrycommit"
  <2>1. WorkerCounter(w, cur[w])
    BY <1>0 DEF AttemptsTraced, JobAttempts
  <2> QED
    BY <1>4, <2>1 DEF WorkerCounter, Locks
<1>5. pc[v] \in OwnerPhases \/ pc[v] = "retrycommit"
  BY DEF OwnerPhases, TypeOK
<1> QED
  BY <1>1, <1>2, <1>3, <1>4, <1>5

\* Submitters and cancel requests only ever make a row terminal.
LEMMA OutsideWrites ==
    ASSUME TypeOK, NEW j \in Jobs, SubmitStep(j) \/ CancelStep(j), NEW k \in Jobs
    PROVE  sub[k] = "new" \/ row'[k].state = row[k].state \/ IsTerminal(row'[k].state)
<1>1. CASE k # j
  BY <1>1, SubmitFrame, CancelFrame
<1>2. CASE k = j
  <2>1. row[j] \in Row /\ subSnap[j] \in Row /\ canSnap[j] \in Row
    BY DEF TypeOK
  <2>2. CASE SubmitStep(j)
    BY <1>2, <2>1, <2>2, SubmitWrites, RejectedFacts DEF IsTerminal
  <2>3. CASE CancelStep(j)
    <3>1. row'[j] = Cancelled(row[j], canSnap[j]) \/ row'[j] = row[j]
      BY <2>3, CancelWrites
    <3> QED
      BY <1>2, <2>1, <3>1, CancelledFacts DEF IsTerminal
  <2> QED
    BY <2>2, <2>3
<1> QED
  BY <1>1, <1>2

LEMMA OutsideHolders ==
    ASSUME TypeOK, SnapshotsFit, HoldersInformed, NEW j \in Jobs, SubmitStep(j) \/ CancelStep(j)
    PROVE  HoldersInformed'
<1>1. pc' = pc /\ cur' = cur /\ snap' = snap /\ delayed' = delayed
  BY SubmitFrame, CancelFrame
<1>2. \A w \in Workers : pc[w] # "idle" =>
         \/ row'[cur[w]].state = row[cur[w]].state
         \/ IsTerminal(row'[cur[w]].state)
  BY OutsideWrites DEF TypeOK, SnapshotsFit, Unsent
<1> QED
  BY <1>1, <1>2 DEF HoldersInformed, IsTerminal

LEMMA OutsideSubmitters ==
    ASSUME TypeOK, SnapshotsFit, SubmittersInformed, Calm', Calm,
           NEW j \in Jobs, SubmitStep(j) \/ CancelStep(j)
    PROVE  SubmittersInformed'
<1>1. /\ pc' = pc /\ cur' = cur /\ delayed' = delayed /\ ready' \in {ready, Append(ready, j)}
      /\ submitFaults' = 0 => submitFaults = 0
  <2>1. submitFaults' = submitFaults \/ submitFaults' = submitFaults + 1
    BY DEF SubmitStep, Create, SubmitEnqueue, EnqueueRaises, RejectRead,
           RejectWrite, SubmitCrash, CancelStep, CancelRead, CancelWrite, faultVars
  <2>2. submitFaults \in Nat
    BY BoundsAssumption DEF TypeOK
  <2> QED
    BY <2>1, <2>2, SubmitFrame, CancelFrame
<1>2. ASSUME NEW k \in Jobs, sub[k] # "new", Kept(k)
      PROVE  Kept(k)'
  <2>1. InReady(k) => InReady(k)'
    BY <1>1, AppendReady DEF InReady, TypeOK, QueueTypeOK
  <2>2. IsTerminal(row[k].state) => IsTerminal(row'[k].state)
    BY <1>2, OutsideWrites
  <2> QED
    BY <1>1, <1>2, <2>1, <2>2 DEF Kept, Queued
<1>3. CASE CancelStep(j)
  BY <1>1, <1>2, <1>3, CancelFrame DEF SubmittersInformed
<1>4. CASE SubmitStep(j)
  <2> SUFFICES ASSUME NEW k \in Jobs, k \in BotJobs \/ submitFaults' = 0
               PROVE  /\ sub'[k] \notin {"new", "created", "rejecting", "reject"} => Kept(k)'
                      /\ sub'[k] = "reject" /\ IsTerminal(subSnap'[k].state) => Kept(k)'
    BY DEF SubmittersInformed
  <2>0. /\ sub[k] \notin {"new", "created", "rejecting", "reject"} => Kept(k)
        /\ sub[k] = "reject" /\ IsTerminal(subSnap[k].state) => Kept(k)
    BY <1>1 DEF SubmittersInformed
  <2>1. CASE k # j
    BY <1>2, <1>4, <2>0, <2>1, SubmitFrame
  <2>2. CASE k = j
    <3>1. CASE Create(j)
      BY <2>2, <3>1 DEF Create, TypeOK
    <3>2. CASE SubmitEnqueue(j)
      <4>1. InReady(j)'
        BY <3>2, AppendReady DEF SubmitEnqueue, Enqueue, TypeOK, QueueTypeOK
      <4> QED
        BY <2>2, <4>1 DEF Kept, Queued
    <3>3. CASE EnqueueRaises(j)
      <4>1. submitFaults' # 0
        BY <3>3, BoundsAssumption DEF EnqueueRaises, TypeOK
      <4> QED
        BY <2>2, <3>3, <4>1 DEF EnqueueRaises, TypeOK
    <3>4. CASE RejectRead(j)
      <4>1. /\ sub[j] = "rejecting" /\ row' = row
            /\ \/ sub'[j] = "reject" /\ subSnap'[j] = row[j]
               \/ sub'[j] = "done" /\ ~CanTransition(row[j].state, "FAILED")
        BY <3>4 DEF RejectRead, TypeOK
      <4>2. ~CanTransition(row[j].state, "FAILED") => IsTerminal(row[j].state)
        <5>1. row[j].state \in JobState
          BY DEF TypeOK, Row
        <5> QED
          BY <5>1 DEF CanTransition, Allowed, IsTerminal, JobState
      <4> QED
        BY <2>2, <4>1, <4>2 DEF Kept
    <3>5. CASE RejectWrite(j)
      <4>1. /\ sub[j] = "reject" /\ sub'[j] = "done"
            /\ row'[j] = Rejected(row[j], subSnap[j])
            /\ row[j] \in Row /\ subSnap[j] \in Row
        BY <3>5 DEF RejectWrite, Rejected, TypeOK
      <4>2. CASE subSnap[j].state = "FAILED"
        BY <1>2, <2>0, <2>2, <4>1, <4>2 DEF IsTerminal
      <4>3. CASE subSnap[j].state # "FAILED"
        <5>1. row'[j].state = "FAILED"
          BY <4>1, <4>3, RejectedFacts
        <5> QED
          BY <2>2, <5>1 DEF Kept, IsTerminal
      <4> QED
        BY <4>2, <4>3
    <3>6. ~SubmitCrash(j)
      <4>1. crashes = 0 /\ crashes' = 0
        BY DEF Calm
      <4> QED
        BY <4>1 DEF SubmitCrash
    <3> QED
      BY <1>4, <3>1, <3>2, <3>3, <3>4, <3>5, <3>6 DEF SubmitStep
  <2> QED
    BY <2>1, <2>2
<1> QED
  BY <1>3, <1>4

\* A worker's own step: what it knows of its job afterwards.
LEMMA HolderStep ==
    ASSUME TypeOK, SnapshotsFit, HoldersInformed, NEW w \in Workers, Process(w),
           NEW j \in Jobs, j = cur[w], pc'[w] # "idle"
    PROVE  /\ pc'[w] = "retrycommit" => delayed'[j] > 0
           /\ pc'[w] \notin {"loaded", "claim"} => row'[j].state # "PENDING"
           /\ snap'[w].state # "PENDING" => row'[j].state # "PENDING"
           /\ pc'[w] \in {"complete", "failing"} /\ IsTerminal(snap'[w].state)
                => IsTerminal(row'[j].state)
           /\ pc'[w] \in {"notify", "notifyfail"} => IsTerminal(row'[j].state)
<1>1. pc[w] # "idle" /\ row[j] \in Row /\ snap[w] \in Row /\ delayed[j] \in Nat
  BY ProcessFrame DEF TypeOK, QueueTypeOK
<1>2. /\ pc[w] = "retrycommit" => delayed[j] > 0
      /\ pc[w] \notin {"loaded", "claim"} => row[j].state # "PENDING"
      /\ snap[w].state # "PENDING" => row[j].state # "PENDING"
      /\ pc[w] \in {"complete", "failing"} /\ IsTerminal(snap[w].state)
           => IsTerminal(row[j].state)
      /\ pc[w] \in {"notify", "notifyfail"} => IsTerminal(row[j].state)
  BY <1>1 DEF HoldersInformed
<1>3. pc'[w] = "retrycommit" => delayed'[j] > 0
  <2>1. pc'[w] = "retrycommit" => Requeue(w)
    BY DEF Process, Load, Claim, TickRead, TickWrite, HandlerReturn, HandlerRaise,
         FinishRead, Complete, Deliver, FailRead, FailFlush, RequeueRaises,
         RetryCommit, Goto, ReadInto, Return, TypeOK
  <2>2. Requeue(w) => delayed'[j] = delayed[j] + 1
    BY DEF Requeue, Park, TypeOK, QueueTypeOK
  <2> QED
    BY <1>1, <2>1, <2>2
<1>4. pc'[w] \in {"notify", "notifyfail"} =>
         \/ pc[w] = "complete" /\ pc'[w] = "notify" /\ row'[j] = Completed(row[j], snap[w])
         \/ pc[w] = "failing" /\ pc'[w] = "notifyfail" /\ row'[j] = GivenUp(row[j], snap[w])
  BY <1>1 DEF Process, Load, Claim, TickRead, TickWrite, HandlerReturn, HandlerRaise,
         FinishRead, Complete, Deliver, FailRead, FailFlush, Requeue, RequeueRaises,
         RetryCommit, Completed, GivenUp, Goto, ReadInto, Return, TypeOK
<1>5. pc'[w] \in {"notify", "notifyfail"} => IsTerminal(row'[j].state)
  BY <1>1, <1>2, <1>4, CompletedFacts, GivenUpFacts DEF IsTerminal
<1>6. row[j].state # "PENDING" => row'[j].state # "PENDING"
  BY <1>1, ProcessWrites, ClaimedFacts, CompletedFacts, GivenUpFacts
<1>7. /\ pc[w] \in {"loaded", "claim"} => pc'[w] = "claim" \/ row'[j] = Claimed(row[j], snap[w])
      /\ pc[w] = "loaded" => pc'[w] = "claim"
  BY <1>1 DEF Process, Load, Claim, TickRead, TickWrite, HandlerReturn, HandlerRaise,
         FinishRead, Complete, Deliver, FailRead, FailFlush, Requeue, RequeueRaises,
         RetryCommit, Claimed, Goto, ReadInto, Return, TypeOK
<1>8. pc'[w] \notin {"loaded", "claim"} => row'[j].state # "PENDING"
  BY <1>1, <1>2, <1>6, <1>7, ClaimedFacts
<1>9. CASE snap'[w] = snap[w] /\ pc'[w] \notin {"complete", "failing"}
  BY <1>2, <1>3, <1>5, <1>6, <1>8, <1>9
<1>10. CASE snap'[w] = row[j] /\ row' = row
  BY <1>3, <1>5, <1>8, <1>10
<1> QED
  BY <1>9, <1>10, ProcessReads

LEMMA ProcessHolders ==
    ASSUME TypeOK, Tokens, SnapshotsFit, AttemptsTraced, HoldersInformed,
           NEW w \in Workers, Process(w)
    PROVE  HoldersInformed'
<1> SUFFICES ASSUME NEW v \in Workers, pc'[v] # "idle"
             PROVE  /\ pc'[v] = "retrycommit" => delayed'[cur'[v]] > 0
                    /\ pc'[v] \notin {"loaded", "claim"} => row'[cur'[v]].state # "PENDING"
                    /\ snap'[v].state # "PENDING" => row'[cur'[v]].state # "PENDING"
                    /\ pc'[v] \in {"complete", "failing"} /\ IsTerminal(snap'[v].state)
                         => IsTerminal(row'[cur'[v]].state)
                    /\ pc'[v] \in {"notify", "notifyfail"} => IsTerminal(row'[cur'[v]].state)
  BY DEF HoldersInformed
<1>1. CASE v = w
  <2>1. cur'[w] = cur[w] /\ cur[w] \in Jobs
    BY <1>1, ProcessFrame
  <2> QED
    BY <1>1, <2>1, HolderStep
<1>2. CASE v # w
  <2>1. /\ pc'[v] = pc[v] /\ cur'[v] = cur[v] /\ snap'[v] = snap[v]
        /\ pc[w] # "idle" /\ cur[v] \in Jobs
    BY <1>2, ProcessFrame DEF TypeOK
  <2>2. cur[v] # cur[w]
    BY <1>2, <2>1, OneHolder
  <2>3. row'[cur[v]] = row[cur[v]] /\ delayed'[cur[v]] = delayed[cur[v]]
    BY <2>1, <2>2, ProcessFrame
  <2> QED
    BY <2>1, <2>3 DEF HoldersInformed
<1> QED
  BY <1>1, <1>2

\* A worker lets a job go only finished, or back in the queue.
LEMMA ProcessKeeps ==
    ASSUME TypeOK, SnapshotsFit, HoldersInformed, Calm, Calm', NEW w \in Workers, Process(w),
           NEW k \in Jobs, Kept(k)
    PROVE  Kept(k)'
<1>1. CASE k # cur[w]
  <2>1. \A v \in Workers : pc[v] # "idle" /\ cur[v] = k => pc'[v] # "idle" /\ cur'[v] = k
    BY <1>1, ProcessFrame
  <2> QED
    BY <1>1, <2>1, ProcessFrame DEF Kept, Queued, InReady
<1>2. CASE k = cur[w] /\ pc'[w] # "idle"
  BY <1>2, ProcessFrame DEF Kept
<1>3. CASE k = cur[w] /\ pc'[w] = "idle"
  <2>0. pc[w] # "idle" /\ row[k] \in Row /\ snap[w] \in Row
    BY ProcessFrame DEF TypeOK
  <2>1. ~RequeueRaises(w)
    <3>1. requeueFaults = 0 /\ requeueFaults' = 0
      BY DEF Calm
    <3> QED
      BY <3>1 DEF RequeueRaises
  <2>2. CASE Claim(w)
    <3>1. /\ row'[k] = Orphaned(row[k], snap[w])
          /\ snap[w].state # "FAILED"
      BY <1>3, <2>0, <2>2 DEF Claim, Orphaned, Goto, SnapshotsFit, IsTerminal, TypeOK
    <3>2. row'[k].state = "FAILED"
      BY <2>0, <3>1, OrphanedFacts
    <3> QED
      BY <3>2 DEF Kept, IsTerminal
  <2>3. CASE RetryCommit(w)
    <3>1. delayed[k] > 0 /\ delayed' = delayed
      BY <1>3, <2>3 DEF RetryCommit, HoldersInformed, queueVars
    <3> QED
      BY <3>1 DEF Kept, Queued
  <2>4. CASE ~Claim(w) /\ ~RetryCommit(w)
    <3>1. /\ row' = row
          /\ \/ IsTerminal(row[k].state)
             \/ pc[w] = "finish" /\ ~CanTransition(row[k].state, "COMPLETED")
             \/ pc[w] = "failed" /\ ~CanTransition(row[k].state, "FAILED")
             \/ pc[w] \in {"notify", "notifyfail"}
      BY <1>3, <2>0, <2>1, <2>4
         DEF Process, Load, TickRead, TickWrite, HandlerReturn, HandlerRaise,
             FinishRead, Complete, Deliver, FailRead, FailFlush, Requeue,
             Goto, ReadInto, TypeOK
    <3>2. row[k].state \in JobState /\ (pc[w] \in {"finish", "failed"} => row[k].state # "PENDING")
      BY <1>3, <2>0 DEF Row, HoldersInformed
    <3>3. IsTerminal(row[k].state)
      BY <1>3, <2>0, <3>1, <3>2 DEF CanTransition, Allowed, IsTerminal, JobState, HoldersInformed
    <3> QED
      BY <3>1, <3>3 DEF Kept
  <2> QED
    BY <2>2, <2>3, <2>4
<1> QED
  BY <1>1, <1>2, <1>3

LEMMA ProcessCarriers ==
    ASSUME TypeOK, Tokens, SnapshotsFit, AttemptsTraced, Calm, Calm', NEW w \in Workers, Process(w),
           HoldersInformed, SubmittersInformed
    PROVE  HoldersInformed' /\ SubmittersInformed'
<1>1. HoldersInformed'
  BY ProcessHolders
<1>2. sub' = sub /\ subSnap' = subSnap /\ submitFaults' = submitFaults
  BY ProcessFrame
<1>3. \A k \in Jobs : Kept(k) => Kept(k)'
  BY ProcessKeeps
<1>4. SubmittersInformed'
  BY <1>2, <1>3 DEF SubmittersInformed
<1> QED
  BY <1>1, <1>4

\* Without faults an id that leaves the list goes to a worker, and one that
\* leaves the parked set goes to the list, after the parking transaction.
LEMMA FetchCarriers ==
    ASSUME TypeOK, Tokens, ResultTraced, Calm, Calm', NEW w \in Workers, NEW j \in Jobs,
           PromoteDue(w, j) \/ Pop(w, j) \/ CrashInDequeue(w, j),
           HoldersInformed, SubmittersInformed
    PROVE  HoldersInformed' /\ SubmittersInformed'
<1>0. /\ crashes = 0 /\ crashes' = 0 /\ outlasted = 0 /\ outlasted' = 0
      /\ ready \in Seq(Jobs) /\ delayed \in [Jobs -> Nat]
  BY DEF Calm, TypeOK, QueueTypeOK
<1>1. row' = row /\ sub' = sub /\ subSnap' = subSnap /\ submitFaults' = submitFaults
  BY FetchFrame
<1>2. CASE PromoteDue(w, j)
  <2>1. /\ pc' = pc /\ cur' = cur /\ snap' = snap /\ ~Locked(j)
        /\ ready' = Append(ready, j)
        /\ delayed' = [delayed EXCEPT ![j] = @ - 1]
    BY <1>0, <1>2 DEF PromoteDue, Promote, workerVars
  <2>2. \A v \in Workers : pc[v] = "retrycommit" => delayed'[cur[v]] = delayed[cur[v]]
    BY <1>0, <2>1 DEF Locked, TypeOK
  <2>3. HoldersInformed'
    BY <1>1, <2>1, <2>2 DEF HoldersInformed
  <2>4. \A k \in Jobs : Kept(k) => Kept(k)'
    <3>1. \A k \in Jobs : InReady(k)' <=> InReady(k) \/ k = j
      BY <1>0, <2>1, AppendReady
    <3> QED
      BY <1>0, <1>1, <2>1, <3>1 DEF Kept, Queued
  <2> QED
    BY <1>1, <2>3, <2>4 DEF SubmittersInformed
<1>3. CASE Pop(w, j)
  <2>1. /\ pc[w] = "idle" /\ pc'[w] = "loaded" /\ cur'[w] = j /\ snap'[w] = snap[w]
        /\ \A v \in Workers : v # w => pc'[v] = pc[v] /\ cur'[v] = cur[v] /\ snap'[v] = snap[v]
        /\ delayed' = delayed /\ ready # <<>> /\ j = Head(ready) /\ ready' = Tail(ready)
    BY <1>3 DEF Pop, Dequeue, TypeOK
  <2>2. snap[w].state = "PENDING"
    BY <2>1 DEF ResultTraced, NewRow
  <2>3. HoldersInformed'
    <3> SUFFICES ASSUME NEW v \in Workers, pc'[v] # "idle"
                 PROVE  /\ pc'[v] = "retrycommit" => delayed'[cur'[v]] > 0
                        /\ pc'[v] \notin {"loaded", "claim"} => row'[cur'[v]].state # "PENDING"
                        /\ snap'[v].state # "PENDING" => row'[cur'[v]].state # "PENDING"
                        /\ pc'[v] \in {"complete", "failing"} /\ IsTerminal(snap'[v].state)
                             => IsTerminal(row'[cur'[v]].state)
                        /\ pc'[v] \in {"notify", "notifyfail"} => IsTerminal(row'[cur'[v]].state)
      BY DEF HoldersInformed
    <3>1. CASE v = w
      BY <2>1, <2>2, <3>1
    <3>2. CASE v # w
      BY <1>1, <2>1, <3>2 DEF HoldersInformed
    <3> QED
      BY <3>1, <3>2
  <2>4. ASSUME NEW k \in Jobs, Kept(k)
        PROVE  Kept(k)'
    <3>1. CASE k = j
      BY <2>1, <3>1 DEF Kept
    <3>2. CASE k # j
      <4>1. InReady(k) => InReady(k)'
        <5>1. /\ Len(ready) \in Nat \ {0} /\ Len(ready') = Len(ready) - 1
              /\ \A i \in 1..Len(ready') : ready'[i] = ready[i + 1]
              /\ j = ready[1]
          BY <1>0, <2>1
        <5>2. ASSUME NEW i \in 1..Len(ready), ready[i] = k
              PROVE  InReady(k)'
          <6>1. i # 1
            BY <3>2, <5>1, <5>2
          <6>2. i - 1 \in 1..Len(ready') /\ ready'[i - 1] = ready[(i - 1) + 1]
            BY <5>1, <6>1
          <6> QED
            BY <5>2, <6>2 DEF InReady
        <5> QED
          BY <5>2 DEF InReady
      <4>2. \A v \in Workers : pc[v] # "idle" /\ cur[v] = k => pc'[v] # "idle" /\ cur'[v] = k
        BY <2>1
      <4> QED
        BY <1>1, <2>1, <2>4, <4>1, <4>2 DEF Kept, Queued
    <3> QED
      BY <3>1, <3>2
  <2> QED
    BY <1>1, <2>3, <2>4 DEF SubmittersInformed
<1>4. ~CrashInDequeue(w, j)
  BY <1>0 DEF CrashInDequeue
<1> QED
  BY <1>2, <1>3, <1>4

LEMMA CarriersInvariant == Spec => []CarriersTraced
<1>1. /\ TypeOK /\ Tokens /\ SnapshotsFit /\ ResultTraced /\ AttemptsTraced /\ CarriersTraced
      /\ [Next]_vars
      => CarriersTraced'
  <2> SUFFICES ASSUME TypeOK, Tokens, SnapshotsFit, ResultTraced, AttemptsTraced, CarriersTraced,
                      [Next]_vars, Calm'
               PROVE  HoldersInformed' /\ SubmittersInformed'
    BY DEF CarriersTraced
  <2>0. Calm /\ HoldersInformed /\ SubmittersInformed
    BY CalmBefore DEF CarriersTraced
  <2>1. CASE UNCHANGED vars
    BY <2>0, <2>1 DEF vars, queueVars, subVars, workerVars, faultVars, HoldersInformed,
                      SubmittersInformed, Kept, Queued, InReady
  <2>2. ASSUME NEW j \in Jobs, SubmitStep(j) \/ CancelStep(j)
        PROVE  HoldersInformed' /\ SubmittersInformed'
    BY <2>0, <2>2, OutsideHolders, OutsideSubmitters
  <2>3. ASSUME NEW w \in Workers, Process(w)
        PROVE  HoldersInformed' /\ SubmittersInformed'
    BY <2>0, <2>3, ProcessCarriers
  <2>4. ASSUME NEW w \in Workers, NEW j \in Jobs,
               PromoteDue(w, j) \/ Pop(w, j) \/ CrashInDequeue(w, j)
        PROVE  HoldersInformed' /\ SubmittersInformed'
    BY <2>0, <2>4, FetchCarriers
  <2>5. ASSUME NEW w \in Workers
        PROVE  ~Crash(w)
    BY <2>0 DEF Calm, Crash
  <2> QED
    BY <2>1, <2>2, <2>3, <2>4, <2>5 DEF Next, Poll
<1> QED
  BY InitCarriers, TypeCorrect, TokensInvariant, SnapshotsInvariant, ResultsInvariant,
     AttemptsInvariant, <1>1, PTL DEF Spec

\* The table, the queue and the history of a job account for each other: a
\* result is the trace of a handler that committed, a handler is started at
\* most max_retries + 1 times plus once per fault that loses a count, and
\* without faults an unfinished row is always somebody's business (_process,
\* _on_failure, submit_job).
THEOREM JobsAreAccounted == Spec => []JobsAccounted
<1>1. ResultTraced => ResultBacked
  BY DEF ResultTraced
<1>2. TypeOK /\ AttemptsTraced => AttemptsBounded
  <2> SUFFICES ASSUME TypeOK, AttemptsTraced, NEW j \in Jobs
               PROVE  attempts[j] <= MaxRetries + 1 + crashes + requeueFaults + outlasted
    BY DEF AttemptsBounded
  <2>1. attempts[j] <= MaxRetries + 1 + (crashes + requeueFaults + outlasted)
    BY DEF AttemptsTraced, JobAttempts, Faults
  <2>2. /\ attempts[j] \in Nat /\ MaxRetries \in Nat
        /\ crashes \in Nat /\ requeueFaults \in Nat /\ outlasted \in Nat
    BY BoundsAssumption DEF TypeOK
  <2> QED
    BY <2>1, <2>2
<1>3. TypeOK /\ CarriersTraced => NoOrphan
  <2> SUFFICES ASSUME TypeOK, CarriersTraced, NEW j \in Jobs, Calm,
                      j \in BotJobs \/ submitFaults = 0, sub[j] # "new",
                      ~IsTerminal(row[j].state)
               PROVE  Carried(j)
    BY DEF NoOrphan, Calm
  <2>1. sub[j] \notin {"created", "rejecting", "reject"} => Kept(j)
    BY DEF CarriersTraced, SubmittersInformed
  <2> QED
    BY <2>1 DEF Kept, Carried
<1> QED
  BY TypeCorrect, ResultsInvariant, AttemptsInvariant, CarriersInvariant,
     <1>1, <1>2, <1>3, PTL DEF JobsAccounted
=============================================================================
