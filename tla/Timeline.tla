------------------------------ MODULE Timeline ------------------------------
(***************************************************************************)
(* TimelineService (intelligence/timeline/builder.py): the events of an    *)
(* entity, or of a target and the entities resolved to it, one SELECT per  *)
(* entity and kind of row, while other sessions commit rows.               *)
(*                                                                         *)
(* first_observed_at, which would give Telegram entities an "account"      *)
(* event, is set nowhere: only external accounts have that event.          *)
(***************************************************************************)
EXTENDS Naturals, FiniteSets, Sequences

CONSTANTS MaxEvents,    \* _MAX_EVENTS
          MaxWhen,      \* bound: times
          MaxCommits,   \* bound: commits of other sessions
          NoTime        \* posted_at is NULL

ASSUME TimelineAssumption == /\ MaxEvents \in Nat \ {0} /\ MaxWhen \in Nat \ {0} /\ MaxCommits \in Nat
                             /\ NoTime \notin Nat

(* A target, a channel and an account elsewhere.                           *)
TimelineEntities == {"target", "channel", "external"}

Times == 1..MaxWhen

VARIABLES
    ledger,    \* committed rows
    asked,     \* history: those there were when the timeline was asked for
    build      \* the timeline in progress

timelineVars == <<ledger, asked, build>>

(* of: the entities the row belongs to, the two ends of a relationship;    *)
(* copy: tells rows apart that are otherwise alike.                        *)
DatedRow(kind, of, when, copy) == [kind |-> kind, of |-> of, when |-> when, copy |-> copy]

(* todo: selects left, each an entity and a kind of row; events: a row and *)
(* the entity it was found through.                                        *)
NewBuild(at, entities) ==
    [at |-> at, entities |-> entities, todo |-> <<>>, events |-> {}, truncated |-> FALSE]

(* The account was stored at the last of the times; what is observed of it *)
(* later may be dated before.                                              *)
TimelineInit == /\ ledger = {DatedRow("account", {"external"}, MaxWhen, 0)}
                /\ asked = {}
                /\ build = NewBuild("idle", {})

RowsOf(kind, entity) == {r \in ledger : r.kind = kind /\ entity \in r.of}

(***************************************************************************)
(* What other sessions commit                                              *)
(***************************************************************************)
Alike(kind, of, when) == Cardinality({r \in ledger : r.kind = kind /\ r.of = of /\ r.when = when})

NewDatedRow(kind, of, when) == DatedRow(kind, of, when, Alike(kind, of, when))

CommitRows(rows) == /\ build.at # "done"
                    /\ Cardinality({r \in ledger : r.kind # "account" /\ r.of # {"channel"}})
                         + Cardinality(RowsOf("message", "channel"))
                         + Cardinality(RowsOf("evidence", "channel")) < MaxCommits
                    /\ ledger' = ledger \cup rows
                    /\ UNCHANGED <<asked, build>>

CommitEvidence == \E e \in TimelineEntities, when \in Times :
                     CommitRows({NewDatedRow("evidence", {e}, when)})

(* The resolver links an entity, once.                                     *)
CommitLink == \E e \in {"channel", "external"}, when \in Times :
                 /\ \A r \in RowsOf("relationship", "target") : e \notin r.of
                 /\ CommitRows({NewDatedRow("relationship", {"target", e}, when)})

(* A message comes with its MESSAGE_IN_CHANNEL relationship.  One whose    *)
(* own chat was skipped is filed without it under the only other chat of   *)
(* the batch, which has evidence or a message of its own.                  *)
CommitMessage == \E posted \in Times \cup {NoTime}, when \in Times :
                    CommitRows({NewDatedRow("message", {"channel"}, posted),
                                NewDatedRow("relationship", {"channel"}, when)})

CommitStray == \E posted \in Times \cup {NoTime} :
                  /\ RowsOf("evidence", "channel") \cup RowsOf("relationship", "channel") # {}
                  /\ CommitRows({NewDatedRow("message", {"channel"}, posted)})

(***************************************************************************)
(* The timeline                                                            *)
(***************************************************************************)
ResolvedTo == {e \in TimelineEntities \ {"target"} :
               \E r \in RowsOf("relationship", "target") : e \in r.of}

(* _build takes an entity after the other; messages are only asked of      *)
(* channels and groups.                                                    *)
Selects(entities) ==
    LET of(e) == IF e \notin entities THEN <<>>
                 ELSE <<<<"evidence", e>>, <<"relationship", e>>>>
                      \o (IF e = "channel" THEN <<<<"message", e>>>> ELSE <<>>)
                      \o (IF e = "external" THEN <<<<"account", e>>>> ELSE <<>>)
    IN  of("target") \o of("channel") \o of("external")

AskTimeline(entities) == /\ build.at = "idle"
                 /\ build' = [NewBuild("select", entities) EXCEPT !.todo = Selects(entities)]
                 /\ asked' = ledger
                 /\ UNCHANGED ledger

ForEntity == \E e \in TimelineEntities : AskTimeline({e})

ForTarget == AskTimeline({"target"} \cup ResolvedTo)

RowEvents(kind, e) == RowsOf(kind, e) \X {e}

(* Mutant: the newest ones.                                                *)
MessageEventsNewest(e) ==
    LET dated == {r \in RowsOf("message", e) : r.when # NoTime}
    IN  {S \X {e} : S \in
           {S \in SUBSET dated :
              /\ Cardinality(S) = IF Cardinality(dated) > MaxEvents THEN MaxEvents
                                  ELSE Cardinality(dated)
              /\ \A r \in S, o \in dated \ S : o.when <= r.when}}

(* The LIMIT earliest dated messages; which of those of one time, if not   *)
(* all, is left open.                                                      *)
MessageEvents(e) ==
    LET dated == {r \in RowsOf("message", e) : r.when # NoTime}
    IN  {S \X {e} : S \in
           {S \in SUBSET dated :
              /\ Cardinality(S) = IF Cardinality(dated) > MaxEvents THEN MaxEvents
                                  ELSE Cardinality(dated)
              /\ \A r \in S, o \in dated \ S : r.when <= o.when}}

Select == /\ build.at = "select" /\ build.todo # <<>>
          /\ LET kind == Head(build.todo)[1]
                 e == Head(build.todo)[2]
             IN  \E found \in IF kind = "message" THEN MessageEvents(e)
                              ELSE {RowEvents(kind, e)} :
                    build' = [build EXCEPT !.todo = Tail(@), !.events = @ \cup found]
          /\ UNCHANGED <<ledger, asked>>

(* Sorted by time, a tie in an order left open, and cut.                   *)
Cut(events) == {S \in SUBSET events :
                  /\ Cardinality(S) = IF Cardinality(events) > MaxEvents THEN MaxEvents
                                      ELSE Cardinality(events)
                  /\ \A x \in S, y \in events \ S : x[1].when <= y[1].when}

ReturnTimeline ==
    /\ build.at = "select" /\ build.todo = <<>>
    /\ \E S \in Cut(build.events) :
          build' = [build EXCEPT !.at = "done", !.events = S,
                                 !.truncated = Cardinality(build.events) > MaxEvents]
    /\ UNCHANGED <<ledger, asked>>

TimelineNext == \/ CommitEvidence \/ CommitLink \/ CommitMessage \/ CommitStray
                \/ ForEntity \/ ForTarget \/ Select \/ ReturnTimeline

(* Types; in particular every event has a time.                            *)
TimelineTypeOK == /\ asked \subseteq ledger
                  /\ build.events \subseteq ledger \X TimelineEntities
                  /\ \A x \in build.events : x[1].when \in Times
                  /\ build.at = "done" => Cardinality(build.events) <= MaxEvents
-----------------------------------------------------------------------------
(* Properties.                                                             *)

(* A dated row of an entity of the timeline.                               *)
Due(r) == r.when # NoTime /\ r.of \cap build.entities # {}

(* Rows are committed between the selects, and messages are cut before     *)
(* they are merged.  Still a timeline that does not say it is truncated    *)
(* has every dated row there was when it was asked for, and a truncated    *)
(* one has left out no such row older than one it shows                    *)
(* (timeline/builder.py:103-105, 169-170).                                 *)
TimelineHonest ==
    build.at = "done" =>
        \A r \in asked :
            Due(r) /\ (\A x \in build.events : x[1] # r) =>
                build.truncated /\ \A x \in build.events : x[1].when <= r.when
=============================================================================
