--------------------------- MODULE ServicesProofs ---------------------------
(***************************************************************************)
(* Proofs about the services, for any sessions, values and limits: the     *)
(* watchlist, reports, timelines and investigations; and, with the lemmas  *)
(* of AnswersProofs, the rate limiter, searches and graph views.           *)
(*                                                                         *)
(* A step of Services is a step of one service.  So each proof is about    *)
(* one service: an invariant of its own steps, which steps of the others   *)
(* leave alone.                                                            *)
(***************************************************************************)
EXTENDS Services, AnswersProofs

(* A step of the services, seen from one of them.                          *)
LEMMA ServicesStep ==
  ASSUME [ServicesNext]_servicesVars
  PROVE  /\ [WatchNext]_watchVars
         /\ [ReportsNext]_reportVars
         /\ [TimelineNext]_timelineVars
         /\ [Next]_vars
         /\ [FootNext]_footVars
         /\ [ViewNext]_viewVars
         /\ [RateNext]_rateVars
         /\ [OsintNext]_osintVars
         /\ [SearchNext]_searchVars
BY DEF ServicesNext, servicesVars
-----------------------------------------------------------------------------
(* The watchlist                                                           *)

WatchRow == {"none", "active", "inactive"}

Session == [pc : {"user", "newuser", "keepuser", "lookup", "count", "insert", "update", "keep",
                  "submit"},
            via : Vias, op : {"add", "remove"}, v : Values, user : BOOLEAN, row : WatchRow,
            dirty : BOOLEAN]

(* Sessions that have written their watch and not committed it.            *)
Writing(s) == At(s, "keep") /\ sess[s].dirty

(* Sessions that are about to add a row: they have passed the limit.       *)
Adding == {s \in Sessions : At(s, "insert") \/ (Writing(s) /\ watch[sess[s].v] = "none")}

WatchTyped ==
    /\ users \in Nat
    /\ watch \in [Values -> WatchRow]
    /\ sess \in [Sessions -> Session \cup {NoSession}]
    /\ reactivated \subseteq Watched

(* What a session has written by the step it is at.                        *)
StepsOf(s) ==
    /\ ~At(s, "idle") /\ sess[s].dirty => At(s, "keep")
    /\ ~At(s, "idle") /\ sess[s].user => sess[s].pc \notin {"user", "newuser", "submit"}
    /\ At(s, "keepuser") => sess[s].user
    /\ At(s, "insert") => sess[s].row = "active"
    /\ At(s, "count") => sess[s].row = "active"
    /\ At(s, "update") \/ Writing(s) => sess[s].row # "none"
    /\ At(s, "update") => watch[sess[s].v] # "none"
    /\ Writing(s) /\ watch[sess[s].v] = "none" => sess[s].row = "active"

WatchSteps == \A s \in Sessions : StepsOf(s)

(* At most one session has inserted the user's row, and only where there   *)
(* is none.                                                                *)
OneInsertsUser ==
    \A s \in Sessions :
        ~At(s, "idle") /\ sess[s].user =>
            users = 0 /\ \A q \in Sessions \ {s} : At(q, "idle") \/ ~sess[q].user

(* No two sessions have written one watch.                                 *)
OneWritesWatch ==
    \A s, q \in Sessions : Writing(s) /\ Writing(q) /\ sess[s].v = sess[q].v => s = q

(* The rows that count, with those about to be added.                      *)
Counted == Cardinality(Watched \ reactivated) + Cardinality(Adding)

WatchInv ==
    /\ WatchTyped
    /\ WatchSteps
    /\ OneUserRow /\ OneInsertsUser
    /\ OneWritesWatch
    /\ Counted < MaxWatches + Cardinality(Sessions)

(* A session in progress has all of its columns.                           *)
LEMMA InProgress ==
  ASSUME WatchTyped, NEW s \in Sessions, ~At(s, "idle")
  PROVE  sess[s] \in Session
BY DEF WatchTyped, At, NoSession

(* What the actions that commit nothing have in common.                    *)
Moves(s) ==
    \/ \E via \in Vias, op \in {"add", "remove"}, v \in Values : Command(s, via, op, v)
    \/ FindUser(s) \/ CreateUser(s) \/ Lookup(s) \/ CountActive(s) \/ InsertWatch(s)
    \/ UpdateWatch(s) \/ SubmitPoll(s) \/ AbortSession(s)

LEMMA WatchMoves ==
  ASSUME WatchTyped, NEW s \in Sessions, Moves(s)
  PROVE  /\ WatchTyped'
         /\ \A q \in Sessions : q # s => sess'[q] = sess[q]
         /\ UNCHANGED <<users, watch, reactivated>>
<1> DEFINE Becomes(r) == sess' = [sess EXCEPT ![s] = r] /\ r \in Session \cup {NoSession}
<1>1. UNCHANGED <<users, watch, reactivated>>
  BY DEF Moves, Command, FindUser, CreateUser, Lookup, CountActive, InsertWatch,
         UpdateWatch, SubmitPoll, AbortSession
<1>2. ASSUME ~At(s, "idle"), NEW here \in {"lookup", "newuser", "insert", "keep"}, Move(s, here)
      PROVE  \E r : Becomes(r)
  <2>1. sess[s] \in Session
    BY <1>2, InProgress
  <2>2. Becomes([sess[s] EXCEPT !.pc = here])
    BY <1>2, <2>1 DEF Move, Session, WatchTyped
  <2> QED BY <2>2
<1>3. ASSUME Quit(s) PROVE \E r : Becomes(r)
  BY <1>3 DEF Quit
<1>4. ASSUME NEW via \in Vias, NEW op \in {"add", "remove"}, NEW v \in Values,
             Command(s, via, op, v)
      PROVE  \E r : Becomes(r)
  <2>1. Becomes([pc |-> "user", via |-> via, op |-> op, v |-> v, user |-> FALSE,
                 row |-> "none", dirty |-> FALSE])
    BY <1>4 DEF Command, Session, WatchRow
  <2> QED BY <2>1
<1>5. ASSUME FindUser(s) PROVE \E r : Becomes(r)
  BY <1>2, <1>5 DEF FindUser, At
<1>6. ASSUME CreateUser(s) PROVE \E r : Becomes(r)
  <2>1. CASE UserKeyTaken(s)
    BY <1>3, <1>6, <2>1 DEF CreateUser
  <2>2. CASE ~UserKeyTaken(s)
    <3>1. sess[s] \in Session
      BY <1>6, InProgress DEF CreateUser, At
    <3>2. Becomes([sess[s] EXCEPT !.user = TRUE, !.pc = IF sess[s].via = "bot" THEN "keepuser"
                                                         ELSE "lookup"])
      BY <1>6, <2>2, <3>1 DEF CreateUser, Session, WatchTyped
    <3> QED BY <3>2
  <2> QED BY <2>1, <2>2
<1>7. ASSUME Lookup(s) PROVE \E r : Becomes(r)
  <2>1. sess[s] \in Session
    BY <1>7, InProgress DEF Lookup, At
  <2>2. PICK row \in {"active", "inactive"}, here \in {"keep", "update", "count"} :
          sess' = [sess EXCEPT ![s].row = row, ![s].pc = here]
    BY <1>7, <2>1 DEF Lookup, Session, WatchTyped, WatchRow
  <2>3. Becomes([sess[s] EXCEPT !.row = row, !.pc = here])
    BY <2>1, <2>2 DEF Session, WatchTyped, WatchRow
  <2> QED BY <2>3
<1>8. ASSUME CountActive(s) PROVE \E r : Becomes(r)
  BY <1>2, <1>3, <1>8 DEF CountActive, At
<1>9. ASSUME InsertWatch(s) \/ UpdateWatch(s) PROVE \E r : Becomes(r)
  <2>1. CASE Quit(s)
    BY <1>3, <2>1
  <2>2. CASE sess' = [sess EXCEPT ![s].pc = "keep", ![s].dirty = TRUE]
    <3>1. sess[s] \in Session
      BY <1>9, InProgress DEF InsertWatch, UpdateWatch, At
    <3>2. Becomes([sess[s] EXCEPT !.pc = "keep", !.dirty = TRUE])
      BY <2>2, <3>1 DEF Session, WatchTyped
    <3> QED BY <3>2
  <2> QED BY <1>9, <2>1, <2>2 DEF InsertWatch, UpdateWatch
<1>10. ASSUME SubmitPoll(s) \/ AbortSession(s) PROVE \E r : Becomes(r)
  BY <1>3, <1>10 DEF SubmitPoll, AbortSession
<1>11. PICK r : Becomes(r)
  BY <1>4, <1>5, <1>6, <1>7, <1>8, <1>9, <1>10 DEF Moves
<1>12. WatchTyped'
  BY <1>1, <1>11 DEF WatchTyped, Watched
<1>13. \A q \in Sessions : q # s => sess'[q] = sess[q]
  BY <1>11 DEF WatchTyped
<1> QED BY <1>1, <1>12, <1>13

(* Each of them leaves the session where its columns belong.               *)
LEMMA StepsMoves ==
  ASSUME WatchInv, NEW s \in Sessions, Moves(s)
  PROVE  WatchSteps'
<1>1. /\ WatchTyped /\ StepsOf(s)
      /\ sess' \in [Sessions -> Session \cup {NoSession}]
      /\ \A q \in Sessions : q # s => sess'[q] = sess[q] 
      /\ UNCHANGED <<users, watch, reactivated>>
  BY WatchMoves DEF WatchInv, WatchSteps, WatchTyped
<1>2. \A q \in Sessions : q # s => StepsOf(q)'
  BY <1>1 DEF WatchInv, WatchSteps, StepsOf, At, Writing
<1>3. StepsOf(s)'
  <2> USE DEF StepsOf, At, Writing
  <2>1. ASSUME sess'[s] = NoSession PROVE StepsOf(s)'
    BY <2>1 DEF NoSession
  <2>2. ASSUME Quit(s) PROVE StepsOf(s)'
    BY <1>1, <2>1, <2>2 DEF Quit, WatchTyped
  <2>3. ASSUME NEW via \in Vias, NEW op \in {"add", "remove"}, NEW v \in Values,
               Command(s, via, op, v)
        PROVE  StepsOf(s)'
    BY <1>1, <2>3 DEF Command, WatchTyped
  <2>4. ASSUME ~At(s, "idle") PROVE sess[s] \in Session
    BY <1>1, <2>4, InProgress
  <2>5. CASE FindUser(s)
    BY <1>1, <2>4, <2>5 DEF FindUser, Move, WatchTyped, Session
  <2>6. CASE CreateUser(s)
    BY <1>1, <2>2, <2>4, <2>6 DEF CreateUser, WatchTyped, Session
  <2>7. CASE Lookup(s)
    BY <1>1, <2>4, <2>7 DEF Lookup, WatchTyped, Session, WatchRow
  <2>8. CASE CountActive(s)
    BY <1>1, <2>2, <2>4, <2>8 DEF CountActive, Move, WatchTyped, Session
  <2>9. CASE InsertWatch(s)
    BY <1>1, <2>2, <2>4, <2>9 DEF InsertWatch, WatchTyped, Session
  <2>10. CASE UpdateWatch(s)
    BY <1>1, <2>4, <2>10 DEF UpdateWatch, WatchTyped, Session
  <2>11. CASE SubmitPoll(s) \/ AbortSession(s)
    BY <2>2, <2>11 DEF SubmitPoll, AbortSession
  <2> QED BY <2>3, <2>5, <2>6, <2>7, <2>8, <2>9, <2>10, <2>11 DEF Moves
<1> QED BY <1>2, <1>3 DEF WatchSteps

(* Only a session that finds no row and nobody inserting one inserts it.   *)
LEMMA UserMoves ==
  ASSUME WatchInv, NEW s \in Sessions, Moves(s)
  PROVE  OneUserRow' /\ OneInsertsUser'
<1> DEFINE Inserts(q) == ~At(q, "idle") /\ sess[q].user
<1>1. /\ WatchTyped /\ UNCHANGED users
      /\ \A q \in Sessions : q # s => sess'[q] = sess[q]
  BY WatchMoves DEF WatchInv
<1>2. \A q \in Sessions : q # s => (Inserts(q)' <=> Inserts(q))
  BY <1>1 DEF At
<1>3. Inserts(s)' => Inserts(s) \/ (~InsertingUser(s) /\ users = 0)
  <2> USE DEF At
  <2>1. ASSUME Quit(s) PROVE ~Inserts(s)'
    BY <2>1, <1>1 DEF Quit, WatchTyped, NoSession
  <2>2. ASSUME NEW via \in Vias, NEW op \in {"add", "remove"}, NEW v \in Values,
               Command(s, via, op, v)
        PROVE  ~Inserts(s)'
    BY <2>2, <1>1 DEF Command, WatchTyped
  <2>3. ASSUME ~At(s, "idle") PROVE sess[s] \in Session
    BY <1>1, <2>3, InProgress
  <2>4. CASE CreateUser(s)
    BY <1>1, <2>1, <2>4 DEF CreateUser, UserKeyTaken, WatchTyped
  <2>5. CASE FindUser(s) \/ Lookup(s) \/ CountActive(s) \/ InsertWatch(s) \/ UpdateWatch(s)
    BY <1>1, <2>1, <2>3, <2>5
       DEF FindUser, Lookup, CountActive, InsertWatch, UpdateWatch, Move, WatchTyped, Session
  <2>6. CASE SubmitPoll(s) \/ AbortSession(s)
    BY <2>1, <2>6 DEF SubmitPoll, AbortSession
  <2> QED BY <2>1, <2>2, <2>4, <2>5, <2>6 DEF Moves
<1>4. ~InsertingUser(s) => \A q \in Sessions \ {s} : ~Inserts(q)
  BY DEF InsertingUser
<1>5. OneInsertsUser'
  BY <1>1, <1>2, <1>3, <1>4 DEF WatchInv, OneInsertsUser
<1> QED BY <1>1, <1>5 DEF WatchInv, OneUserRow

(* Only a session that finds the watch unwritten writes it; and a session  *)
(* is about to add a row only when it was before, or just passed the limit.*)
LEMMA WritingMoves ==
  ASSUME WatchInv, NEW s \in Sessions, Moves(s)
  PROVE  /\ OneWritesWatch'
         /\ s \in Adding' => s \in Adding \/ HasRoom
<1>1. /\ WatchTyped /\ StepsOf(s) /\ UNCHANGED watch
      /\ \A q \in Sessions : q # s => sess'[q] = sess[q]
  BY WatchMoves DEF WatchInv, WatchSteps
<1>2. \A q \in Sessions : q # s => (Writing(q)' <=> Writing(q))
  BY <1>1 DEF At, Writing
<1>3. /\ Writing(s)' => (Writing(s) \/ ~RowTaken(s)) /\ sess'[s].v = sess[s].v
      /\ s \in Adding' => s \in Adding \/ HasRoom
  <2> USE DEF At, Writing, Adding
  <2>1. ASSUME Quit(s) PROVE ~Writing(s)' /\ s \notin Adding'
    BY <2>1, <1>1 DEF Quit, WatchTyped, NoSession
  <2>2. ASSUME NEW via \in Vias, NEW op \in {"add", "remove"}, NEW v \in Values,
               Command(s, via, op, v)
        PROVE  ~Writing(s)' /\ s \notin Adding'
    BY <2>2, <1>1 DEF Command, WatchTyped
  <2>3. ASSUME ~At(s, "idle") PROVE sess[s] \in Session
    BY <1>1, <2>3, InProgress
  <2>4. CASE InsertWatch(s)
    BY <1>1, <2>1, <2>3, <2>4 DEF InsertWatch, WatchTyped, Session
  <2>5. CASE UpdateWatch(s)
    BY <1>1, <2>3, <2>5 DEF UpdateWatch, WatchTyped, Session, StepsOf
  <2>6. CASE CountActive(s)
    BY <1>1, <2>1, <2>3, <2>6 DEF CountActive, Move, WatchTyped, Session
  <2>7. CASE FindUser(s) \/ CreateUser(s)
    BY <1>1, <2>1, <2>3, <2>7 DEF FindUser, CreateUser, Move, WatchTyped, Session
  <2>8. CASE Lookup(s)
    BY <1>1, <2>3, <2>8 DEF Lookup, WatchTyped, WatchRow, Session, StepsOf
  <2>9. CASE SubmitPoll(s) \/ AbortSession(s)
    BY <2>1, <2>9 DEF SubmitPoll, AbortSession
  <2> QED BY <2>1, <2>2, <2>4, <2>5, <2>6, <2>7, <2>8, <2>9 DEF Moves
<1>4. \A q \in Sessions \ {s} : Writing(q) /\ sess[q].v = sess[s].v => RowTaken(s)
  BY DEF RowTaken, Writing
<1>5. OneWritesWatch'
  BY <1>1, <1>2, <1>3, <1>4 DEF WatchInv, OneWritesWatch
<1> QED BY <1>3, <1>5

(* Both sets are finite, so their sizes can be compared.                   *)
LEMMA WatchFinite ==
  ASSUME WatchTyped
  PROVE  /\ IsFiniteSet(Watched) /\ IsFiniteSet(Watched \ reactivated) /\ IsFiniteSet(Adding)
         /\ Cardinality(Watched) \in Nat /\ Cardinality(Watched \ reactivated) \in Nat
         /\ Cardinality(Adding) \in Nat /\ Cardinality(Sessions) \in Nat
         /\ Cardinality(Watched \ reactivated) <= Cardinality(Watched)
         /\ Cardinality(Adding) <= Cardinality(Sessions)
<1>1. IsFiniteSet(Watched)
  BY FS_Subset, WatchAssumption DEF Watched
<1>2. IsFiniteSet(Adding) /\ Cardinality(Adding) <= Cardinality(Sessions)
  BY FS_Subset, WatchAssumption DEF Adding
<1>3. /\ IsFiniteSet(Watched \ reactivated)
      /\ Cardinality(Watched \ reactivated) <= Cardinality(Watched)
  BY <1>1, FS_Subset
<1> QED BY <1>1, <1>2, <1>3, FS_CardinalityType, WatchAssumption

(* A session about to add a row has found room, so all of them together    *)
(* exceed the limit by no more than they are many.                         *)
LEMMA CountedMoves ==
  ASSUME WatchInv, NEW s \in Sessions, Moves(s)
  PROVE  Counted' < MaxWatches + Cardinality(Sessions)
<1>1. WatchTyped /\ WatchTyped' /\ UNCHANGED <<watch, reactivated>>
  BY WatchMoves DEF WatchInv
<1>2. \A q \in Sessions : q # s => (q \in Adding' <=> q \in Adding)
  BY WatchMoves DEF WatchInv, Adding, Writing, At
<1>3. Watched' = Watched /\ Watched' \ reactivated' = Watched \ reactivated
  BY <1>1 DEF Watched
<1>4. Cardinality(Adding') \in Nat /\ Cardinality(Adding') <= Cardinality(Sessions)
  <2>1. Adding' \subseteq Sessions
    BY DEF Adding
  <2> QED BY <2>1, FS_Subset, FS_CardinalityType, WatchAssumption
<1>5. CASE HasRoom
  BY <1>1, <1>3, <1>4, <1>5, WatchFinite, WatchAssumption DEF HasRoom, Counted
<1>6. CASE ~HasRoom
  <2>1. Adding' \subseteq Adding
    BY <1>2, <1>6, WritingMoves DEF Adding
  <2>2. Cardinality(Adding') <= Cardinality(Adding)
    BY <1>1, <2>1, WatchFinite, FS_Subset
  <2>3. Counted < MaxWatches + Cardinality(Sessions)
    BY DEF WatchInv
  <2> QED BY <1>1, <1>3, <1>4, <2>2, <2>3, WatchFinite, WatchAssumption DEF Counted
<1> QED BY <1>5, <1>6

LEMMA CommitsUser ==
  ASSUME WatchInv, NEW s \in Sessions, CommitUser(s)
  PROVE  WatchInv'
<1>1. /\ sess[s] \in Session /\ sess[s].pc = "keepuser" /\ sess[s].user
      /\ WatchTyped /\ WatchSteps /\ StepsOf(s)
  BY InProgress DEF CommitUser, At, WatchInv, WatchSteps, StepsOf
<1>2. /\ users' = 1 /\ UNCHANGED <<watch, reactivated>>
      /\ \A q \in Sessions \ {s} : At(q, "idle") \/ ~sess[q].user
  BY <1>1 DEF CommitUser, WatchInv, OneInsertsUser, At
<1>3. /\ sess' \in [Sessions -> Session \cup {NoSession}]
      /\ \A q \in Sessions \ {s} : sess'[q] = sess[q]
      /\ sess'[s] \in Session /\ sess'[s].pc = "lookup" /\ ~sess'[s].user
      /\ sess'[s].dirty = sess[s].dirty
  <2> DEFINE new == [sess[s] EXCEPT !.user = FALSE, !.pc = "lookup"]
  <2>1. new \in Session /\ new.pc = "lookup" /\ ~new.user /\ new.dirty = sess[s].dirty
    BY <1>1 DEF Session
  <2>2. sess' = [sess EXCEPT ![s] = new]
    BY <1>1 DEF CommitUser, WatchTyped
  <2> HIDE DEF new
  <2> QED BY <1>1, <2>1, <2>2 DEF WatchTyped
<1>4. WatchTyped'
  BY <1>1, <1>2, <1>3 DEF WatchTyped, Watched
<1>5. WatchSteps'
  BY <1>1, <1>2, <1>3 DEF WatchSteps, StepsOf, At, Writing
<1>6. OneUserRow' /\ OneInsertsUser'
  BY <1>2, <1>3 DEF OneUserRow, OneInsertsUser, At
<1>7. OneWritesWatch'
  BY <1>1, <1>3 DEF WatchInv, OneWritesWatch, Writing, At
<1>8. Adding' = Adding
  BY <1>1, <1>2, <1>3 DEF Adding, Writing, At
<1>9. (Counted < MaxWatches + Cardinality(Sessions))'
  BY <1>2, <1>8 DEF WatchInv, Counted, Watched
<1> QED BY <1>4, <1>5, <1>6, <1>7, <1>9 DEF WatchInv

LEMMA CommitsWatch ==
  ASSUME WatchInv, NEW s \in Sessions, CommitWatch(s)
  PROVE  WatchInv'
<1> DEFINE v == sess[s].v
<1>1. /\ sess[s] \in Session /\ sess[s].pc = "keep" /\ v \in Values
      /\ WatchTyped /\ WatchSteps /\ StepsOf(s) /\ At(s, "keep")
      /\ Writing(s) <=> sess[s].dirty
  BY InProgress DEF CommitWatch, At, WatchInv, WatchSteps, Session, Writing
<1>2. /\ sess' \in [Sessions -> Session \cup {NoSession}]
      /\ \A q \in Sessions \ {s} : sess'[q] = sess[q]
      /\ \/ sess'[s] = NoSession
         \/ sess'[s] \in Session /\ sess'[s].pc = "submit" /\ ~sess'[s].user /\ ~sess'[s].dirty
  <2> DEFINE new == [sess[s] EXCEPT !.pc = "submit", !.user = FALSE, !.dirty = FALSE]
  <2>1. new \in Session /\ new.pc = "submit" /\ ~new.user /\ ~new.dirty
    BY <1>1 DEF Session
  <2>2. sess' = [sess EXCEPT ![s] = new] \/ sess' = [sess EXCEPT ![s] = NoSession]
    BY <1>1 DEF CommitWatch, WatchTyped, Quit
  <2> HIDE DEF new
  <2> QED BY <1>1, <2>1, <2>2 DEF WatchTyped
<1>3. watch' \in [Values -> WatchRow] /\ \A x \in Values : watch[x] # "none" => watch'[x] # "none"
  BY <1>1 DEF CommitWatch, WatchTyped, StepsOf, Session, WatchRow
<1>4. OneUserRow' /\ OneInsertsUser'
  <2>1. CASE sess[s].user
    BY <1>1, <1>2, <2>1 DEF CommitWatch, WatchInv, OneUserRow, OneInsertsUser, At, NoSession
  <2>2. CASE ~sess[s].user
    BY <1>1, <1>2, <2>2 DEF CommitWatch, WatchInv, OneUserRow, OneInsertsUser, At, NoSession
  <2> QED BY <2>1, <2>2
<1>5. ~Writing(s)' /\ \A q \in Sessions \ {s} : Writing(q)' <=> Writing(q)
  BY <1>2 DEF Writing, At, NoSession
<1>6. OneWritesWatch'
  BY <1>2, <1>5 DEF WatchInv, OneWritesWatch
<1>7. \A q \in Sessions \ {s} : Writing(q) => watch'[sess[q].v] = watch[sess[q].v]
  BY <1>1 DEF CommitWatch, WatchInv, OneWritesWatch, WatchTyped, Writing
<1>8. WatchSteps'
  <2>1. ASSUME NEW q \in Sessions \ {s} PROVE StepsOf(q)'
    <3>1. StepsOf(q) /\ (Writing(q)' <=> Writing(q)) /\ sess'[q] = sess[q]
      BY <1>1, <1>2, <1>5, <2>1 DEF WatchSteps
    <3>2. ~At(q, "idle") => sess[q].v \in Values
      BY <1>1, InProgress DEF Session
    <3> QED BY <1>3, <1>7, <3>1, <3>2 DEF StepsOf, At
  <2>2. StepsOf(s)'
    BY <1>2, <1>5 DEF StepsOf, At, NoSession
  <2> QED BY <2>1, <2>2 DEF WatchSteps
<1>9. Adding' = Adding \ {s}
  BY <1>2, <1>5, <1>7 DEF Adding, At, NoSession
<1>10. /\ WatchTyped'
       /\ \/ Watched' \ reactivated' \subseteq Watched \ reactivated
          \/ /\ Watched' \ reactivated' = (Watched \ reactivated) \cup {v}
             /\ s \in Adding
  <2> USE <1>1, <1>2, <1>3 DEF CommitWatch, Reactivated, WatchTyped, Watched
  <2>1. users' \in Nat
    OBVIOUS
  <2>2. CASE ~sess[s].dirty
    BY <2>1, <2>2
  <2>3. CASE sess[s].dirty /\ sess[s].row = "inactive"
    <3>1. watch' = [watch EXCEPT ![v] = "inactive"] /\ reactivated' = reactivated \ {v}
      BY <2>3
    <3>2. Watched' = Watched \ {v}
      BY <3>1
    <3> QED BY <2>1, <3>1, <3>2
  <2>4. CASE sess[s].dirty /\ sess[s].row = "active" /\ watch[v] # "none"
    <3>1. /\ watch' = [watch EXCEPT ![v] = "active"]
          /\ reactivated' = IF watch[v] = "inactive" THEN reactivated \cup {v} ELSE reactivated
      BY <2>4
    <3>2. Watched' = Watched \cup {v}
      BY <3>1
    <3> QED BY <2>1, <2>4, <3>1, <3>2 DEF WatchRow
  <2>5. CASE sess[s].dirty /\ sess[s].row = "active" /\ watch[v] = "none"
    <3>1. watch' = [watch EXCEPT ![v] = "active"] /\ reactivated' = reactivated
      BY <2>5
    <3>2. Watched' = Watched \cup {v} /\ v \notin reactivated
      BY <2>5, <3>1
    <3>3. Watched' \ reactivated' = (Watched \ reactivated) \cup {v}
      BY <3>1, <3>2
    <3>4. s \in Adding
      BY <2>5 DEF Adding
    <3>5. WatchTyped'
      BY <2>1, <3>1, <3>2
    <3> QED BY <3>3, <3>4, <3>5
  <2> QED BY <2>2, <2>3, <2>4, <2>5 DEF StepsOf, Session, WatchRow
<1>11. (Counted < MaxWatches + Cardinality(Sessions))'
  <2> DEFINE Base == Watched \ reactivated
  <2>1. /\ IsFiniteSet(Base) /\ IsFiniteSet(Adding)
        /\ Cardinality(Base) \in Nat /\ Cardinality(Adding) \in Nat
        /\ Cardinality(Sessions) \in Nat
        /\ Cardinality(Base) + Cardinality(Adding) < MaxWatches + Cardinality(Sessions)
    BY <1>1, WatchFinite DEF WatchInv, Counted
  <2>2. /\ Cardinality(Adding') \in Nat
        /\ Cardinality(Adding') = IF s \in Adding THEN Cardinality(Adding) - 1
                                  ELSE Cardinality(Adding)
    BY <1>9, <2>1, FS_RemoveElement, FS_CardinalityType
  <2>3. CASE Base' \subseteq Base
    <3>1. Cardinality(Base') <= Cardinality(Base) /\ Cardinality(Base') \in Nat
      BY <2>1, <2>3, FS_Subset, FS_CardinalityType
    <3> HIDE DEF Base
    <3> QED BY <2>1, <2>2, <3>1, WatchAssumption DEF Counted, Base
  <2>4. CASE Base' = Base \cup {v} /\ s \in Adding
    <3>1. Cardinality(Base') <= Cardinality(Base) + 1 /\ Cardinality(Base') \in Nat
      <4>1. Cardinality(Base') = IF v \in Base THEN Cardinality(Base) ELSE Cardinality(Base) + 1
        <5> HIDE DEF Base, v
        <5> QED BY <2>1, <2>4, FS_AddElement
      <4> HIDE DEF Base
      <4> QED BY <2>1, <4>1
    <3> HIDE DEF Base
    <3> QED BY <2>1, <2>2, <2>4, <3>1, WatchAssumption DEF Counted, Base
  <2> QED BY <1>10, <2>3, <2>4
<1> QED BY <1>4, <1>6, <1>8, <1>10, <1>11 DEF WatchInv

(* The invariant holds at the start, and every step of the watchlist keeps *)
(* it.                                                                     *)
LEMMA WatchInitially == WatchInit => WatchInv
<1> SUFFICES ASSUME WatchInit PROVE WatchInv
  OBVIOUS
<1>1. WatchTyped /\ WatchSteps /\ OneUserRow /\ OneInsertsUser /\ OneWritesWatch
  BY DEF WatchInit, WatchTyped, WatchSteps, StepsOf, OneUserRow, OneInsertsUser,
         OneWritesWatch, Watched, WatchRow, Writing, At, NoSession
<1>2. Watched \ reactivated = {} /\ Adding = {}
  BY DEF WatchInit, Watched, Adding, Writing, At, NoSession
<1>3. Cardinality(Sessions) \in Nat \ {0}
  BY FS_CardinalityType, FS_EmptySet, WatchAssumption
<1>4. Counted = 0
  BY <1>2, FS_EmptySet DEF Counted
<1> QED BY <1>1, <1>3, <1>4, WatchAssumption DEF WatchInv

LEMMA WatchStepKeeps ==
  ASSUME WatchInv, [WatchNext]_watchVars
  PROVE  WatchInv'
<1>1. ASSUME NEW s \in Sessions, Moves(s) PROVE WatchInv'
  <2>1. WatchTyped'
    BY <1>1, WatchMoves DEF WatchInv
  <2> QED
    BY <1>1, <2>1, StepsMoves, UserMoves, WritingMoves, CountedMoves DEF WatchInv
<1>2. CASE UNCHANGED watchVars
  BY <1>2 DEF watchVars, WatchInv, WatchTyped, WatchSteps, StepsOf, OneUserRow, OneInsertsUser,
              OneWritesWatch, Counted, Watched, Adding, Writing, At
<1>3. CASE WatchNext
  BY <1>1, <1>3, CommitsUser, CommitsWatch DEF WatchNext, Moves
<1> QED BY <1>2, <1>3

(* Sessions that look and then insert never give a user two rows, and      *)
(* never exceed the limit on watches by as much as there are sessions, for *)
(* any number of sessions, values and allowed watches                      *)
(* (WatchlistRepository.add, get_or_create_for_telegram).                  *)
THEOREM WatchlistIsBounded == ServicesSpec => []WatchlistBounded
<1>1. ServicesInit => WatchInv
  BY WatchInitially DEF ServicesInit
<1>2. WatchInv /\ [ServicesNext]_servicesVars => WatchInv'
  BY ServicesStep, WatchStepKeeps
<1>3. WatchInv => WatchlistBounded
  <2> SUFFICES ASSUME WatchInv PROVE OneUserRow /\ OvershootBounded
    BY DEF WatchlistBounded
  <2> QED
    BY WatchFinite, WatchAssumption DEF WatchInv, Counted, OvershootBounded
<1> QED BY <1>1, <1>2, <1>3, PTL DEF ServicesSpec
-----------------------------------------------------------------------------
(* Reports                                                                 *)

(* The evidence rows committed so far.                                     *)
Stored == {x \in Ev : x[2] <= collected[x[1]]}

GenRow == [at : {"idle", "cite", "list", "write", "failed"}, built : Content,
           wrote : SUBSET Formats, alone : BOOLEAN]

(* What a session has when it is at a step; only one whose target exists   *)
(* gets as far as building.                                                *)
GenFits(g) ==
    /\ gen[g].at \in {"cite", "list", "write"} => hasTarget
    /\ gen[g].at = "failed" => ~hasTarget
    /\ gen[g].at # "write" => gen[g].wrote = {}
    /\ gen[g].at = "list" => gen[g].built.cited \subseteq Stored
    /\ gen[g].at = "write" => /\ gen[g].built # NoFile
                              /\ gen[g].built.whole => gen[g].built.cited \subseteq gen[g].built.listed
    /\ \A f \in gen[g].wrote : disk[f] # NoFile

(* A session that ran alone has the files to itself.                       *)
AloneHas(g) ==
    gen[g].at # "idle" /\ gen[g].alone =>
        /\ Busy = {g}
        /\ \A f \in gen[g].wrote : disk[f] = gen[g].built

ReportsTyped ==
    /\ collected \in [Resolution -> 0..MaxEvidence]
    /\ hasTarget \in BOOLEAN /\ torn \in BOOLEAN
    /\ gen \in [Generators -> GenRow]
    /\ report \in [status : {"none", "PENDING", "COMPLETED", "FAILED"}, content : Content,
                   artifacts : SUBSET Formats]
    /\ disk \in [Formats -> Content]

(* A file differs from the row only while a session that has written it is *)
(* at work, or after it was lost or overlapped.                            *)
FilesFollow ==
    report.status = "COMPLETED" =>
        /\ hasTarget
        /\ \A f \in Formats :
              /\ disk[f] # NoFile
              /\ \/ torn \/ disk[f] = report.content
                 \/ \E g \in Generators : f \in gen[g].wrote

ReportInv ==
    /\ ReportsTyped
    /\ \A g \in Generators : GenFits(g) /\ AloneHas(g)
    /\ FilesFollow
    /\ CitedIsListed

(* What the newest rows of an entity are.                                  *)
LEMMA NewestRows ==
  ASSUME ReportsTyped, NEW e \in Resolution, NEW n \in Int
  PROVE  /\ Newest(e, n) \subseteq Stored
         /\ n >= collected[e] =>
               /\ \A k \in 1..MaxEvidence : k <= collected[e] => <<e, k>> \in Newest(e, n)
               /\ Cardinality(Newest(e, n)) = collected[e]
         /\ n > 0 /\ collected[e] > 0 => Newest(e, n) # {}
         /\ collected[e] = 0 => Newest(e, n) = {}
<1>1. collected[e] \in 0..MaxEvidence /\ MaxEvidence \in Nat
  BY ReportsAssumption DEF ReportsTyped
<1>2. Newest(e, n) \subseteq Stored
  BY <1>1 DEF Newest, Stored, Ev
<1>3. ASSUME n >= collected[e]
      PROVE  /\ \A k \in 1..MaxEvidence : k <= collected[e] => <<e, k>> \in Newest(e, n)
             /\ Cardinality(Newest(e, n)) = collected[e]
  <2> DEFINE count == collected[e]
             newest == Newest(e, n)
  <2>1. newest = {<<e, k>> : k \in 1..count} /\ count \in Nat
    BY <1>1, <1>3 DEF Newest
  <2>2. [k \in 1..count |-> <<e, k>>] \in Bijection(1..count, newest)
    <3> HIDE DEF count, newest
    <3> DEFINE f == [k \in 1..count |-> <<e, k>>]
    <3>1. f \in [1..count -> newest]
      BY <2>1
    <3>2. \A a, b \in 1..count : f[a] = f[b] => a = b
      OBVIOUS
    <3>3. \A t \in newest : \E k \in 1..count : f[k] = t
      BY <2>1
    <3> QED BY <3>1, <3>2, <3>3 DEF Bijection, Injection, Surjection, IsInjective
  <2>3. Cardinality(1..count) = count /\ IsFiniteSet(1..count)
    <3> HIDE DEF count
    <3> QED BY <2>1, FS_Interval
  <2>4. ExistsBijection(1..count, newest)
    BY <2>2 DEF ExistsBijection
  <2>5. Cardinality(newest) = count
    <3> HIDE DEF count, newest
    <3> QED BY <2>3, <2>4, FS_Bijection
  <2> QED BY <1>1, <2>1, <2>5
<1>4. ASSUME n > 0, collected[e] > 0 PROVE Newest(e, n) # {}
  <2>1. <<e, collected[e]>> \in Newest(e, n)
    BY <1>1, <1>4 DEF Newest
  <2> QED BY <2>1
<1>5. collected[e] = 0 => Newest(e, n) = {}
  BY DEF Newest
<1> QED BY <1>2, <1>3, <1>4, <1>5

LEMMA NewestEvidence ==
  ASSUME ReportsTyped, NEW e \in Resolution, NEW n
  PROVE  Newest(e, n) \subseteq Ev
<1>1. collected[e] \in 0..MaxEvidence /\ MaxEvidence \in Nat
  BY ReportsAssumption DEF ReportsTyped
<1>2. {i \in 1..collected[e] : i + n > collected[e]} \subseteq 1..MaxEvidence
  BY <1>1
<1> QED BY <1>2 DEF Newest, Ev

(* The evidence section lists all evidence there is when that fits, and    *)
(* something when it does not.                                             *)
LEMMA SectionLists ==
  ASSUME ReportsTyped, NEW e \in Resolution, NEW f \in Resolution, e # f
  PROVE  /\ Section(e, f) \subseteq Ev
         /\ Total <= EvidenceCap => Stored \subseteq Section(e, f)
         /\ ~(Total <= EvidenceCap) => Section(e, f) # {}
<1> DEFINE room == EvidenceCap - Cardinality(Newest(e, EvidenceCap))
<1>1. /\ EvidenceCap \in Nat \ {0}
      /\ collected[e] \in Nat /\ collected[f] \in Nat
      /\ Total = collected[e] + collected[f]
      /\ Resolution = {e, f}
  BY ReportsAssumption DEF ReportsTyped, Total, Resolution
<1>2. Section(e, f) = Newest(e, EvidenceCap) \cup Newest(f, room)
  BY DEF Section
<1>3. Newest(e, EvidenceCap) \subseteq Ev /\ Newest(f, room) \subseteq Ev
  BY NewestEvidence
<1>4. ASSUME Total <= EvidenceCap PROVE Stored \subseteq Section(e, f)
  <2>1. /\ Cardinality(Newest(e, EvidenceCap)) = collected[e]
        /\ \A k \in 1..MaxEvidence : k <= collected[e] => <<e, k>> \in Newest(e, EvidenceCap)
    BY <1>1, <1>4, NewestRows
  <2>2. room \in Int /\ room >= collected[f]
    BY <1>1, <1>4, <2>1
  <2>3. \A k \in 1..MaxEvidence : k <= collected[f] => <<f, k>> \in Newest(f, room)
    BY <2>2, NewestRows
  <2> QED BY <1>1, <1>2, <2>1, <2>3 DEF Stored, Ev
<1>5. ASSUME ~(Total <= EvidenceCap) PROVE Section(e, f) # {}
  <2>1. CASE collected[e] > 0
    BY <1>1, <1>2, <2>1, NewestRows
  <2>2. CASE collected[e] = 0
    <3>1. Newest(e, EvidenceCap) = {}
      BY <1>1, <2>2, NewestRows
    <3>2. room = EvidenceCap
      BY <1>1, <3>1, FS_EmptySet
    <3>3. Newest(f, room) # {}
      BY <1>1, <1>5, <2>2, <3>2, NewestRows
    <3> QED BY <1>2, <3>3
  <2> QED BY <1>1, <2>1, <2>2
<1> QED BY <1>2, <1>3, <1>4, <1>5

(* More evidence, the request and its job: the sessions do not notice.     *)
LEMMA RequestsKeepReports ==
  ASSUME ReportInv,
         RequestReport \/ SubmitReport \/ (\E e \in Resolution : Collect(e))
  PROVE  ReportInv'
<1>1. UNCHANGED <<hasTarget, disk, gen, torn>> /\ ReportsTyped
  BY DEF ReportInv, RequestReport, SubmitReport, Collect
<1>2. ReportsTyped' /\ Stored \subseteq Stored'
  <2>1. CASE RequestReport
    BY <1>1, <2>1 DEF RequestReport, ReportsTyped, Stored
  <2>2. CASE SubmitReport
    BY <1>1, <2>2 DEF SubmitReport, ReportsTyped, Stored
  <2>3. ASSUME NEW e \in Resolution, Collect(e) PROVE ReportsTyped' /\ Stored \subseteq Stored'
    <3>1. /\ collected' \in [Resolution -> 0..MaxEvidence]
          /\ \A d \in Resolution : collected[d] \in Nat /\ collected'[d] \in Nat
                                   /\ collected[d] <= collected'[d]
      BY <1>1, <2>3, ReportsAssumption DEF Collect, ReportsTyped
    <3>2. ReportsTyped'
      BY <1>1, <2>3, <3>1 DEF Collect, ReportsTyped
    <3>3. Stored \subseteq Stored'
      BY <3>1, ReportsAssumption DEF Stored, Ev
    <3> QED BY <3>2, <3>3
  <2> QED BY <2>1, <2>2, <2>3
<1>3. \A g \in Generators : GenFits(g)' /\ AloneHas(g)'
  BY <1>1, <1>2 DEF ReportInv, GenFits, AloneHas, Busy
<1>4. FilesFollow' /\ CitedIsListed'
  <2>1. report'.content = report.content
    BY <1>1 DEF RequestReport, SubmitReport, Collect, ReportsTyped
  <2>2. report'.status = "COMPLETED" => report.status = "COMPLETED"
    BY <1>1 DEF RequestReport, SubmitReport, Collect, ReportsTyped
  <2> QED BY <1>1, <2>1, <2>2 DEF ReportInv, FilesFollow, CitedIsListed
<1> QED BY <1>2, <1>3, <1>4 DEF ReportInv

(* A session that begins while another is at work is not alone, and nor is *)
(* the other.                                                              *)
LEMMA GenerateKeepsReports ==
  ASSUME ReportInv, NEW g \in Generators, Generate(g)
  PROVE  ReportInv'
<1> DEFINE first == [IdleGen EXCEPT !.at = IF hasTarget THEN "cite" ELSE "failed",
                                    !.alone = Busy = {}]
<1>1. /\ UNCHANGED <<collected, hasTarget, report, disk, torn>> /\ ReportsTyped
      /\ gen[g].at = "idle" /\ gen[g] \in GenRow
  BY DEF ReportInv, Generate, AtStep, ReportsTyped
<1>2. first \in GenRow /\ first.at = (IF hasTarget THEN "cite" ELSE "failed")
      /\ first.wrote = {} /\ first.alone = (Busy = {})
  BY DEF IdleGen, GenRow, Empty, Content
<1>3. /\ gen' \in [Generators -> GenRow]
      /\ gen'[g] = first
      /\ \A q \in Generators \ {g} :
            /\ gen'[q].at = gen[q].at /\ gen'[q].built = gen[q].built
            /\ gen'[q].wrote = gen[q].wrote /\ gen'[q].alone = (q \notin Busy)
  <2> HIDE DEF first
  <2>1. gen' = [q \in Generators |->
                  IF q = g THEN first ELSE [gen[q] EXCEPT !.alone = q \notin Busy]]
    BY DEF Generate, first
  <2>2. \A q \in Generators : gen[q] \in GenRow
    BY <1>1 DEF ReportsTyped
  <2>3. \A q \in Generators : [gen[q] EXCEPT !.alone = q \notin Busy] \in GenRow
    BY <2>2 DEF GenRow
  <2> QED BY <1>2, <2>1, <2>2, <2>3 DEF GenRow
<1> HIDE DEF first
<1>4. ReportsTyped'
  BY <1>1, <1>3 DEF ReportsTyped
<1>5. \A q \in Generators : GenFits(q)'
  BY <1>1, <1>2, <1>3 DEF ReportInv, GenFits, Stored
<1>6. \A q \in Generators : AloneHas(q)'
  <2>1. AloneHas(g)'
    <3>1. CASE Busy = {}
      <4>1. Busy' = {g}
        BY <1>2, <1>3, <3>1 DEF Busy
      <4> QED BY <1>2, <1>3, <4>1 DEF AloneHas
    <3>2. CASE Busy # {}
      BY <1>2, <1>3, <3>2 DEF AloneHas
    <3> QED BY <3>1, <3>2
  <2>2. ASSUME NEW q \in Generators \ {g} PROVE AloneHas(q)'
    BY <1>3 DEF AloneHas, Busy
  <2> QED BY <2>1, <2>2
<1>7. gen[g].wrote = {}
  BY <1>1 DEF ReportInv, GenFits
<1>8. FilesFollow' /\ CitedIsListed'
  BY <1>1, <1>3, <1>7 DEF ReportInv, FilesFollow, CitedIsListed
<1> QED BY <1>4, <1>5, <1>6, <1>8 DEF ReportInv

(* Building changes nothing but what the session has built.                *)
LEMMA BuildingKeepsReports ==
  ASSUME ReportInv, NEW g \in Generators, Cite(g) \/ ListEvidence(g)
  PROVE  ReportInv'
<1>1. /\ UNCHANGED <<collected, hasTarget, report, disk, torn>> /\ ReportsTyped
      /\ gen[g].at \in {"cite", "list"} /\ gen[g] \in GenRow
      /\ GenFits(g)
  BY DEF ReportInv, Cite, ListEvidence, AtStep, ReportsTyped
<1>2. \E r \in GenRow :
         /\ gen' = [gen EXCEPT ![g] = r]
         /\ r.alone = gen[g].alone /\ r.wrote = gen[g].wrote
         /\ \/ r.at = "list" /\ r.built.cited \subseteq Stored
            \/ /\ r.at = "write" /\ r.built # NoFile
               /\ r.built.whole => r.built.cited \subseteq r.built.listed
  <2>1. CASE Cite(g)
    <3>1. PICK refs \in PresenceRefs :
             gen' = [gen EXCEPT ![g].at = "list", ![g].built.cited = refs \cup IntelligenceRefs]
      BY <2>1 DEF Cite
    <3> DEFINE cites == refs \cup IntelligenceRefs
               r == [gen[g] EXCEPT !.at = "list", !.built.cited = cites]
    <3>2. cites \subseteq Stored /\ cites \subseteq Ev
      <4>1. IntelligenceRefs \subseteq Stored
        BY <1>1, NewestRows, ReportsAssumption DEF IntelligenceRefs, Resolution
      <4>2. refs \subseteq Stored
        BY <1>1, ReportsAssumption DEF PresenceRefs, Stored, Ev, ReportsTyped, Resolution
      <4> QED BY <4>1, <4>2 DEF Stored
    <3> HIDE DEF cites
    <3>3. /\ r \in GenRow /\ r.alone = gen[g].alone /\ r.wrote = gen[g].wrote
          /\ r.at = "list" /\ r.built.cited = cites
      BY <1>1, <3>2 DEF GenRow, Content
    <3>4. gen' = [gen EXCEPT ![g] = r]
      BY <1>1, <3>1 DEF ReportsTyped, cites
    <3> HIDE DEF r
    <3> QED BY <3>2, <3>3, <3>4
  <2>2. CASE ListEvidence(g)
    <3>1. PICK e \in Resolution :
             gen' = [gen EXCEPT ![g].at = "write",
                                ![g].built.listed = Section(e, CHOOSE f \in Resolution : f # e),
                                ![g].built.whole = Total <= EvidenceCap]
      BY <2>2 DEF ListEvidence
    <3> DEFINE other == CHOOSE f \in Resolution : f # e
               lists == Section(e, other)
               whole == Total <= EvidenceCap
               r == [gen[g] EXCEPT !.at = "write", !.built.listed = lists, !.built.whole = whole]
    <3>2. other \in Resolution /\ other # e
      BY DEF Resolution
    <3>3. /\ lists \subseteq Ev
          /\ whole => Stored \subseteq lists
          /\ ~whole => lists # {}
      <4> HIDE DEF other
      <4> QED BY <1>1, <3>2, SectionLists
    <3>4. gen[g].built.cited \subseteq Stored
      BY <1>1, <2>2 DEF GenFits, ListEvidence, AtStep
    <3> HIDE DEF lists, whole, other
    <3>5. gen' = [gen EXCEPT ![g] = r]
      <4>1. gen' = [gen EXCEPT ![g].at = "write", ![g].built.listed = lists,
                               ![g].built.whole = whole]
        BY <3>1 DEF lists, whole, other
      <4> QED BY <1>1, <4>1 DEF ReportsTyped, GenRow, Content
    <3>6. whole \in BOOLEAN
      BY DEF whole
    <3>7. /\ r \in GenRow /\ r.alone = gen[g].alone /\ r.wrote = gen[g].wrote
          /\ r.at = "write" /\ r.built.cited = gen[g].built.cited
          /\ r.built.listed = lists /\ r.built.whole = whole
      BY <1>1, <3>3, <3>6 DEF GenRow, Content
    <3> HIDE DEF r
    <3>8. r.built # NoFile
      BY <3>3, <3>6, <3>7 DEF NoFile
    <3> QED BY <3>3, <3>4, <3>5, <3>7, <3>8
  <2> QED BY <2>1, <2>2
<1>3. PICK r \in GenRow :
         /\ gen' = [gen EXCEPT ![g] = r]
         /\ r.alone = gen[g].alone /\ r.wrote = gen[g].wrote
         /\ \/ r.at = "list" /\ r.built.cited \subseteq Stored
            \/ /\ r.at = "write" /\ r.built # NoFile
               /\ r.built.whole => r.built.cited \subseteq r.built.listed
  BY <1>2
<1>4. /\ gen' \in [Generators -> GenRow] /\ gen'[g] = r
      /\ \A q \in Generators \ {g} : gen'[q] = gen[q]
  BY <1>1, <1>3 DEF ReportsTyped
<1>5. ReportsTyped'
  BY <1>1, <1>4 DEF ReportsTyped
<1>6. Busy' = Busy /\ gen[g].wrote = {}
  BY <1>1, <1>3, <1>4 DEF Busy, GenFits
<1>7. \A q \in Generators : GenFits(q)'
  BY <1>1, <1>3, <1>4, <1>6 DEF ReportInv, GenFits, Stored
<1>8. \A q \in Generators : AloneHas(q)'
  BY <1>1, <1>3, <1>4, <1>6 DEF ReportInv, AloneHas
<1>9. FilesFollow' /\ CitedIsListed'
  BY <1>1, <1>3, <1>4 DEF ReportInv, FilesFollow, CitedIsListed
<1> QED BY <1>5, <1>7, <1>8, <1>9 DEF ReportInv

(* A file is overwritten while its writer is at work.                      *)
LEMMA WritingKeepsReports ==
  ASSUME ReportInv, NEW g \in Generators, NEW f \in Formats, WriteArtifact(g, f)
  PROVE  ReportInv'
<1> DEFINE built == gen[g].built
           r == [gen[g] EXCEPT !.wrote = gen[g].wrote \cup {f}]
<1>1. /\ UNCHANGED <<collected, hasTarget, report, torn>> /\ ReportsTyped
      /\ gen[g].at = "write" /\ gen[g] \in GenRow /\ GenFits(g) /\ built \in Content
      /\ built # NoFile
      /\ disk' = [disk EXCEPT ![f] = built]
  BY DEF ReportInv, WriteArtifact, FileAfter, AtStep, ReportsTyped, GenFits, GenRow
<1>2. /\ r \in GenRow /\ r.at = "write" /\ r.built = built /\ r.alone = gen[g].alone
      /\ r.wrote = gen[g].wrote \cup {f}
  BY <1>1 DEF GenRow
<1>3. gen' = [gen EXCEPT ![g] = r]
  BY <1>1 DEF WriteArtifact, ReportsTyped
<1> HIDE DEF r, built
<1>4. /\ gen' \in [Generators -> GenRow] /\ gen'[g] = r
      /\ \A q \in Generators \ {g} : gen'[q] = gen[q]
      /\ disk' \in [Formats -> Content] /\ disk'[f] = built
      /\ \A h \in Formats \ {f} : disk'[h] = disk[h]
      /\ built = gen[g].built
  BY <1>1, <1>2, <1>3 DEF ReportsTyped, built
<1>5. ReportsTyped' /\ Busy' = Busy
  BY <1>1, <1>2, <1>4 DEF ReportsTyped, Busy
<1>6. \A h \in Formats : disk[h] # NoFile => disk'[h] # NoFile
  BY <1>1, <1>4
<1>7. \A q \in Generators : gen[q].wrote \subseteq Formats
  BY <1>1 DEF ReportsTyped, GenRow
<1>8. \A q \in Generators : GenFits(q)'
  <2>1. GenFits(g)'
    BY <1>1, <1>2, <1>4, <1>6, <1>7 DEF GenFits, Stored
  <2>2. ASSUME NEW q \in Generators \ {g} PROVE GenFits(q)'
    BY <1>1, <1>4, <1>6, <1>7 DEF ReportInv, GenFits, Stored
  <2> QED BY <2>1, <2>2
<1>9. \A q \in Generators : AloneHas(q)'
  <2>1. AloneHas(g)'
    <3>1. SUFFICES ASSUME gen'[g].alone
                   PROVE  Busy' = {g} /\ \A h \in gen'[g].wrote : disk'[h] = gen'[g].built
      BY DEF AloneHas
    <3>2. Busy = {g} /\ \A h \in gen[g].wrote : disk[h] = built
      BY <1>1, <1>2, <1>4, <3>1 DEF ReportInv, AloneHas
    <3>3. ASSUME NEW h \in gen[g].wrote \cup {f} PROVE disk'[h] = built
      <4>1. CASE h = f
        BY <1>4, <4>1
      <4>2. CASE h # f
        BY <1>4, <1>7, <3>2, <4>2
      <4> QED BY <4>1, <4>2
    <3> QED BY <1>2, <1>4, <1>5, <3>2, <3>3
  <2>2. ASSUME NEW q \in Generators \ {g} PROVE AloneHas(q)'
    <3>1. g \in Busy
      BY <1>1 DEF Busy
    <3> QED BY <1>4, <1>5, <3>1 DEF ReportInv, AloneHas
  <2> QED BY <2>1, <2>2
<1>10. FilesFollow' /\ CitedIsListed'
  <2>1. \A q \in Generators : gen[q].wrote \subseteq gen'[q].wrote
    BY <1>2, <1>4
  <2>2. f \in gen'[g].wrote
    BY <1>2, <1>4
  <2> QED BY <1>1, <1>4, <1>6, <2>1, <2>2 DEF ReportInv, FilesFollow, CitedIsListed
<1> QED BY <1>5, <1>8, <1>9, <1>10 DEF ReportInv

(* A session that leaves lets go of its files; nobody who is alone is left *)
(* behind.                                                                 *)
LEMMA LeavingKeepsGens ==
  ASSUME ReportInv, NEW g \in Generators, gen[g].at # "idle", Leave(g),
         UNCHANGED <<collected, hasTarget, disk>>
  PROVE  /\ gen' \in [Generators -> GenRow]
         /\ \A q \in Generators : GenFits(q)' /\ AloneHas(q)'
         /\ \A q \in Generators \ {g} : gen'[q].wrote = gen[q].wrote
<1>1. IdleGen \in GenRow /\ IdleGen.at = "idle" /\ IdleGen.wrote = {}
  BY DEF IdleGen, GenRow, Content, Empty
<1>2. /\ gen' \in [Generators -> GenRow] /\ gen'[g] = IdleGen
      /\ \A q \in Generators \ {g} : gen'[q] = gen[q]
  BY <1>1 DEF Leave, ReportInv, ReportsTyped
<1>3. \A q \in Generators : GenFits(q)'
  BY <1>1, <1>2 DEF ReportInv, GenFits, Stored
<1>4. ASSUME NEW q \in Generators PROVE AloneHas(q)'
  <2>1. CASE q = g
    BY <1>1, <1>2, <2>1 DEF AloneHas
  <2>2. CASE q # g
    BY <1>2, <2>2 DEF ReportInv, AloneHas, Busy
  <2> QED BY <2>1, <2>2
<1> QED BY <1>2, <1>3, <1>4

LEMMA CommitKeepsReports ==
  ASSUME ReportInv, NEW g \in Generators, CommitReport(g)
  PROVE  ReportInv'
<1>1. /\ UNCHANGED <<collected, hasTarget, disk>> /\ ReportsTyped
      /\ gen[g].at \in {"write", "failed"} /\ gen[g] \in GenRow
      /\ GenFits(g) /\ AloneHas(g) /\ torn' = ~gen[g].alone
  BY DEF ReportInv, CommitReport, AtStep, ReportsTyped
<1>2. /\ gen' \in [Generators -> GenRow]
      /\ \A q \in Generators : GenFits(q)' /\ AloneHas(q)'
  BY <1>1, LeavingKeepsGens DEF CommitReport
<1>3. gen[g].alone \in BOOLEAN /\ gen[g].built \in Content
  BY <1>1 DEF GenRow
<1>4. ReportsTyped' /\ FilesFollow' /\ CitedIsListed'
  <2>1. CASE /\ gen[g].at = "write" /\ gen[g].wrote = Formats
             /\ report' = [status |-> "COMPLETED", content |-> gen[g].built,
                           artifacts |-> Formats]
    <3>1. ReportsTyped'
      BY <1>1, <1>2, <1>3, <2>1 DEF ReportsTyped
    <3>2. \A f \in Formats : disk'[f] # NoFile /\ (torn' \/ disk'[f] = report'.content)
      BY <1>1, <1>3, <2>1 DEF GenFits, AloneHas
    <3>3. hasTarget' /\ CitedIsListed'
      BY <1>1, <2>1 DEF GenFits, CitedIsListed
    <3> QED BY <3>1, <3>2, <3>3 DEF FilesFollow
  <2>2. CASE gen[g].at = "failed" /\ report' = [report EXCEPT !.status = "FAILED"]
    BY <1>1, <1>2, <1>3, <2>2 DEF ReportInv, ReportsTyped, FilesFollow, CitedIsListed
  <2> QED BY <2>1, <2>2 DEF CommitReport, AtStep
<1> QED BY <1>2, <1>4 DEF ReportInv

LEMMA LossKeepsReports ==
  ASSUME ReportInv, NEW g \in Generators, LoseReport(g)
  PROVE  ReportInv'
<1>1. /\ UNCHANGED <<collected, hasTarget, report, disk>> /\ ReportsTyped
      /\ gen[g].at # "idle" /\ torn' = (torn \/ gen[g].wrote # {})
  BY DEF ReportInv, LoseReport, AtStep
<1>2. /\ gen' \in [Generators -> GenRow]
      /\ \A q \in Generators : GenFits(q)' /\ AloneHas(q)'
      /\ \A q \in Generators \ {g} : gen'[q].wrote = gen[q].wrote
  BY <1>1, LeavingKeepsGens DEF LoseReport
<1>3. torn \in BOOLEAN
  BY <1>1 DEF ReportsTyped
<1>4. ReportsTyped' /\ CitedIsListed'
  BY <1>1, <1>2, <1>3 DEF ReportInv, ReportsTyped, CitedIsListed
<1>5. FilesFollow'
  <2>1. CASE gen[g].wrote = {}
    <3>1. torn' = torn
      BY <1>1, <1>3, <2>1
    <3> QED BY <1>1, <1>2, <2>1, <3>1 DEF ReportInv, FilesFollow
  <2>2. CASE gen[g].wrote # {}
    BY <1>1, <2>2 DEF ReportInv, FilesFollow
  <2> QED BY <2>1, <2>2
<1> QED BY <1>2, <1>4, <1>5 DEF ReportInv

LEMMA ReportsInitially == ReportsInit => ReportInv
<1> SUFFICES ASSUME ReportsInit PROVE ReportInv
  OBVIOUS
<1>1. NoFile \in Content /\ IdleGen \in GenRow /\ IdleGen.at = "idle" /\ IdleGen.wrote = {}
  BY DEF NoFile, Content, IdleGen, GenRow, Empty
<1>2. ReportsTyped
  <2>1. collected \in [Resolution -> 0..MaxEvidence]
    BY ReportsAssumption DEF ReportsInit
  <2>2. report \in [status : {"none", "PENDING", "COMPLETED", "FAILED"}, content : Content,
                    artifacts : SUBSET Formats]
    BY <1>1 DEF ReportsInit, NoReportRow
  <2>3. gen \in [Generators -> GenRow] /\ disk \in [Formats -> Content]
        /\ hasTarget \in BOOLEAN /\ torn \in BOOLEAN
    BY <1>1 DEF ReportsInit
  <2> QED BY <2>1, <2>2, <2>3 DEF ReportsTyped
<1>3. \A g \in Generators : GenFits(g) /\ AloneHas(g)
  BY <1>1 DEF ReportsInit, GenFits, AloneHas
<1>4. FilesFollow /\ CitedIsListed
  BY DEF ReportsInit, NoReportRow, NoFile, FilesFollow, CitedIsListed
<1> QED BY <1>2, <1>3, <1>4 DEF ReportInv

LEMMA ReportStepKeeps ==
  ASSUME ReportInv, [ReportsNext]_reportVars
  PROVE  ReportInv'
<1>1. CASE UNCHANGED reportVars
  BY <1>1 DEF reportVars, ReportInv, ReportsTyped, GenFits, AloneHas, Busy, Stored, FilesFollow,
              CitedIsListed
<1>2. CASE ReportsNext
  BY <1>2, RequestsKeepReports, GenerateKeepsReports, BuildingKeepsReports,
     WritingKeepsReports, CommitKeepsReports, LossKeepsReports DEF ReportsNext
<1> QED BY <1>1, <1>2

(* A completed report is one piece, however many attempts failed or ran at *)
(* the same time, for any cap on the evidence listed and any number of     *)
(* sessions: its files are there and, unless an attempt was lost or        *)
(* overlapped, hold what the row does; and as long as all evidence fits,   *)
(* it lists what its claims cite (generate_report, ReportBuilder.build).   *)
THEOREM ReportsAreWhole == ServicesSpec => []ReportWhole
<1>1. ServicesInit => ReportInv
  BY ReportsInitially DEF ServicesInit
<1>2. ReportInv /\ [ServicesNext]_servicesVars => ReportInv'
  BY ServicesStep, ReportStepKeeps
<1>3. ReportInv => ReportWhole
  <2> SUFFICES ASSUME ReportInv PROVE DownloadsAgree /\ CitedIsListed
    BY DEF ReportWhole
  <2>1. \A g \in Generators : gen[g].wrote # {} => g \in Busy
    BY DEF ReportInv, GenFits, Busy
  <2> QED
    BY <2>1 DEF ReportInv, FilesFollow, DownloadsAgree, Served
<1> QED BY <1>1, <1>2, <1>3, PTL DEF ServicesSpec
-----------------------------------------------------------------------------
(* Timelines                                                               *)

RowKinds == {"evidence", "relationship", "message", "account"}

(* Only messages may lack a time, and messages are the channel's.          *)
RowFits(r) ==
    /\ r.kind \in RowKinds /\ r.of \subseteq TimelineEntities
    /\ r.when \in Times \/ (r.when = NoTime /\ r.kind = "message")
    /\ r.kind = "message" => r.of = {"channel"}
    /\ r.kind = "account" => r.of = {"external"}

(* A chat with a message also has evidence or a relationship.              *)
MessagesBelong(S) ==
    \A r \in S : r.kind = "message" =>
        \E o \in S : o.kind \in {"evidence", "relationship"} /\ "channel" \in o.of

LedgerFits ==
    /\ IsFiniteSet(ledger) /\ \A r \in ledger : RowFits(r)
    /\ MessagesBelong(ledger)

BuildFits ==
    /\ asked \subseteq ledger /\ MessagesBelong(asked)
    /\ build \in [at : {"idle", "select", "done"}, entities : SUBSET TimelineEntities,
                  todo : Seq(RowKinds \X TimelineEntities),
                  events : SUBSET (ledger \X TimelineEntities), truncated : BOOLEAN]
    /\ \A x \in build.events : x[1].when \in Times

(* The select of the rows of a kind is still to come.                      *)
Pending(kind, e) == \E i \in DOMAIN build.todo : build.todo[i] = <<kind, e>>

(* As many messages as a timeline may have are as old as this one.         *)
CutBy(r) ==
    \E M \in SUBSET build.events :
        /\ Cardinality(M) = MaxEvents
        /\ \A x \in M : x[1].kind = "message" /\ x[1].when <= r.when

(* What has been selected is there, or was cut from the messages.          *)
Selected ==
    build.at = "select" =>
        \A e \in build.entities : \A r \in asked :
            e \in r.of /\ r.when # NoTime /\ ~Pending(r.kind, e) =>
                <<r, e>> \in build.events \/ (r.kind = "message" /\ CutBy(r))

TimelineInv == LedgerFits /\ BuildFits /\ Selected /\ TimelineHonest

(* Every kind of row an entity has is selected for it.                     *)
LEMMA SelectsAll ==
  ASSUME NEW entities \in SUBSET TimelineEntities
  PROVE  /\ Selects(entities) \in Seq(RowKinds \X TimelineEntities)
         /\ \A e \in entities, kind \in RowKinds :
               /\ kind = "message" => e = "channel"
               /\ kind = "account" => e = "external"
               => \E i \in DOMAIN Selects(entities) : Selects(entities)[i] = <<kind, e>>
<1> DEFINE Q == RowKinds \X TimelineEntities
           base(e) == <<<<"evidence", e>>, <<"relationship", e>>>>
           of(e) == IF e \notin entities THEN <<>>
                    ELSE base(e) \o (IF e = "channel" THEN <<<<"message", e>>>> ELSE <<>>)
                         \o (IF e = "external" THEN <<<<"account", e>>>> ELSE <<>>)
           Has(s, x) == \E i \in DOMAIN s : s[i] = x
<1>1. ASSUME NEW s \in Seq(Q), NEW t \in Seq(Q)
      PROVE  /\ s \o t \in Seq(Q)
             /\ \A x : Has(s, x) \/ Has(t, x) => Has(s \o t, x)
  <2>1. /\ s \o t \in Seq(Q) /\ Len(s \o t) = Len(s) + Len(t)
        /\ \A i \in 1..Len(s) : (s \o t)[i] = s[i]
        /\ \A i \in 1..Len(t) : (s \o t)[Len(s) + i] = t[i]
    OBVIOUS
  <2>2. ASSUME NEW x, Has(s, x) PROVE Has(s \o t, x)
    <3>1. PICK i \in 1..Len(s) : s[i] = x
      BY <2>2
    <3>2. i \in 1..Len(s \o t) /\ (s \o t)[i] = x
      BY <2>1, <3>1
    <3> QED BY <2>1, <3>2
  <2>3. ASSUME NEW x, Has(t, x) PROVE Has(s \o t, x)
    <3>1. PICK i \in 1..Len(t) : t[i] = x
      BY <2>3
    <3>2. Len(s) + i \in 1..Len(s \o t) /\ (s \o t)[Len(s) + i] = x
      BY <2>1, <3>1
    <3> QED BY <2>1, <3>2
  <2> QED BY <2>1, <2>2, <2>3
<1>2. ASSUME NEW e \in TimelineEntities
      PROVE  /\ of(e) \in Seq(Q)
             /\ e \in entities => /\ Has(of(e), <<"evidence", e>>) /\ Has(of(e), <<"relationship", e>>)
                                  /\ e = "channel" => Has(of(e), <<"message", e>>)
                                  /\ e = "external" => Has(of(e), <<"account", e>>)
  <2> DEFINE messages == IF e = "channel" THEN <<<<"message", e>>>> ELSE <<>>
             accounts == IF e = "external" THEN <<<<"account", e>>>> ELSE <<>>
  <2>1. base(e) \in Seq(Q) /\ Has(base(e), <<"evidence", e>>) /\ Has(base(e), <<"relationship", e>>)
    <3>1. base(e) \in Seq(Q) /\ DOMAIN base(e) = 1..2
      BY DEF RowKinds
    <3>2. base(e)[1] = <<"evidence", e>> /\ base(e)[2] = <<"relationship", e>>
      OBVIOUS
    <3> QED BY <3>1, <3>2
  <2>2. messages \in Seq(Q) /\ (e = "channel" => Has(messages, <<"message", e>>))
    BY DEF RowKinds
  <2>3. accounts \in Seq(Q) /\ (e = "external" => Has(accounts, <<"account", e>>))
    BY DEF RowKinds
  <2>4. of(e) = IF e \notin entities THEN <<>> ELSE base(e) \o messages \o accounts
    OBVIOUS
  <2> HIDE DEF base, of, messages, accounts, Has, Q
  <2>5. /\ base(e) \o messages \in Seq(Q)
        /\ \A x : Has(base(e), x) \/ Has(messages, x) => Has(base(e) \o messages, x)
    BY <1>1, <2>1, <2>2
  <2>6. /\ base(e) \o messages \o accounts \in Seq(Q)
        /\ \A x : Has(base(e) \o messages, x) \/ Has(accounts, x)
                     => Has(base(e) \o messages \o accounts, x)
    BY <1>1, <2>3, <2>5
  <2> QED BY <2>1, <2>2, <2>3, <2>4, <2>5, <2>6
<1>3. Selects(entities) = of("target") \o of("channel") \o of("external")
  BY DEF Selects
<1>4. {"target", "channel", "external"} = TimelineEntities
  BY DEF TimelineEntities
<1> HIDE DEF of, base, Has, Q
<1>5. /\ of("target") \o of("channel") \in Seq(Q)
      /\ \A x : Has(of("target"), x) \/ Has(of("channel"), x) => Has(of("target") \o of("channel"), x)
  BY <1>1, <1>2, <1>4
<1>6. /\ Selects(entities) \in Seq(Q)
      /\ \A x : Has(of("target") \o of("channel"), x) \/ Has(of("external"), x)
                   => Has(Selects(entities), x)
  BY <1>1, <1>2, <1>3, <1>4, <1>5
<1>7. \A e \in entities : \A x : Has(of(e), x) => Has(Selects(entities), x)
  BY <1>4, <1>5, <1>6
<1>8. \A e \in entities, kind \in RowKinds :
         /\ kind = "message" => e = "channel"
         /\ kind = "account" => e = "external"
         => Has(Selects(entities), <<kind, e>>)
  BY <1>2, <1>7 DEF RowKinds
<1> QED BY <1>6, <1>8 DEF Has, Q

LEMMA TimelineInitially == TimelineInit => TimelineInv
<1> SUFFICES ASSUME TimelineInit PROVE TimelineInv
  OBVIOUS
<1> DEFINE account == DatedRow("account", {"external"}, MaxWhen, 0)
<1>1. account.kind = "account" /\ account.of = {"external"} /\ account.when = MaxWhen
  BY DEF DatedRow
<1>2. RowFits(account)
  BY <1>1, TimelineAssumption DEF RowFits, RowKinds, TimelineEntities, Times
<1>3. ledger = {account} /\ asked = {} /\ build = NewBuild("idle", {})
  BY DEF TimelineInit
<1> HIDE DEF account
<1>4. LedgerFits
  BY <1>1, <1>2, <1>3, FS_Singleton DEF LedgerFits, MessagesBelong
<1>5. BuildFits
  BY <1>3 DEF BuildFits, NewBuild, MessagesBelong
<1>6. Selected /\ TimelineHonest
  BY <1>3 DEF Selected, TimelineHonest, NewBuild
<1> QED BY <1>4, <1>5, <1>6 DEF TimelineInv

(* What other sessions commit does not change what was asked for, nor what *)
(* has been selected.                                                      *)
LEMMA CommitsKeepTimeline ==
  ASSUME TimelineInv, CommitEvidence \/ CommitLink \/ CommitMessage \/ CommitStray
  PROVE  TimelineInv'
<1>1. UNCHANGED <<asked, build>>
  BY DEF CommitEvidence, CommitLink, CommitMessage, CommitStray, CommitRows
<1>2. ASSUME NEW kind \in RowKinds, NEW of \in SUBSET TimelineEntities,
             NEW when, when \in Times \/ (when = NoTime /\ kind = "message"),
             kind = "message" => of = {"channel"}, kind # "account"
      PROVE  /\ RowFits(NewDatedRow(kind, of, when))
             /\ NewDatedRow(kind, of, when).kind = kind /\ NewDatedRow(kind, of, when).of = of
  BY <1>2 DEF NewDatedRow, DatedRow, RowFits
<1> DEFINE Adds(S) == /\ IsFiniteSet(S) /\ \A r \in S : RowFits(r)
                      /\ ledger' = ledger \cup S
                      /\ (\E r \in S : r.kind = "message") =>
                            \E o \in ledger \cup S :
                               o.kind \in {"evidence", "relationship"} /\ "channel" \in o.of
<1>3. \E S : Adds(S)
  <2>1. CASE CommitEvidence
    <3>1. PICK e \in TimelineEntities, when \in Times :
             CommitRows({NewDatedRow("evidence", {e}, when)})
      BY <2>1 DEF CommitEvidence
    <3> DEFINE new == NewDatedRow("evidence", {e}, when)
    <3>2. RowFits(new) /\ new.kind = "evidence"
      BY <1>2 DEF RowKinds
    <3>3. ledger' = ledger \cup {new}
      BY <3>1 DEF CommitRows
    <3> HIDE DEF new
    <3>5. Adds({new})
      BY <3>2, <3>3, FS_Singleton
    <3> QED BY <3>5
  <2>2. CASE CommitLink
    <3>1. PICK e \in {"channel", "external"}, when \in Times :
             CommitRows({NewDatedRow("relationship", {"target", e}, when)})
      BY <2>2 DEF CommitLink
    <3> DEFINE new == NewDatedRow("relationship", {"target", e}, when)
    <3>2. RowFits(new) /\ new.kind = "relationship"
      BY <1>2 DEF RowKinds, TimelineEntities
    <3>3. ledger' = ledger \cup {new}
      BY <3>1 DEF CommitRows
    <3> HIDE DEF new
    <3>5. Adds({new})
      BY <3>2, <3>3, FS_Singleton
    <3> QED BY <3>5
  <2>3. CASE CommitMessage
    <3>1. PICK posted \in Times \cup {NoTime}, when \in Times :
             CommitRows({NewDatedRow("message", {"channel"}, posted),
                         NewDatedRow("relationship", {"channel"}, when)})
      BY <2>3 DEF CommitMessage
    <3> DEFINE message == NewDatedRow("message", {"channel"}, posted)
               edge == NewDatedRow("relationship", {"channel"}, when)
    <3>2. /\ RowFits(message) /\ RowFits(edge)
          /\ edge.kind = "relationship" /\ edge.of = {"channel"}
      BY <1>2 DEF RowKinds, TimelineEntities
    <3>3. ledger' = ledger \cup {message, edge}
      BY <3>1 DEF CommitRows
    <3> HIDE DEF message, edge
    <3>4. IsFiniteSet({message, edge})
      <4>1. IsFiniteSet({message} \cup {edge})
        BY FS_Singleton, FS_AddElement
      <4>2. {message} \cup {edge} = {message, edge}
        OBVIOUS
      <4> QED BY <4>1, <4>2
    <3>5. Adds({message, edge})
      BY <3>2, <3>3, <3>4
    <3> QED BY <3>5
  <2>4. CASE CommitStray
    <3>1. PICK posted \in Times \cup {NoTime} :
             CommitRows({NewDatedRow("message", {"channel"}, posted)})
      BY <2>4 DEF CommitStray
    <3> DEFINE new == NewDatedRow("message", {"channel"}, posted)
    <3>2. RowFits(new)
      BY <1>2 DEF RowKinds, TimelineEntities
    <3>3. ledger' = ledger \cup {new}
      BY <3>1 DEF CommitRows
    <3>4. \E o \in ledger : o.kind \in {"evidence", "relationship"} /\ "channel" \in o.of
      BY <2>4 DEF CommitStray, RowsOf
    <3> HIDE DEF new
    <3>5. Adds({new})
      BY <3>2, <3>3, <3>4, FS_Singleton
    <3> QED BY <3>5
  <2> HIDE DEF Adds
  <2> QED BY <2>1, <2>2, <2>3, <2>4
<1>4. LedgerFits' /\ ledger \subseteq ledger'
  <2>1. PICK S : Adds(S)
    BY <1>3
  <2>2. IsFiniteSet(ledger')
    BY <2>1, FS_Union DEF TimelineInv, LedgerFits
  <2>3. MessagesBelong(ledger')
    BY <2>1 DEF TimelineInv, LedgerFits, MessagesBelong
  <2> QED BY <2>1, <2>2, <2>3 DEF TimelineInv, LedgerFits, RowFits
<1>5. BuildFits'
  BY <1>1, <1>4 DEF TimelineInv, BuildFits
<1>6. Selected' /\ TimelineHonest'
  BY <1>1 DEF TimelineInv, Selected, Pending, CutBy, TimelineHonest, Due
<1> QED BY <1>4, <1>5, <1>6 DEF TimelineInv

(* A timeline begins with every select it needs.                           *)
LEMMA AskingKeepsTimeline ==
  ASSUME TimelineInv, NEW entities \in SUBSET TimelineEntities, AskTimeline(entities)
  PROVE  TimelineInv'
<1>1. /\ ledger' = ledger /\ asked' = ledger /\ LedgerFits
      /\ build' = [NewBuild("select", entities) EXCEPT !.todo = Selects(entities)]
  BY DEF AskTimeline, TimelineInv
<1>2. /\ build'.at = "select" /\ build'.entities = entities /\ build'.todo = Selects(entities)
      /\ build'.events = {}
  BY <1>1 DEF NewBuild
<1>3. BuildFits'
  BY <1>1, SelectsAll DEF BuildFits, LedgerFits, NewBuild
<1>4. ASSUME NEW e \in entities, NEW r \in ledger, e \in r.of PROVE Pending(r.kind, e)'
  <2>1. /\ r.kind \in RowKinds
        /\ r.kind = "message" => e = "channel"
        /\ r.kind = "account" => e = "external"
    BY <1>1, <1>4 DEF LedgerFits, RowFits
  <2> QED BY <1>2, <2>1, SelectsAll DEF Pending
<1>5. Selected' /\ TimelineHonest'
  BY <1>1, <1>2, <1>4 DEF Selected, TimelineHonest
<1> QED BY <1>1, <1>3, <1>5 DEF TimelineInv, LedgerFits

(* What one select adds: the rows of an entity, or as many of its earliest *)
(* messages as a timeline may have.                                        *)
LEMMA SelectFinds ==
  ASSUME LedgerFits, NEW kind \in RowKinds, NEW e \in TimelineEntities,
         NEW found \in IF kind = "message" THEN MessageEvents(e) ELSE {RowEvents(kind, e)}
  PROVE  /\ found \subseteq RowsOf(kind, e) \X {e}
         /\ \A x \in found : x[1].when \in Times
         /\ \A r \in RowsOf(kind, e) :
               r.when # NoTime /\ <<r, e>> \notin found =>
                  kind = "message" /\ Cardinality(found) = MaxEvents
                                   /\ \A x \in found : x[1].when <= r.when
<1>1. CASE kind # "message"
  <2>1. found = RowsOf(kind, e) \X {e}
    BY <1>1 DEF RowEvents
  <2>2. \A r \in RowsOf(kind, e) : r.when \in Times
    BY <1>1 DEF LedgerFits, RowFits, RowsOf
  <2> QED BY <2>1, <2>2
<1>2. CASE kind = "message"
  <2> DEFINE dated == {r \in RowsOf("message", e) : r.when # NoTime}
  <2>1. PICK S \in SUBSET dated :
           /\ found = S \X {e}
           /\ Cardinality(S) = IF Cardinality(dated) > MaxEvents THEN MaxEvents
                               ELSE Cardinality(dated)
           /\ \A r \in S, o \in dated \ S : r.when <= o.when
    <3>1. found \in MessageEvents(e)
      BY <1>2
    <3> QED BY <3>1 DEF MessageEvents
  <2>2. \A r \in dated : r.when \in Times
    BY DEF LedgerFits, RowFits, RowsOf
  <2>3. IsFiniteSet(dated) /\ IsFiniteSet(S)
    BY FS_Subset DEF LedgerFits, RowsOf
  <2>4. S # dated => Cardinality(S) = MaxEvents
    <3> HIDE DEF dated
    <3> QED BY <2>1, <2>3, FS_Subset
  <2>5. Cardinality(found) = Cardinality(S)
    <3>1. Cardinality(S \X {e}) = Cardinality(S) * Cardinality({e}) /\ Cardinality({e}) = 1
      BY <2>3, FS_Product, FS_Singleton
    <3>2. Cardinality(S) \in Nat
      BY <2>3, FS_CardinalityType
    <3> QED BY <2>1, <3>1, <3>2
  <2>6. ASSUME NEW r \in RowsOf(kind, e), r.when # NoTime, <<r, e>> \notin found
        PROVE  Cardinality(found) = MaxEvents /\ \A x \in found : x[1].when <= r.when
    <3>1. r \in dated \ S
      BY <1>2, <2>1, <2>6
    <3> QED BY <2>1, <2>4, <2>5, <3>1
  <2> HIDE DEF dated
  <2>7. \A x \in found : x[1] \in S /\ x[2] = e /\ x = <<x[1], x[2]>>
    BY <2>1
  <2>8. S \subseteq RowsOf(kind, e)
    BY <1>2 DEF dated
  <2> QED BY <1>2, <2>1, <2>2, <2>6, <2>7, <2>8
<1> QED BY <1>1, <1>2

LEMMA SelectKeepsTimeline ==
  ASSUME TimelineInv, Select
  PROVE  TimelineInv'
<1> DEFINE kind == Head(build.todo)[1]
           e == Head(build.todo)[2]
<1>1. /\ UNCHANGED <<ledger, asked>> /\ LedgerFits /\ BuildFits
      /\ build.at = "select" /\ build.todo # <<>>
  BY DEF Select, TimelineInv
<1>2. PICK found \in IF kind = "message" THEN MessageEvents(e) ELSE {RowEvents(kind, e)} :
         build' = [build EXCEPT !.todo = Tail(@), !.events = @ \cup found]
  BY DEF Select
<1>3. /\ kind \in RowKinds /\ e \in TimelineEntities /\ build.todo[1] = <<kind, e>>
      /\ build.todo \in Seq(RowKinds \X TimelineEntities)
      /\ Tail(build.todo) \in Seq(RowKinds \X TimelineEntities)
      /\ build.events \subseteq ledger \X TimelineEntities
      /\ build.entities \subseteq TimelineEntities
  BY <1>1 DEF BuildFits
<1> HIDE DEF kind, e
<1>4. /\ found \subseteq RowsOf(kind, e) \X {e}
      /\ \A x \in found : x[1].when \in Times
      /\ \A r \in RowsOf(kind, e) :
            r.when # NoTime /\ <<r, e>> \notin found =>
               kind = "message" /\ Cardinality(found) = MaxEvents
                                /\ \A x \in found : x[1].when <= r.when
  BY <1>1, <1>2, <1>3, SelectFinds
<1>5. /\ build'.at = "select" /\ build'.entities = build.entities
      /\ build'.todo = Tail(build.todo) /\ build'.events = build.events \cup found
  BY <1>1, <1>2 DEF BuildFits
<1>6. found \subseteq ledger \X TimelineEntities
  BY <1>3, <1>4 DEF RowsOf
<1>7. BuildFits'
  BY <1>1, <1>2, <1>3, <1>4, <1>6 DEF BuildFits
<1>8. ASSUME NEW k, NEW d, Pending(k, d), ~Pending(k, d)' PROVE k = kind /\ d = e
  <2>1. PICK i \in 1..Len(build.todo) : build.todo[i] = <<k, d>>
    <3>1. DOMAIN build.todo = 1..Len(build.todo)
      BY <1>3
    <3> QED BY <1>8, <3>1 DEF Pending
  <2>2. CASE i = 1
    BY <1>3, <2>1, <2>2
  <2>3. CASE i # 1
    <3>1. i - 1 \in 1..Len(Tail(build.todo)) /\ Tail(build.todo)[i - 1] = <<k, d>>
      BY <1>1, <1>3, <2>1, <2>3
    <3>2. DOMAIN Tail(build.todo) = 1..Len(Tail(build.todo))
      BY <1>3
    <3>3. \E l \in DOMAIN Tail(build.todo) : Tail(build.todo)[l] = <<k, d>>
      BY <3>1, <3>2
    <3>4. Pending(k, d)'
      BY <1>5, <3>3 DEF Pending
    <3> QED BY <1>8, <3>4
  <2> QED BY <2>2, <2>3
<1>9. ASSUME NEW d \in build.entities, NEW r \in asked, d \in r.of, r.when # NoTime,
             ~Pending(r.kind, d)'
      PROVE  <<r, d>> \in build'.events \/ (r.kind = "message" /\ CutBy(r)')
  <2>1. CASE ~Pending(r.kind, d)
    <3>1. <<r, d>> \in build.events \/ (r.kind = "message" /\ CutBy(r))
      BY <1>1, <1>9, <2>1 DEF TimelineInv, Selected
    <3>2. CutBy(r) => CutBy(r)'
      BY <1>5 DEF CutBy
    <3> QED BY <1>5, <3>1, <3>2
  <2>2. CASE Pending(r.kind, d)
    <3>1. r.kind = kind /\ d = e
      BY <1>8, <1>9, <2>2
    <3>2. r \in RowsOf(kind, e)
      BY <1>1, <1>9, <3>1 DEF BuildFits, RowsOf
    <3>3. CASE <<r, e>> \in found
      BY <1>5, <3>1, <3>3
    <3>4. CASE <<r, e>> \notin found
      <4>1. /\ kind = "message" /\ Cardinality(found) = MaxEvents
            /\ \A x \in found : x[1].when <= r.when
        BY <1>4, <1>9, <3>2, <3>4
      <4>2. \A x \in found : x[1].kind = "message"
        BY <1>4, <4>1 DEF RowsOf
      <4>3. found \subseteq build'.events
        BY <1>5
      <4> QED BY <3>1, <4>1, <4>2, <4>3 DEF CutBy
    <3> QED BY <3>3, <3>4
  <2> QED BY <2>1, <2>2
<1>10. Selected' /\ TimelineHonest'
  BY <1>1, <1>5, <1>9 DEF Selected, TimelineHonest
<1> QED BY <1>1, <1>7, <1>10 DEF TimelineInv, LedgerFits

(* What a timeline leaves out when it is cut is no older than what it      *)
(* shows.                                                                  *)
LEMMA CutIsHonest ==
  ASSUME TimelineInv, build.at = "select", build.todo = <<>>,
         NEW S \in Cut(build.events), NEW r \in asked, Due(r),
         \A x \in S : x[1] # r
  PROVE  Cardinality(build.events) > MaxEvents /\ \A x \in S : x[1].when <= r.when
<1> DEFINE events == build.events
<1>1. /\ LedgerFits /\ BuildFits /\ MaxEvents \in Nat \ {0}
      /\ S \subseteq events
      /\ Cardinality(S) = IF Cardinality(events) > MaxEvents THEN MaxEvents
                          ELSE Cardinality(events)
      /\ \A x \in S, y \in events \ S : x[1].when <= y[1].when
  BY TimelineAssumption DEF TimelineInv, Cut
<1>2. /\ IsFiniteSet(events) /\ IsFiniteSet(S)
      /\ Cardinality(events) \in Nat /\ Cardinality(S) \in Nat
  <2>1. IsFiniteSet(TimelineEntities)
    <3>1. IsFiniteSet({"target"} \cup {"channel"} \cup {"external"})
      BY FS_Singleton, FS_AddElement
    <3>2. TimelineEntities = {"target"} \cup {"channel"} \cup {"external"}
      BY DEF TimelineEntities
    <3> QED BY <3>1, <3>2
  <2>2. IsFiniteSet(ledger \X TimelineEntities)
    BY <1>1, <2>1, FS_Product DEF LedgerFits
  <2>3. events \subseteq ledger \X TimelineEntities
    BY <1>1 DEF BuildFits
  <2> HIDE DEF events
  <2> QED BY <1>1, <2>2, <2>3, FS_Subset, FS_CardinalityType
<1>3. /\ r \in ledger /\ RowFits(r) /\ r.when \in Nat
      /\ \A x \in events : x[1].when \in Nat
  BY <1>1, TimelineAssumption DEF LedgerFits, BuildFits, RowFits, Due, Times
<1>4. PICK e \in build.entities : e \in r.of
  BY DEF Due
<1>5. <<r, e>> \in events \/ (r.kind = "message" /\ CutBy(r))
  BY <1>4 DEF TimelineInv, Selected, Pending, Due
<1>6. S # events => Cardinality(events) > MaxEvents
  <2> HIDE DEF events
  <2> QED BY <1>1, <1>2, FS_Subset
<1>7. CASE <<r, e>> \in events
  <2>1. <<r, e>> \in events \ S
    BY <1>7
  <2>2. \A x \in S : x[1].when <= r.when
    BY <1>1, <2>1
  <2> QED BY <1>6, <2>1, <2>2
<1>8. CASE r.kind = "message" /\ CutBy(r)
  <2>1. PICK M \in SUBSET events :
           /\ Cardinality(M) = MaxEvents
           /\ \A x \in M : x[1].kind = "message" /\ x[1].when <= r.when
    BY <1>8 DEF CutBy
  <2>2. e = "channel"
    BY <1>3, <1>4, <1>8 DEF RowFits
  <2>3. PICK o \in asked : o.kind \in {"evidence", "relationship"} /\ "channel" \in o.of
    BY <1>1, <1>8 DEF BuildFits, MessagesBelong
  <2>4. o.when # NoTime /\ o.kind # "message"
    BY <1>1, <2>3, TimelineAssumption DEF BuildFits, LedgerFits, RowFits, Times
  <2>5. <<o, e>> \in events
    BY <2>2, <2>3, <2>4 DEF TimelineInv, Selected, Pending
  <2>6. <<o, e>> \notin M
    BY <2>1, <2>4
  <2>7. IsFiniteSet(M)
    <3> HIDE DEF events
    <3> QED BY <1>2, FS_Subset
  <2>8. M \subseteq events /\ M # events
    BY <2>5, <2>6
  <2> HIDE DEF events
  <2>9. Cardinality(M) <= Cardinality(events) /\ Cardinality(M) # Cardinality(events)
    BY <1>2, <2>8, FS_Subset
  <2>10. Cardinality(events) > MaxEvents
    BY <1>1, <1>2, <2>1, <2>9
  <2>11. ASSUME NEW x \in S, ~(x[1].when <= r.when) PROVE FALSE
    <3>1. x[1].when \in Nat /\ x[1].when > r.when
      BY <1>1, <1>3, <2>11
    <3>2. M \subseteq S
      BY <1>1, <1>3, <2>1, <3>1
    <3>3. Cardinality(M) = Cardinality(S)
      BY <1>1, <2>1, <2>10
    <3>4. M = S
      BY <1>2, <3>2, <3>3, FS_Subset
    <3> QED BY <2>1, <2>11, <3>4
  <2> QED BY <2>10, <2>11 DEF events
<1> QED BY <1>5, <1>7, <1>8

LEMMA ReturnKeepsTimeline ==
  ASSUME TimelineInv, ReturnTimeline
  PROVE  TimelineInv'
<1>1. /\ UNCHANGED <<ledger, asked>> /\ LedgerFits /\ BuildFits
      /\ build.at = "select" /\ build.todo = <<>>
  BY DEF ReturnTimeline, TimelineInv
<1>2. PICK S \in Cut(build.events) :
         build' = [build EXCEPT !.at = "done", !.events = S,
                                !.truncated = Cardinality(build.events) > MaxEvents]
  BY DEF ReturnTimeline
<1>3. S \subseteq build.events
  BY DEF Cut
<1> DEFINE cut == Cardinality(build.events) > MaxEvents
<1>4. cut \in BOOLEAN
  OBVIOUS
<1>5. build' = [build EXCEPT !.at = "done", !.events = S, !.truncated = cut]
  BY <1>2
<1> HIDE DEF cut
<1>6. /\ build'.at = "done" /\ build'.events = S /\ build'.entities = build.entities
      /\ build'.truncated = cut
  BY <1>1, <1>5 DEF BuildFits
<1>7. BuildFits'
  BY <1>1, <1>3, <1>4, <1>5 DEF BuildFits
<1>8. Selected'
  BY <1>6 DEF Selected
<1>9. TimelineHonest'
  <2> SUFFICES ASSUME NEW r \in asked, Due(r)', \A x \in S : x[1] # r
               PROVE  cut /\ \A x \in S : x[1].when <= r.when
    BY <1>1, <1>6 DEF TimelineHonest
  <2>1. Due(r)
    BY <1>6 DEF Due
  <2> QED BY <1>1, <2>1, CutIsHonest DEF cut
<1> QED BY <1>1, <1>7, <1>8, <1>9 DEF TimelineInv, LedgerFits

LEMMA TimelineStepKeeps ==
  ASSUME TimelineInv, [TimelineNext]_timelineVars
  PROVE  TimelineInv'
<1>1. CASE UNCHANGED timelineVars
  <2>1. LedgerFits' /\ BuildFits'
    BY <1>1 DEF timelineVars, TimelineInv, LedgerFits, BuildFits
  <2>2. Selected'
    BY <1>1 DEF timelineVars, TimelineInv, Selected, Pending, CutBy
  <2>3. TimelineHonest'
    BY <1>1 DEF timelineVars, TimelineInv, TimelineHonest, Due
  <2> QED BY <2>1, <2>2, <2>3 DEF TimelineInv
<1>2. ASSUME NEW e \in TimelineEntities, AskTimeline({e}) PROVE TimelineInv'
  BY <1>2, AskingKeepsTimeline
<1>3. ASSUME ForTarget PROVE TimelineInv'
  <2>1. {"target"} \cup ResolvedTo \in SUBSET TimelineEntities
    BY DEF ResolvedTo, TimelineEntities
  <2> QED BY <1>3, <2>1, AskingKeepsTimeline DEF ForTarget
<1>4. CASE TimelineNext
  BY <1>2, <1>3, <1>4, CommitsKeepTimeline, SelectKeepsTimeline, ReturnKeepsTimeline
     DEF TimelineNext, ForEntity
<1> QED BY <1>1, <1>4

(* A timeline that does not say it is truncated has every dated row there  *)
(* was when it was asked for, and a truncated one leaves out none older    *)
(* than one it shows, although rows are committed between its selects and  *)
(* messages are cut before they are merged; for any limit, and any times   *)
(* (TimelineService._build).                                               *)
THEOREM TimelineIsHonest == ServicesSpec => []TimelineHonest
<1>1. ServicesInit => TimelineInv
  BY TimelineInitially DEF ServicesInit
<1>2. TimelineInv /\ [ServicesNext]_servicesVars => TimelineInv'
  BY ServicesStep, TimelineStepKeeps
<1>3. TimelineInv => TimelineHonest
  BY DEF TimelineInv
<1> QED BY <1>1, <1>2, <1>3, PTL DEF ServicesSpec
-----------------------------------------------------------------------------
(* An investigation                                                        *)

(* What the worker's transaction has written by the step it is at, and     *)
(* what it began with: an investigation that has nothing yet.              *)
HandlerFits ==
    /\ pc # "idle" => made /\ ~queued
    /\ ~made => inv = NoInv \/ inv = SetStatus(NoInv, "QUEUED")
    /\ pc = "collect" => tx = SetStatus(NoInv, "RUNNING")
    /\ pc = "report" => tx = [SetStatus(NoInv, "RUNNING") EXCEPT !.observed = 1]
    /\ pc \in {"progress", "commit"} =>
          /\ \/ tx.status = "COMPLETED" /\ tx.observed = 1
             \/ tx.status = "FAILED" /\ tx.observed = 0
          /\ tx.report # NoReport =>
                tx.status = "COMPLETED" /\ tx.report = Attempt /\ tx.report \in files

(* A committed result is final: nothing runs or will run after it.         *)
ResultIsFinal ==
    \/ inv = NoInv /\ ~made
    \/ inv = SetStatus(NoInv, "QUEUED")
    \/ inv.status \in {"COMPLETED", "FAILED"} /\ ~queued /\ pc \in {"idle", "finish"}

(* The row, the job, the transaction and the files of one investigation.   *)
InvestigationInv ==
    /\ TypeOK
    /\ ~made => ~queued
    /\ HandlerFits
    /\ ResultIsFinal
    /\ LinkedReportExists
    /\ ObservedOnce

(* The rows a transition leaves in the table.                              *)
LEMMA RowTransition ==
  ASSUME NEW row \in Row, NEW to \in JobState, NEW e \in Errors, NEW r \in BOOLEAN
  PROVE  /\ Transition(row, to, e, r) \in Row
         /\ Transition(row, to, e, r).state = to
         /\ to = "PENDING" /\ row.state = "FAILED" =>
               Transition(row, to, e, r).retry_count = row.retry_count + 1
         /\ to # "PENDING" => Transition(row, to, e, r).retry_count = row.retry_count
<1>1. /\ row.retry_count \in Nat
      /\ row.retry_count + (IF to = "PENDING" /\ row.state = "FAILED" THEN 1 ELSE 0) \in Nat
      /\ row.retry_count + 0 = row.retry_count
  BY DEF Row
<1>2. (IF e # "none" THEN e
       ELSE IF to = "PENDING" /\ row.state = "FAILED" THEN "none" ELSE row.error) \in Errors
  BY DEF Row, Errors
<1>3. Transition(row, to, e, r) \in Row
  BY <1>1, <1>2 DEF Transition, Row, IsTerminal
<1> QED BY <1>1, <1>3 DEF Transition

(* What the submitter, the worker and a cancellation write.                *)
Wrote(row, new) == new \in Row /\ new.retry_count = row.retry_count

LEMMA RowsWritten ==
  ASSUME NEW row \in Row
  PROVE  /\ Wrote(row, Transition(row, "RUNNING", "none", FALSE))
         /\ Wrote(row, Transition(row, "CANCELLED", "none", FALSE))
         /\ Wrote(row, Transition(row, "COMPLETED", "none", TRUE))
         /\ Wrote(row, Transition(row, "FAILED", "queue unavailable", FALSE))
         /\ Wrote(row, Transition(row, "FAILED", "handler error", FALSE))
<1>1. /\ "RUNNING" \in JobState /\ "CANCELLED" \in JobState /\ "COMPLETED" \in JobState
      /\ "FAILED" \in JobState
      /\ "none" \in Errors /\ "queue unavailable" \in Errors /\ "handler error" \in Errors
  BY DEF JobState, Errors
<1>2. ASSUME NEW to \in JobState, NEW e \in Errors, NEW r \in BOOLEAN, to # "PENDING"
      PROVE  Wrote(row, Transition(row, to, e, r))
  BY <1>2, RowTransition, ZenonT(30) DEF Wrote
<1>3. "RUNNING" # "PENDING" /\ "CANCELLED" # "PENDING" /\ "COMPLETED" # "PENDING"
      /\ "FAILED" # "PENDING" /\ TRUE \in BOOLEAN /\ FALSE \in BOOLEAN
  OBVIOUS
<1> QED BY <1>1, <1>2, <1>3, Zenon

LEMMA RowRetried ==
  ASSUME NEW row \in Row, NEW failed, failed = Transition(row, "FAILED", "handler error", FALSE)
  PROVE  /\ Transition(failed, "PENDING", "none", FALSE) \in Row
         /\ Transition(failed, "PENDING", "none", FALSE).retry_count = row.retry_count + 1
<1>1. "FAILED" \in JobState /\ "PENDING" \in JobState
  BY DEF JobState
<1>2. "none" \in Errors /\ "handler error" \in Errors
  BY DEF Errors
<1>3. failed \in Row /\ failed.state = "FAILED" /\ failed.retry_count = row.retry_count
  BY <1>1, <1>2, RowTransition, ZenonT(30)
<1>4. ASSUME NEW e \in Errors, NEW r \in BOOLEAN
      PROVE  /\ Transition(failed, "PENDING", e, r) \in Row
             /\ Transition(failed, "PENDING", e, r).retry_count = row.retry_count + 1
  <2>1. Transition(failed, "PENDING", e, r) \in Row
    BY <1>1, <1>3, RowTransition, Zenon
  <2>2. Transition(failed, "PENDING", e, r).retry_count = failed.retry_count + 1
    BY <1>3 DEF Transition
  <2> QED BY <1>3, <2>1, <2>2
<1>5. FALSE \in BOOLEAN
  OBVIOUS
<1> QED BY <1>2, <1>4, <1>5, Zenon

LEMMA InvestigationStarts == Init => InvestigationInv
<1> SUFFICES ASSUME Init PROVE InvestigationInv
  OBVIOUS
<1>1. TypeOK
  <2>1. NewRow \in Row /\ NewRow.retry_count = 0
    BY DEF NewRow, Row, JobState, Errors
  <2>2. NoInv \in InvRow /\ 0 \in Attempts
    BY InvestigationsAssumption DEF NoInv, InvRow, Status, Attempts
  <2> QED BY <2>1, <2>2 DEF Init, TypeOK
<1> QED
  BY <1>1 DEF Init, InvestigationInv, HandlerFits, ResultIsFinal, LinkedReportExists,
              ObservedOnce, NoInv

(* Requests and cancellations touch the investigation only while it has no *)
(* row.                                                                    *)
LEMMA RequestsKeep ==
  ASSUME InvestigationInv, BotCreate \/ BotSubmit \/ ApiCreate \/ Cancel
  PROVE  InvestigationInv'
<1>1. TypeOK /\ job \in Row /\ job.retry_count \in Attempts
  BY DEF InvestigationInv, TypeOK
<1>2. job' \in Row /\ job'.retry_count = job.retry_count
  BY <1>1, RowsWritten DEF BotCreate, BotSubmit, ApiCreate, Cancel, Wrote
<1>3. inv' = inv \/ (inv = NoInv /\ inv' = SetStatus(NoInv, "QUEUED") /\ ~made /\ pc = "idle")
  BY <1>1 DEF BotCreate, BotSubmit, ApiCreate, Cancel, InvestigationInv, ResultIsFinal,
              HandlerFits, SetStatus, NoInv
<1>4. SetStatus(NoInv, "QUEUED") \in InvRow
  BY InvestigationsAssumption DEF SetStatus, NoInv, InvRow, Status
<1>5. TypeOK'
  BY <1>1, <1>2, <1>3, <1>4 DEF BotCreate, BotSubmit, ApiCreate, Cancel, TypeOK
<1>6. (~made => ~queued)' /\ HandlerFits' /\ ResultIsFinal'
  <2>1. NoInv.status = "none" /\ SetStatus(NoInv, "QUEUED").status = "QUEUED"
    BY DEF NoInv, SetStatus
  <2>2. /\ UNCHANGED <<pc, tx, files>> /\ (made => made')
        /\ \/ UNCHANGED <<made, queued>> 
           \/ made' /\ ~made /\ pc = "idle" /\ inv' = SetStatus(NoInv, "QUEUED")
    BY <2>1 DEF BotCreate, BotSubmit, ApiCreate, Cancel, InvestigationInv, HandlerFits,
                ResultIsFinal
  <2>3. HandlerFits' /\ (~made => ~queued)'
    BY <1>2, <1>3, <2>2 DEF InvestigationInv, HandlerFits, Attempt
  <2>4. ResultIsFinal'
    BY <1>3, <2>2 DEF InvestigationInv, ResultIsFinal
  <2> QED BY <2>3, <2>4
<1>7. LinkedReportExists' /\ ObservedOnce'
  BY <1>3 DEF BotCreate, BotSubmit, ApiCreate, Cancel, InvestigationInv, LinkedReportExists,
              ObservedOnce, SetStatus, NoInv
<1> QED BY <1>5, <1>6, <1>7 DEF InvestigationInv

(* The worker's steps outside the handler's transaction: what the handler  *)
(* wrote is dropped or already committed.                                  *)
LEMMA WorkerKeeps ==
  ASSUME InvestigationInv, Take \/ Claim \/ Start \/ Progress95 \/ Raise \/ OnFailure \/ Finish
                           \/ Crash
  PROVE  InvestigationInv'
<1>1. TypeOK /\ job \in Row /\ job.retry_count \in Attempts /\ MaxRetries \in Nat
  BY InvestigationsAssumption DEF InvestigationInv, TypeOK
<1>2. job' \in Row /\ job'.retry_count \in Attempts
  <2>1. CASE Claim \/ Finish
    BY <1>1, <2>1, RowsWritten DEF Claim, Finish, Wrote
  <2>2. CASE OnFailure
    <3> DEFINE lost == Transition(job, "FAILED", "handler error", FALSE)
               again == Transition(lost, "PENDING", "none", FALSE)
    <3>1. /\ lost \in Row /\ lost.retry_count = job.retry_count
          /\ again \in Row /\ again.retry_count = job.retry_count + 1
      BY <1>1, RowsWritten, RowRetried DEF Wrote
    <3>2. job' = job \/ job' = lost \/ (job' = again /\ job.retry_count < MaxRetries)
      BY <2>2 DEF OnFailure
    <3> HIDE DEF lost, again
    <3> QED BY <1>1, <3>1, <3>2 DEF Attempts
  <2>3. CASE Take \/ Start \/ Progress95 \/ Raise \/ Crash
    BY <1>1, <2>3 DEF Take, Start, Progress95, Raise, Crash
  <2> QED BY <2>1, <2>2, <2>3
<1>3. UNCHANGED <<inv, made, files, reports>>
  BY DEF Take, Claim, Start, Progress95, Raise, OnFailure, Finish, Crash
<1>4. TypeOK'
  BY <1>1, <1>2, <1>3 DEF Take, Claim, Start, Progress95, Raise, OnFailure, Finish, Crash, Progress,
              TypeOK, SetStatus, InvRow, Status
<1>5. ResultIsFinal'
  BY <1>3 DEF Take, Claim, Start, Progress95, Raise, OnFailure, Finish, Crash, Progress,
              InvestigationInv, ResultIsFinal
<1>6. HandlerFits' /\ (~made => ~queued)'
  <2>1. CASE Start
    BY <1>3, <2>1 DEF Start, Progress, InvestigationInv, HandlerFits, ResultIsFinal, SetStatus, NoInv
  <2>2. CASE Progress95
    BY <1>3, <2>2 DEF Progress95, Progress, InvestigationInv, HandlerFits, Attempt
  <2>3. CASE Take \/ Claim \/ Raise \/ OnFailure \/ Finish \/ Crash
    <3>1. /\ UNCHANGED tx /\ pc' \in {"idle", "claim", "start", "failing"}
          /\ pc # "idle" \/ queued
          /\ pc' # "idle" => ~queued' \/ (pc # "idle" /\ queued' = queued)
      BY <2>3 DEF Take, Claim, Raise, OnFailure, Finish, Crash
    <3> QED BY <1>3, <3>1 DEF InvestigationInv, HandlerFits
  <2> QED BY <2>1, <2>2, <2>3
<1>7. LinkedReportExists' /\ ObservedOnce'
  BY <1>3 DEF InvestigationInv, LinkedReportExists, ObservedOnce
<1> QED BY <1>4, <1>5, <1>6, <1>7 DEF InvestigationInv

(* The handler's own steps write its transaction and files only.           *)
LEMMA HandlerKeeps ==
  ASSUME InvestigationInv, InvalidTarget \/ Summarise \/ ReportOk \/ ReportFails
  PROVE  InvestigationInv'
<1>1. TypeOK /\ job.retry_count \in Attempts /\ MaxRetries \in Nat /\ Attempt \in Attempts
  BY InvestigationsAssumption DEF InvestigationInv, TypeOK, Attempt
<1>2. /\ UNCHANGED <<inv, job, made, queued, reports>>
      /\ files \subseteq files' /\ files' \subseteq files \cup {Attempt}
      /\ pc \in {"collect", "report"}
  BY DEF InvalidTarget, Summarise, ReportOk, ReportFails
<1>3. tx' \in InvRow /\ pc' \in {"report", "progress"} /\ HandlerFits'
  <2>1. made /\ ~queued /\ UNCHANGED Attempt
    BY <1>2 DEF InvestigationInv, HandlerFits, Attempt
  <2>2. /\ "FAILED" \in Status /\ "COMPLETED" \in Status /\ "RUNNING" \in Status
        /\ 0 \in 0..(MaxRetries + 1) /\ 1 \in 0..(MaxRetries + 1) /\ 0 + 1 = 1
    BY <1>1 DEF Status
  <2>3. CASE pc = "collect"
    <3>1. /\ tx \in InvRow /\ tx.status = "RUNNING" /\ tx.report = NoReport /\ tx.observed = 0
          /\ tx = SetStatus(NoInv, "RUNNING")
      BY <1>1, <2>3 DEF InvestigationInv, HandlerFits, SetStatus, NoInv, TypeOK
    <3>2. CASE InvalidTarget
      <4> DEFINE new == SetStatus(tx, "FAILED")
      <4>1. new \in InvRow /\ new.report = NoReport /\ new.status = "FAILED" /\ new.observed = 0
        BY <2>2, <3>1 DEF InvRow, SetStatus
      <4>2. tx' = new /\ pc' = "progress"
        BY <3>2 DEF InvalidTarget
      <4> HIDE DEF new
      <4> QED BY <1>2, <2>1, <4>1, <4>2 DEF HandlerFits
    <3>3. CASE Summarise
      <4>1. tx' = [tx EXCEPT !.observed = 1] /\ pc' = "report"
        BY <2>2, <3>1, <3>3 DEF Summarise
      <4>2. tx' = [SetStatus(NoInv, "RUNNING") EXCEPT !.observed = 1]
        BY <3>1, <4>1, Zenon
      <4>3. tx' \in InvRow
        BY <2>2, <3>1, <4>1 DEF InvRow
      <4> QED BY <1>2, <2>1, <4>1, <4>2, <4>3 DEF HandlerFits
    <3> QED BY <2>3, <3>2, <3>3 DEF ReportOk, ReportFails
  <2>4. CASE pc = "report"
    <3>1. tx \in InvRow /\ tx.report = NoReport /\ tx.observed = 1
      BY <1>1, <2>4 DEF InvestigationInv, HandlerFits, SetStatus, NoInv, TypeOK
    <3>2. CASE ReportOk
      <4> DEFINE new == [tx EXCEPT !.report = Attempt, !.status = "COMPLETED"]
      <4>1. /\ new \in InvRow /\ new.report = Attempt /\ new.status = "COMPLETED"
            /\ new.observed = 1
        BY <1>1, <2>2, <3>1 DEF InvRow
      <4>2. tx' = new /\ pc' = "progress" /\ files' = files \cup {Attempt}
        BY <3>2 DEF ReportOk
      <4> HIDE DEF new
      <4> QED BY <1>2, <2>1, <4>1, <4>2 DEF HandlerFits
    <3>3. CASE ReportFails
      <4> DEFINE new == SetStatus(tx, "COMPLETED")
      <4>1. /\ new \in InvRow /\ new.report = NoReport /\ new.status = "COMPLETED"
            /\ new.observed = 1
        BY <1>1, <2>2, <3>1 DEF InvRow, SetStatus
      <4>2. tx' = new /\ pc' = "progress"
        BY <3>3 DEF ReportFails
      <4> HIDE DEF new
      <4> QED BY <1>2, <2>1, <4>1, <4>2 DEF HandlerFits
    <3> QED BY <2>4, <3>2, <3>3 DEF InvalidTarget, Summarise
  <2> QED BY <1>2, <2>3, <2>4
<1>4. TypeOK'
  BY <1>1, <1>2, <1>3 DEF TypeOK
<1>5. HandlerFits' /\ (~made => ~queued)'
  BY <1>2, <1>3 DEF InvestigationInv
<1>6. ResultIsFinal' /\ LinkedReportExists' /\ ObservedOnce'
  BY <1>2 DEF InvestigationInv, ResultIsFinal, LinkedReportExists, ObservedOnce
<1> QED BY <1>4, <1>5, <1>6 DEF InvestigationInv

(* The commit makes the result final, and its report with it.              *)
LEMMA CommitKeeps ==
  ASSUME InvestigationInv, Commit
  PROVE  InvestigationInv'
<1>1. /\ TypeOK /\ HandlerFits /\ pc = "commit" /\ made /\ ~queued
      /\ inv' = tx /\ pc' = "finish" /\ UNCHANGED <<job, made, queued, tx, files>>
      /\ Attempt \in Attempts
  BY DEF Commit, InvestigationInv, HandlerFits, TypeOK, Attempt
<1>2. reports' \in [Attempts -> {"none", "PENDING", "COMPLETED"}]
  BY <1>1 DEF Commit, TypeOK
<1>3. TypeOK'
  BY <1>1, <1>2 DEF TypeOK
<1>4. HandlerFits' /\ ResultIsFinal' /\ (~made => ~queued)'
  BY <1>1 DEF HandlerFits, ResultIsFinal
<1>5. LinkedReportExists' /\ ObservedOnce'
  BY <1>1 DEF Commit, HandlerFits, LinkedReportExists, ObservedOnce, TypeOK
<1> QED BY <1>3, <1>4, <1>5 DEF InvestigationInv

LEMMA InvestigationStepKeeps ==
  ASSUME InvestigationInv, [Next]_vars
  PROVE  InvestigationInv'
<1>1. CASE UNCHANGED vars
  BY <1>1 DEF vars, InvestigationInv, TypeOK, HandlerFits, ResultIsFinal, LinkedReportExists,
              ObservedOnce, Attempt
<1>2. CASE Next
  BY <1>2, RequestsKeep, WorkerKeeps, HandlerKeeps, CommitKeeps DEF Next
<1> QED BY <1>1, <1>2
-----------------------------------------------------------------------------
(* What an investigation finds and reports                                 *)

(* What an attempt that found this observes, counts, concludes, reports.   *)
ObservationsOf(a) == BuildObservations(a.number, a.target, a.found)

CountsOf(a) == Count(ObservationsOf(a), a.aliases)

ConfidenceOf(a) == OverallConfidence(ObservationsOf(a), Best(a.aliases), a.source)

DossierOf(a) ==
    [made |-> TRUE,
     content |-> InvestigationContent(a.rows, CountsOf(a), a.profile, a.aliases, ConfidenceOf(a),
                                      Narrative(CountsOf(a), a.source, a.operator))]

(* What an attempt has by the step it is at.  It never begins with rows,   *)
(* because only a committed attempt leaves some, and none follows it.      *)
AttemptFits(a) ==
    /\ a = [number |-> a.number, at |-> a.at, target |-> a.target, operator |-> a.operator,
            source |-> a.source, profile |-> a.profile, found |-> a.found, rows |-> a.rows,
            aliases |-> a.aliases, dossier |-> a.dossier]
    /\ a.number \in Nat
    /\ a.at \in {"idle", "profile", "search", "aliases", "report", "commit", "done"}
    /\ a.target \in {"username", "id"} /\ a.source \in BOOLEAN /\ a.operator \in BOOLEAN
    /\ a.found \in Seq(Posts)
    /\ a.at = "search" => a.source
    /\ ~a.source \/ a.at \in {"idle", "profile", "search"} => a.found = <<>>
    /\ a.rows = ObservationsOf(a)
    /\ a.at \in {"report", "commit", "done"} => Scores(a.aliases) \subseteq 0..100
    /\ a.at \in {"commit", "done"} => a.dossier = DossierOf(a)

(* Only a committed attempt leaves observations and a dossier: its own.    *)
FootInv ==
    /\ AttemptFits(attempt)
    /\ IF attempt.at = "done"
       THEN observed = attempt.rows /\ dossier = attempt.dossier
       ELSE observed = {} /\ dossier = NoDossier

(* The largest of a set of scores is what Max chooses.                     *)
LEMMA LargestScore ==
  ASSUME NEW n \in Nat, NEW S \in SUBSET (0..n), S # {}
  PROVE  Sets!Max(S) \in S /\ \A y \in S : y <= Sets!Max(S)
<1>1. PICK x \in S : \A y \in S : y <= x
  BY Largest
<1>2. \E z \in S : \A y \in S : z >= y
  BY <1>1
<1>3. Sets!Max(S) \in S /\ \A y \in S : Sets!Max(S) >= y
  BY <1>2, Zenon DEF Sets!Max
<1> QED BY <1>3

LEMMA SmallerOfTwo ==
  ASSUME NEW a \in Nat, NEW b \in Nat
  PROVE  Sets!Min({a, b}) \in 0..a /\ Sets!Min({a, b}) <= b
<1>1. \E x \in {a, b} : \A y \in {a, b} : x =< y
  OBVIOUS
<1>2. /\ Sets!Min({a, b}) \in {a, b}
      /\ \A y \in {a, b} : Sets!Min({a, b}) =< y
  BY <1>1, Zenon DEF Sets!Min
<1> QED BY <1>2

(* What the classifier says of a message: only the target's own and        *)
(* replies that name it are more than references.                          *)
LEMMA ClassifyFacts ==
  ASSUME NEW p \in Posts, NEW t \in {"username", "id"}
  PROVE  /\ Classify(t, p)[1] \in {"AUTHOR", "REPLY"} =>
               p.by = "target" \/ (p.reply /\ Mentions(p))
         /\ Classify(t, p)[2] \in 0..100
<1>1. p.by \in {"target", "other"} /\ p.reply \in BOOLEAN
  BY FootprintAssumption DEF PostRows
<1>2. CASE t = "username"
  BY <1>1, <1>2 DEF Classify
<1>3. CASE t = "id"
  BY <1>1, <1>3 DEF Classify
<1> QED BY <1>2, <1>3

(* The rows of an attempt: one for each message that is left.              *)
LEMMA ObservationFacts ==
  ASSUME NEW n \in Nat, NEW t \in {"username", "id"}, NEW found \in Seq(Posts)
  PROVE  LET S == BuildObservations(n, t, found)
         IN  /\ IsFiniteSet(S)
             /\ {r.id[2] : r \in S} = Validated(found)
             /\ found = <<>> => S = {}
             /\ \A r \in S : r.confidence \in 0..100
             /\ \A r \in S : r.type \in {"AUTHOR", "REPLY"} =>
                   \E i \in DOMAIN found :
                      found[i].by = "target" \/ (found[i].reply /\ Mentions(found[i]))
<1> DEFINE S == BuildObservations(n, t, found)
           row(i) == AddObservation(n, i, t, found[i])
<1>1. /\ DOMAIN found = 1..Len(found) /\ Len(found) \in Nat
      /\ \A i \in DOMAIN found : found[i] \in Posts
      /\ Validated(found) \subseteq DOMAIN found
  BY DEF Validated
<1>2. IsFiniteSet(Validated(found))
  <2>1. IsFiniteSet(1..Len(found))
    BY <1>1, FS_Interval
  <2> QED BY <1>1, <2>1, FS_Subset
<1>3. S = {row(i) : i \in Validated(found)}
  BY DEF BuildObservations
<1>4. \A i : row(i).id[2] = i /\ row(i).type = Classify(t, found[i])[1]
             /\ row(i).confidence = Classify(t, found[i])[2]
  BY DEF AddObservation
<1>5. IsFiniteSet(S)
  <2> DEFINE f == [i \in Validated(found) |-> row(i)]
  <2>1. f \in Surjection(Validated(found), S)
    <3> HIDE DEF S, row
    <3> QED BY <1>3 DEF Surjection
  <2> HIDE DEF S, f
  <2> QED BY <1>2, <2>1, FS_Surjection
<1>6. {r.id[2] : r \in S} = Validated(found)
  <2> HIDE DEF S, row
  <2> QED BY <1>3, <1>4
<1>7. found = <<>> => S = {}
  BY <1>1, <1>3
<1>8. \A r \in S : \E i \in DOMAIN found :
        /\ found[i] \in Posts
        /\ r.type = Classify(t, found[i])[1] /\ r.confidence = Classify(t, found[i])[2]
  <2> HIDE DEF S, row
  <2> QED BY <1>1, <1>3, <1>4
<1>9. \A r \in S : r.confidence \in 0..100
  BY <1>8, ClassifyFacts
<1>10. \A r \in S : r.type \in {"AUTHOR", "REPLY"} =>
          \E i \in DOMAIN found :
             found[i].by = "target" \/ (found[i].reply /\ Mentions(found[i]))
  BY <1>8, ClassifyFacts
<1> QED BY <1>5, <1>6, <1>7, <1>9, <1>10

(* The best alias, when there is one.                                      *)
LEMMA BestFacts ==
  ASSUME NEW aliases, Scores(aliases) \subseteq 0..100
  PROVE  /\ Scores(aliases) = {} => Best(aliases) = NoScore
         /\ Scores(aliases) # {} => Best(aliases) \in Scores(aliases)
         /\ Best(aliases) # NoScore => Best(aliases) \in 0..100
         /\ Best(aliases) = NoScore => Scores(aliases) = {}
<1>1. CASE Scores(aliases) = {}
  BY <1>1 DEF Best
<1>2. CASE Scores(aliases) # {}
  <2>1. Best(aliases) \in Scores(aliases)
    BY <1>2, LargestScore DEF Best
  <2> QED BY <1>2, <2>1, FootprintAssumption
<1> QED BY <1>1, <1>2

(* The target spoke: a message of its own, or a reply that names it.       *)
Spoke(S) == \E r \in S : r.type \in {"AUTHOR", "REPLY"}

(* Nothing was looked at.                                                  *)
Unseen(source, alias) == ~source /\ alias = NoScore

(* Every confidence is a percentage.                                       *)
Percentages(S) == \A r \in S : r.confidence \in 0..100

(* The overall confidence is unknown only when nothing was looked at, and  *)
(* high only by an alias, the target's own message or a reply.             *)
LEMMA OverallFacts ==
  ASSUME NEW S, Percentages(S),
         NEW alias \in (0..100) \cup {NoScore}, NEW source,
         NEW v, v = OverallConfidence(S, alias, source)
  PROVE  /\ v = NoScore <=> Unseen(source, alias)
         /\ v # NoScore => v \in 0..95
         /\ v # NoScore /\ v > 60 =>
               \/ alias # NoScore /\ alias > 60
               \/ Spoke(S)
<1> DEFINE mentions == {r.confidence : r \in OfType(S, "MENTION")}
           told == {r.confidence : r \in OfType(S, "AUTHOR") \cup OfType(S, "REPLY")}
           known == {alias} \ {NoScore}
           capped == IF mentions = {} THEN {} ELSE {Sets!Min({60, Sets!Max(mentions)})}
           signals == told \cup known \cup capped
<1>1. v = IF ~source /\ alias = NoScore THEN NoScore
          ELSE IF signals # {} THEN Sets!Min({95, Sets!Max(signals)})
          ELSE IF S # {} THEN 20 ELSE 0
  BY DEF OverallConfidence
<1>2. mentions \subseteq 0..100 /\ told \subseteq 0..100 /\ known \subseteq 0..100
  BY DEF OfType, Percentages
<1>3. \A x \in told : Spoke(S)
  BY DEF OfType, Spoke
<1>4. \A x \in known : alias # NoScore /\ x = alias
  OBVIOUS
<1> HIDE DEF mentions, told, known
<1>5. \A x \in capped : x \in 0..60
  <2>1. CASE mentions = {}
    BY <2>1
  <2>2. CASE mentions # {}
    <3>1. Sets!Max(mentions) \in 0..100
      BY <1>2, <2>2, LargestScore
    <3>2. Sets!Min({60, Sets!Max(mentions)}) \in 0..60
      <4>1. Sets!Max(mentions) \in Nat /\ 60 \in Nat
        BY <3>1
      <4> QED BY <4>1, SmallerOfTwo
    <3> QED BY <2>2, <3>2
  <2> QED BY <2>1, <2>2
<1> HIDE DEF capped
<1>6. signals # {} =>
        /\ Sets!Max(signals) \in signals
        /\ Sets!Min({95, Sets!Max(signals)}) \in 0..95
        /\ Sets!Min({95, Sets!Max(signals)}) <= Sets!Max(signals)
  <2> SUFFICES ASSUME signals # {}
      PROVE  /\ Sets!Max(signals) \in signals
             /\ Sets!Min({95, Sets!Max(signals)}) \in 0..95
             /\ Sets!Min({95, Sets!Max(signals)}) <= Sets!Max(signals)
    OBVIOUS
  <2>1. signals \subseteq 0..100
    <3>1. \A x \in capped : x \in 0..100
      BY <1>5
    <3> QED BY <1>2, <3>1
  <2>2. Sets!Max(signals) \in signals
    <3> HIDE DEF signals
    <3> QED BY <2>1, LargestScore
  <2>3. Sets!Max(signals) \in Nat /\ 95 \in Nat
    BY <2>1, <2>2
  <2> HIDE DEF signals
  <2> QED BY <2>2, <2>3, SmallerOfTwo
<1>7. \A x \in signals : x > 60 => (alias # NoScore /\ alias > 60)
                                   \/ Spoke(S)
  BY <1>3, <1>4, <1>5
<1>8. signals \subseteq 0..100
  <2>1. \A x \in capped : x \in 0..100
    BY <1>5
  <2> QED BY <1>2, <2>1
<1> HIDE DEF signals
<1>9. NoScore \notin Nat
  BY FootprintAssumption
<1>10. v = NoScore <=> Unseen(source, alias)
  BY <1>1, <1>6, <1>9 DEF Unseen
<1>11. v # NoScore => v \in 0..95
  BY <1>1, <1>6, <1>9
<1>12. v # NoScore /\ v > 60 =>
         (alias # NoScore /\ alias > 60) \/ Spoke(S)
  <2> SUFFICES ASSUME v # NoScore, v > 60
      PROVE  (alias # NoScore /\ alias > 60) \/ Spoke(S)
    OBVIOUS
  <2>1. signals # {} /\ v = Sets!Min({95, Sets!Max(signals)})
    BY <1>1
  <2>2. /\ Sets!Max(signals) \in signals /\ Sets!Max(signals) \in 0..100
        /\ v <= Sets!Max(signals) /\ v \in 0..95
    BY <1>6, <1>8, <2>1
  <2>3. Sets!Max(signals) > 60
    BY <2>2
  <2> QED BY <1>7, <2>2, <2>3
<1> QED BY <1>10, <1>11, <1>12

(* Nothing found, nothing observed.                                        *)
LEMMA NothingFound ==
  ASSUME NEW n, NEW t
  PROVE  BuildObservations(n, t, <<>>) = {}
<1>1. Validated(<<>>) = {}
  BY DEF Validated
<1> QED BY <1>1 DEF BuildObservations

(* What BeginAttempt writes into a new attempt.                            *)
LEMMA Begun ==
  ASSUME NEW a, NEW t, NEW o, NEW r, NEW b,
         b = [a EXCEPT !.target = t, !.operator = o, !.rows = r],
         a = [number |-> a.number, at |-> a.at, target |-> a.target, operator |-> a.operator,
              source |-> a.source, profile |-> a.profile, found |-> a.found, rows |-> a.rows,
              aliases |-> a.aliases, dossier |-> a.dossier]
  PROVE  b = [number |-> a.number, at |-> a.at, target |-> t, operator |-> o,
              source |-> a.source, profile |-> a.profile, found |-> a.found, rows |-> r,
              aliases |-> a.aliases, dossier |-> a.dossier]
OBVIOUS

LEMMA NewAttemptFits ==
  ASSUME NEW n \in Nat, NEW at \in {"idle", "profile"}, NEW t \in {"username", "id"},
         NEW o \in BOOLEAN, NEW begun,
         begun = [NewAttempt(n, at) EXCEPT !.target = t, !.operator = o, !.rows = {}]
  PROVE  /\ AttemptFits(NewAttempt(n, at)) /\ NewAttempt(n, at).at = at
         /\ AttemptFits(begun) /\ begun.at = at
<1> DEFINE a == NewAttempt(n, at)
           b == [number |-> a.number, at |-> a.at, target |-> t, operator |-> o,
                 source |-> a.source, profile |-> a.profile, found |-> a.found, rows |-> {},
                 aliases |-> a.aliases, dossier |-> a.dossier]
<1>1. /\ a.number = n /\ a.at = at /\ a.target = "username" /\ a.operator = FALSE
      /\ a.source = TRUE /\ a.found = <<>> /\ a.rows = {}
      /\ a = [number |-> a.number, at |-> a.at, target |-> a.target, operator |-> a.operator,
              source |-> a.source, profile |-> a.profile, found |-> a.found, rows |-> a.rows,
              aliases |-> a.aliases, dossier |-> a.dossier]
  BY DEF NewAttempt
<1>2. /\ b.number = a.number /\ b.at = a.at /\ b.target = t /\ b.operator = o
      /\ b.source = a.source /\ b.found = a.found /\ b.rows = {}
      /\ b = [number |-> b.number, at |-> b.at, target |-> b.target, operator |-> b.operator,
              source |-> b.source, profile |-> b.profile, found |-> b.found, rows |-> b.rows,
              aliases |-> b.aliases, dossier |-> b.dossier]
  OBVIOUS
<1> HIDE DEF a, b
<1>3. <<>> \in Seq(Posts) /\ \A tt : BuildObservations(n, tt, <<>>) = {}
  BY NothingFound
<1>4. AttemptFits(a)
  BY <1>1, <1>3 DEF AttemptFits, ObservationsOf
<1>5. AttemptFits(b)
  BY <1>1, <1>2, <1>3 DEF AttemptFits, ObservationsOf
<1>6. begun = b
  <2>1. begun = [a EXCEPT !.target = t, !.operator = o, !.rows = {}]
    BY DEF a
  <2> QED BY <1>1, <2>1, Begun DEF b
<1> QED BY <1>1, <1>2, <1>4, <1>5, <1>6 DEF a

LEMMA NewFits ==
  ASSUME NEW n \in Nat
  PROVE  AttemptFits(NewAttempt(n, "idle")) /\ NewAttempt(n, "idle").at = "idle"
BY NewAttemptFits

LEMMA ProfileKeeps ==
  ASSUME FootInv, Profile
  PROVE  FootInv'
<1> DEFINE a == attempt
<1>1. /\ AttemptFits(a) /\ a.at = "profile" /\ a.found = <<>>
      /\ observed = {} /\ dossier = NoDossier /\ UNCHANGED <<observed, dossier>>
  BY DEF Profile, FootInv, AttemptFits
<1>2. PICK s \in BOOLEAN, p \in BOOLEAN :
        attempt' = [a EXCEPT !.source = s, !.profile = p,
                             !.at = IF s THEN "search" ELSE "aliases"]
  BY DEF Profile
<1> DEFINE b == [number |-> a.number, at |-> IF s THEN "search" ELSE "aliases",
                 target |-> a.target, operator |-> a.operator, source |-> s, profile |-> p,
                 found |-> a.found, rows |-> a.rows, aliases |-> a.aliases,
                 dossier |-> a.dossier]
<1>3. attempt' = b
  BY <1>1, <1>2 DEF AttemptFits
<1>4. /\ b.number = a.number /\ b.target = a.target /\ b.operator = a.operator
      /\ b.source = s /\ b.found = a.found /\ b.rows = a.rows
      /\ b.at = IF s THEN "search" ELSE "aliases"
      /\ b = [number |-> b.number, at |-> b.at, target |-> b.target, operator |-> b.operator,
              source |-> b.source, profile |-> b.profile, found |-> b.found, rows |-> b.rows,
              aliases |-> b.aliases, dossier |-> b.dossier]
  OBVIOUS
<1> HIDE DEF a, b
<1>5. AttemptFits(b) /\ b.at # "done"
  BY <1>1, <1>4 DEF AttemptFits, ObservationsOf
<1> QED BY <1>1, <1>3, <1>5 DEF FootInv

LEMMA SearchKeeps ==
  ASSUME FootInv, SearchPosts
  PROVE  FootInv'
<1> DEFINE a == attempt
<1>1. /\ AttemptFits(a) /\ a.at = "search" /\ a.found = <<>> /\ a.source
      /\ observed = {} /\ dossier = NoDossier /\ UNCHANGED <<observed, dossier>>
  BY DEF SearchPosts, FootInv, AttemptFits
<1>2. a.rows = {}
  BY <1>1, NothingFound DEF AttemptFits, ObservationsOf
<1>3. PICK k \in 0..MaxPosts : \E f \in [1..k -> Posts] :
         attempt' = [a EXCEPT !.found = f, !.at = "aliases",
                              !.rows = Read(@, a.number, a.target, f)]
  BY DEF SearchPosts
<1>4. PICK f \in [1..k -> Posts] :
         attempt' = [a EXCEPT !.found = f, !.at = "aliases",
                              !.rows = Read(@, a.number, a.target, f)]
  BY <1>3
<1>5. f \in Seq(Posts)
  BY FootprintAssumption
<1> DEFINE b == [number |-> a.number, at |-> "aliases", target |-> a.target,
                 operator |-> a.operator, source |-> a.source, profile |-> a.profile,
                 found |-> f, rows |-> Read(a.rows, a.number, a.target, f),
                 aliases |-> a.aliases, dossier |-> a.dossier]
<1>6. attempt' = b
  BY <1>1, <1>4 DEF AttemptFits
<1>7. /\ b.number = a.number /\ b.target = a.target /\ b.operator = a.operator
      /\ b.source = a.source /\ b.found = f /\ b.rows = Read(a.rows, a.number, a.target, f)
      /\ b.at = "aliases"
      /\ b = [number |-> b.number, at |-> b.at, target |-> b.target, operator |-> b.operator,
              source |-> b.source, profile |-> b.profile, found |-> b.found, rows |-> b.rows,
              aliases |-> b.aliases, dossier |-> b.dossier]
  OBVIOUS
<1>8. b.rows = BuildObservations(a.number, a.target, f)
  BY <1>2, <1>7 DEF Read
<1> HIDE DEF a, b
<1>9. AttemptFits(b) /\ b.at # "done"
  BY <1>1, <1>5, <1>7, <1>8 DEF AttemptFits, ObservationsOf
<1> QED BY <1>1, <1>6, <1>9 DEF FootInv

LEMMA CorrelateKeeps ==
  ASSUME FootInv, Correlate
  PROVE  FootInv'
<1> DEFINE a == attempt
<1>1. /\ AttemptFits(a) /\ a.at = "aliases"
      /\ observed = {} /\ dossier = NoDossier /\ UNCHANGED <<observed, dossier>>
  BY DEF Correlate, FootInv
<1>2. PICK S \in SUBSET AliasSites : \E x \in [S -> AliasScores] :
         attempt' = [a EXCEPT !.aliases = x, !.at = "report"]
  BY DEF Correlate
<1>3. PICK x \in [S -> AliasScores] : attempt' = [a EXCEPT !.aliases = x, !.at = "report"]
  BY <1>2
<1>4. Scores(x) \subseteq 0..100
  BY FootprintAssumption DEF Scores
<1> DEFINE b == [number |-> a.number, at |-> "report", target |-> a.target,
                 operator |-> a.operator, source |-> a.source, profile |-> a.profile,
                 found |-> a.found, rows |-> a.rows, aliases |-> x, dossier |-> a.dossier]
<1>5. attempt' = b
  BY <1>1, <1>3 DEF AttemptFits
<1>6. /\ b.number = a.number /\ b.target = a.target /\ b.operator = a.operator
      /\ b.source = a.source /\ b.found = a.found /\ b.rows = a.rows
      /\ b.at = "report" /\ b.aliases = x
      /\ b = [number |-> b.number, at |-> b.at, target |-> b.target, operator |-> b.operator,
              source |-> b.source, profile |-> b.profile, found |-> b.found, rows |-> b.rows,
              aliases |-> b.aliases, dossier |-> b.dossier]
  OBVIOUS
<1> HIDE DEF a, b
<1>7. AttemptFits(b) /\ b.at # "done"
  BY <1>1, <1>4, <1>6 DEF AttemptFits, ObservationsOf
<1> QED BY <1>1, <1>5, <1>7 DEF FootInv

LEMMA ReportKeeps ==
  ASSUME FootInv, Report
  PROVE  FootInv'
<1> DEFINE a == attempt
<1>1. /\ AttemptFits(a) /\ a.at = "report"
      /\ observed = {} /\ dossier = NoDossier /\ UNCHANGED <<observed, dossier>>
  BY DEF Report, FootInv
<1>2. attempt' = [a EXCEPT !.at = "commit", !.dossier = DossierOf(a)]
  BY DEF Report, DossierOf, CountsOf, ConfidenceOf, ObservationsOf
<1> DEFINE b == [number |-> a.number, at |-> "commit", target |-> a.target,
                 operator |-> a.operator, source |-> a.source, profile |-> a.profile,
                 found |-> a.found, rows |-> a.rows, aliases |-> a.aliases,
                 dossier |-> DossierOf(a)]
<1>3. attempt' = b
  BY <1>1, <1>2 DEF AttemptFits
<1>4. /\ b.number = a.number /\ b.target = a.target /\ b.operator = a.operator
      /\ b.source = a.source /\ b.found = a.found /\ b.rows = a.rows
      /\ b.at = "commit" /\ b.aliases = a.aliases /\ b.profile = a.profile
      /\ b.dossier = DossierOf(a)
      /\ b = [number |-> b.number, at |-> b.at, target |-> b.target, operator |-> b.operator,
              source |-> b.source, profile |-> b.profile, found |-> b.found, rows |-> b.rows,
              aliases |-> b.aliases, dossier |-> b.dossier]
  OBVIOUS
<1> HIDE DEF a, b
<1>5. DossierOf(b) = DossierOf(a)
  BY <1>4 DEF DossierOf, CountsOf, ConfidenceOf, ObservationsOf
<1>6. AttemptFits(b) /\ b.at # "done"
  BY <1>1, <1>4, <1>5 DEF AttemptFits, ObservationsOf
<1> QED BY <1>1, <1>3, <1>6 DEF FootInv

LEMMA CommitAttemptKeeps ==
  ASSUME FootInv, CommitAttempt
  PROVE  FootInv'
<1> DEFINE a == attempt
<1>1. AttemptFits(a) /\ a.at = "commit" /\ observed' = a.rows /\ dossier' = a.dossier
  BY DEF CommitAttempt, FootInv
<1> DEFINE b == [number |-> a.number, at |-> "done", target |-> a.target,
                 operator |-> a.operator, source |-> a.source, profile |-> a.profile,
                 found |-> a.found, rows |-> a.rows, aliases |-> a.aliases,
                 dossier |-> a.dossier]
<1>2. attempt' = b
  BY <1>1 DEF AttemptFits, CommitAttempt
<1>3. /\ b.number = a.number /\ b.target = a.target /\ b.operator = a.operator
      /\ b.source = a.source /\ b.found = a.found /\ b.rows = a.rows
      /\ b.at = "done" /\ b.aliases = a.aliases /\ b.profile = a.profile
      /\ b.dossier = a.dossier
      /\ b = [number |-> b.number, at |-> b.at, target |-> b.target, operator |-> b.operator,
              source |-> b.source, profile |-> b.profile, found |-> b.found, rows |-> b.rows,
              aliases |-> b.aliases, dossier |-> b.dossier]
  OBVIOUS
<1> HIDE DEF a, b
<1>4. DossierOf(b) = DossierOf(a)
  BY <1>3 DEF DossierOf, CountsOf, ConfidenceOf, ObservationsOf
<1>5. AttemptFits(b)
  BY <1>1, <1>3, <1>4 DEF AttemptFits, ObservationsOf
<1> QED BY <1>1, <1>2, <1>3, <1>5 DEF FootInv

LEMMA FootStarts == FootInit => FootInv
<1> SUFFICES ASSUME FootInit PROVE FootInv
  OBVIOUS
<1>1. AttemptFits(NewAttempt(0, "idle")) /\ NewAttempt(0, "idle").at = "idle"
  BY NewFits
<1> QED BY <1>1 DEF FootInit, FootInv

LEMMA FootStepKeeps ==
  ASSUME FootInv, [FootNext]_footVars
  PROVE  FootInv'
<1>1. CASE UNCHANGED footVars
  BY <1>1 DEF footVars, FootInv
<1>2. AttemptFits(attempt) /\ attempt.number \in Nat
  BY DEF FootInv, AttemptFits
<1>3. CASE BeginAttempt
  <2>1. observed = {} /\ dossier = NoDossier /\ UNCHANGED <<observed, dossier>>
    BY <1>3 DEF BeginAttempt, FootInv
  <2>2. PICK t \in {"username", "id"}, o \in BOOLEAN :
          attempt' = [NewAttempt(attempt.number + 1, "profile") EXCEPT
                        !.target = t, !.operator = o, !.rows = {}]
    BY <1>3, <2>1 DEF BeginAttempt
  <2>3. attempt.number + 1 \in Nat /\ "profile" \in {"idle", "profile"}
    BY <1>2
  <2>4. AttemptFits(attempt') /\ attempt'.at = "profile"
    <3> DEFINE begun == attempt'
    <3> HIDE DEF begun
    <3>1. begun = [NewAttempt(attempt.number + 1, "profile") EXCEPT
                     !.target = t, !.operator = o, !.rows = {}]
      BY <2>2 DEF begun
    <3>2. AttemptFits(begun) /\ begun.at = "profile"
      BY <2>3, <3>1, NewAttemptFits, ZenonT(30)
    <3> QED BY <3>2 DEF begun
  <2> QED BY <2>1, <2>4 DEF FootInv
<1>4. CASE RaiseAttempt
  <2>1. observed = {} /\ dossier = NoDossier /\ UNCHANGED <<observed, dossier>>
    BY <1>4 DEF RaiseAttempt, FootInv
  <2>2. AttemptFits(attempt') /\ attempt'.at = "idle"
    BY <1>2, <1>4, NewFits DEF RaiseAttempt
  <2> QED BY <2>1, <2>2 DEF FootInv
<1> QED
  BY <1>1, <1>3, <1>4, ProfileKeeps, SearchKeeps, CorrelateKeeps, ReportKeeps,
     CommitAttemptKeeps DEF FootNext

(* What a stored dossier is made of: it is the attempt's that is done, and *)
(* the rows it lists are the stored ones.                                  *)
LEMMA StoredDossier ==
  ASSUME FootInv, dossier.made
  PROVE  /\ AttemptFits(attempt) /\ attempt.at = "done"
         /\ observed = ObservationsOf(attempt)
         /\ dossier = DossierOf(attempt)
BY DEF FootInv, AttemptFits, NoDossier

LEMMA ReportCounts ==
  ASSUME FootInv
  PROVE  ReportAccounts
<1> SUFFICES ASSUME dossier.made PROVE ReportAccounts
  BY DEF ReportAccounts
<1> DEFINE a == attempt
           c == dossier.content
           n == c.summary.counts
           S == ObservationsOf(a)
<1>1. /\ AttemptFits(a) /\ observed = S /\ a.rows = S /\ dossier = DossierOf(a)
  BY StoredDossier DEF AttemptFits
<1>2. c = InvestigationContent(S, CountsOf(a), a.profile, a.aliases, ConfidenceOf(a),
                               Narrative(CountsOf(a), a.source, a.operator))
  BY <1>1 DEF DossierOf
<1>3. n = CountsOf(a) /\ c.evidence = S /\ c.resources = ResourceSection(S)
      /\ c.messages = MessageSections(S, CountsOf(a))
  BY <1>2 DEF InvestigationContent, EvidenceSection
<1>4. /\ n.observations = Cardinality(S)
      /\ n.of["MENTION"] = Cardinality(OfType(S, "MENTION"))
      /\ n.of["REPLY"] = Cardinality(OfType(S, "REPLY"))
      /\ n.of["AUTHOR"] = Cardinality(OfType(S, "AUTHOR"))
      /\ n.resources = Cardinality({r.resource : r \in S})
  BY <1>3 DEF CountsOf, Count, ObservationKinds
<1>5. /\ c.messages.mentions = OfType(S, "MENTION") /\ c.messages.replies = OfType(S, "REPLY")
      /\ c.messages.authored = OfType(S, "AUTHOR")
      /\ c.messages.mentionsClaimed = n.of["MENTION"]
      /\ c.messages.repliesClaimed = n.of["REPLY"]
  BY <1>3 DEF MessageSections
<1>6. IsFiniteSet(S) /\ {r.id[2] : r \in S} = Validated(a.found)
  BY <1>1, ObservationFacts DEF AttemptFits, ObservationsOf
<1>7. /\ DOMAIN c.resources = {r.resource : r \in S}
      /\ \A s \in DOMAIN c.resources : c.resources[s] = Cardinality({r \in S : r.resource = s})
  BY <1>3 DEF ResourceSection
<1>8. \A s \in DOMAIN c.resources : c.resources[s] <= n.observations
  <2> HIDE DEF S
  <2> TAKE s \in DOMAIN c.resources
  <2> DEFINE at == {r \in S : r.resource = s}
  <2>1. at \in SUBSET S /\ c.resources[s] = Cardinality(at)
    BY <1>7
  <2> HIDE DEF at, c, n
  <2>2. Cardinality(at) <= Cardinality(S)
    BY <1>6, <2>1, FS_Subset
  <2> QED BY <1>4, <2>1, <2>2
<1> HIDE DEF c, n, S
<1>9. /\ n.observations = Cardinality(c.evidence)
      /\ c.messages.mentionsClaimed = Cardinality(c.messages.mentions)
      /\ c.messages.repliesClaimed = Cardinality(c.messages.replies)
      /\ n.of["AUTHOR"] = Cardinality(c.messages.authored)
      /\ n.resources = Cardinality(DOMAIN c.resources)
      /\ \A s \in DOMAIN c.resources : c.resources[s] <= n.observations
      /\ {r.id[2] : r \in c.evidence} = Validated(a.found)
      /\ c.evidence = observed
  BY <1>1, <1>3, <1>4, <1>5, <1>6, <1>7, <1>8
<1> QED BY <1>9 DEF ReportAccounts, c, n

LEMMA OverallIsBacked ==
  ASSUME FootInv
  PROVE  OverallBacked
<1> SUFFICES ASSUME dossier.made PROVE OverallBacked
  BY DEF OverallBacked
<1> DEFINE a == attempt
           s == dossier.content.summary
           S == ObservationsOf(a)
           best == Best(a.aliases)
<1>1. /\ AttemptFits(a) /\ a.at = "done" /\ observed = S /\ a.rows = S /\ dossier = DossierOf(a)
      /\ Scores(a.aliases) \subseteq 0..100
  BY StoredDossier DEF AttemptFits
<1>2. /\ s.confidence = ConfidenceOf(a)
      /\ s.narrative = Narrative(CountsOf(a), a.source, a.operator)
      /\ dossier.content.evidence = S
  BY <1>1 DEF DossierOf, InvestigationContent, EvidenceSection
<1>3. /\ IsFiniteSet(S) /\ (a.found = <<>> => S = {})
      /\ \A r \in S : r.confidence \in 0..100
      /\ \A r \in S : r.type \in {"AUTHOR", "REPLY"} =>
            \E i \in DOMAIN a.found :
               a.found[i].by = "target" \/ (a.found[i].reply /\ Mentions(a.found[i]))
  BY <1>1, ObservationFacts DEF AttemptFits, ObservationsOf
<1>4. best \in (0..100) \cup {NoScore} /\ a.source \in BOOLEAN
  BY <1>1, BestFacts DEF AttemptFits
<1>5. s.confidence = OverallConfidence(S, best, a.source)
  BY <1>2 DEF ConfidenceOf
<1> DEFINE v == s.confidence
<1> HIDE DEF S, best, a, v
<1>6. /\ v = NoScore <=> Unseen(a.source, best)
      /\ v # NoScore /\ v > 60 =>
            (best # NoScore /\ best > 60) \/ Spoke(S)
  <2>1. v = OverallConfidence(S, best, a.source)
    BY <1>5 DEF v
  <2>2. Percentages(S)
    BY <1>3 DEF Percentages
  <2>3. v = NoScore <=> Unseen(a.source, best)
    BY <1>4, <2>1, <2>2, OverallFacts
  <2>4. v # NoScore /\ v > 60 =>
          (best # NoScore /\ best > 60) \/ Spoke(S)
    BY <1>4, <2>1, <2>2, OverallFacts
  <2> QED BY <2>3, <2>4
<1>8. /\ best = NoScore <=> Scores(a.aliases) = {}
      /\ best # NoScore => best \in Scores(a.aliases)
  BY <1>1, BestFacts DEF best
<1>9. s.narrative # "COUNTS" => S = {}
  <2> SUFFICES ASSUME s.narrative # "COUNTS" PROVE S = {}
    OBVIOUS
  <2>1. CASE ~a.source
    BY <1>1, <1>3, <2>1 DEF AttemptFits
  <2>2. CASE a.source
    <3>1. CountsOf(a).observations = 0
      BY <1>2, <2>2 DEF Narrative
    <3>2. Cardinality(S) = 0
      BY <3>1 DEF CountsOf, Count, S
    <3> QED BY <1>3, <3>2, FS_EmptySet
  <2> QED BY <1>4, <2>1, <2>2
<1>10. v # NoScore /\ v > 60 =>
          \/ \E x \in Scores(a.aliases) : x > 60
          \/ \E i \in DOMAIN a.found :
               a.found[i].by = "target" \/ (a.found[i].reply /\ Mentions(a.found[i]))
  BY <1>3, <1>6, <1>8 DEF Spoke
<1> QED BY <1>2, <1>6, <1>8, <1>9, <1>10 DEF OverallBacked, Unseen, a, v

(* An investigation accounts for itself: its row names a report that is    *)
(* there, its observations are stored once, and what the report counts and *)
(* concludes follows from them, however often it was tried and whatever    *)
(* the platforms answered; for any accounts, scores and number of retries  *)
(* (run_investigation, InvestigationService.run,                           *)
(* build_investigation_content).                                           *)
THEOREM InvestigationsAccount == ServicesSpec => []InvestigationAccounts
<1> DEFINE Both == InvestigationInv /\ FootInv
<1>1. ServicesInit => Both
  BY InvestigationStarts, FootStarts DEF ServicesInit
<1>2. Both /\ [ServicesNext]_servicesVars => Both'
  BY ServicesStep, InvestigationStepKeeps, FootStepKeeps
<1>3. Both => InvestigationAccounts
  BY ReportCounts, OverallIsBacked DEF InvestigationAccounts, InvestigationInv
<1> QED BY <1>1, <1>2, <1>3, PTL DEF ServicesSpec
-----------------------------------------------------------------------------
(* What users are answered                                                 *)

(* A key lets through at most its limit in any window, and when the time    *)
(* that a refused caller was told has passed there is room, although        *)
(* processes share a store, refused hits are taken back late, a failure may *)
(* leave some behind and requests are slow; for any limit, window, burst,   *)
(* clients and number of processes (hit of both limiters).                 *)
THEOREM LimiterIsTrue == ServicesSpec => []LimiterKeepsWord
<1>1. ServicesInit => RateInv
  BY RateStarts DEF ServicesInit
<1>2. RateInv /\ [ServicesNext]_servicesVars => RateInv'
  BY ServicesStep, RateKept
<1>3. RateInv => LimiterKeepsWord
  BY RateInvImplies
<1> QED BY <1>1, <1>2, <1>3, PTL DEF ServicesSpec

(* A view shows what lies around the nodes it was asked for, and says so    *)
(* when it leaves some of it out; a timeline does the same with the rows it *)
(* selects; although rows are committed between the selects: for any graph, *)
(* depth and limits (GraphService._bfs, TimelineService._build).           *)
THEOREM ViewsAreHonest == ServicesSpec => []ViewsHonest
<1> DEFINE Both == ViewInv /\ TimelineInv
<1>1. ServicesInit => Both
  BY ViewStarts, TimelineInitially DEF ServicesInit
<1>2. Both /\ [ServicesNext]_servicesVars => Both'
  BY ServicesStep, ViewKept, TimelineStepKeeps
<1>3. Both => ViewsHonest
  BY ViewInvImplies DEF TimelineInv, ViewsHonest
<1> QED BY <1>1, <1>2, <1>3, PTL DEF ServicesSpec

(* What a username search says of a platform comes from that platform, read *)
(* by fetches of checked URLs: no failure goes unnoted, the edges carry the *)
(* confidence of the adapter that found the account, and accounts are       *)
(* likened only on corroborated signals; in whatever order the platforms    *)
(* answer, with whatever redirects and errors, for any number of redirects  *)
(* (SafeFetcher, UsernameOsintCollector, _link_same_as, score_account).     *)
THEOREM FindingsAreSourced == ServicesSpec => []FindingsSourced
<1>1. ServicesInit => OsintInv
  BY OsintStarts DEF ServicesInit
<1>2. OsintInv /\ [ServicesNext]_servicesVars => OsintInv'
  BY ServicesStep, OsintStepKeeps
<1>3. OsintInv => FindingsSourced
  BY OsintInvImplies
<1> QED BY <1>1, <1>2, <1>3, PTL DEF ServicesSpec

(* A search for a handle that one account has always had answers with its  *)
(* row, and a message is filed with the chat it names, although handles    *)
(* move and rows lack ids or names; for any entities and handles, renames  *)
(* and rows (TelegramIntelService._run, IngestionService._ingest_message). *)
THEOREM AnswersAreRight == ServicesSpec => []AnswersMatch
<1>1. ServicesInit => SearchInv
  BY SearchStarts DEF ServicesInit
<1>2. SearchInv /\ [ServicesNext]_servicesVars => SearchInv'
  BY ServicesStep, SearchKept
<1>3. SearchInv => AnswersMatch
  BY DEF SearchInv
<1> QED BY <1>1, <1>2, <1>3, PTL DEF ServicesSpec
-----------------------------------------------------------------------------
(* The types of all services                                               *)

(* What the invariants of reports, timelines and investigations do not     *)
(* need of the types.                                                      *)
RequestFits ==
    /\ submitted \in BOOLEAN /\ tries \in 0..MaxTries
    /\ report.artifacts # {} => report.status = "COMPLETED"

TimelineFits == build.at = "done" => Cardinality(build.events) <= MaxEvents

AttemptsFit == attempt.number \in 0..MaxAttempts

LEMMA RequestFitsStill ==
  ASSUME ReportInv, RequestFits, [ReportsNext]_reportVars
  PROVE  RequestFits'
<1>1. MaxTries \in Nat /\ report.status \in {"none", "PENDING", "COMPLETED", "FAILED"}
      /\ report = [status |-> report.status, content |-> report.content,
                   artifacts |-> report.artifacts]
  BY ReportsAssumption DEF ReportInv, ReportsTyped
<1>2. CASE UNCHANGED <<report, submitted, tries>>
  BY <1>2 DEF RequestFits
<1>3. CASE RequestReport
  <2>1. report.artifacts = {} /\ submitted \in BOOLEAN /\ tries \in 0..MaxTries
    BY <1>3 DEF RequestReport, RequestFits
  <2>2. report'.artifacts = {}
    BY <1>1, <1>3, <2>1 DEF RequestReport
  <2> QED BY <1>3, <2>1, <2>2 DEF RequestReport, RequestFits
<1>4. CASE SubmitReport
  BY <1>4 DEF SubmitReport, RequestFits
<1>5. ASSUME NEW g \in Generators, Generate(g) PROVE RequestFits'
  <2>1. tries < MaxTries /\ tries' = tries + 1 /\ UNCHANGED <<report, submitted>>
    BY <1>5 DEF Generate
  <2>2. tries \in 0..MaxTries
    BY DEF RequestFits
  <2>3. tries' \in 0..MaxTries
    BY <1>1, <2>1, <2>2
  <2> QED BY <2>1, <2>3 DEF RequestFits
<1>6. ASSUME NEW g \in Generators, CommitReport(g) PROVE RequestFits'
  <2>1. CASE AtStep(g, "failed")
    <3>1. ~hasTarget
      BY <2>1 DEF ReportInv, GenFits, AtStep
    <3>2. report.artifacts = {}
      BY <3>1 DEF ReportInv, FilesFollow, RequestFits
    <3>3. report'.artifacts = {}
      BY <1>1, <1>6, <2>1, <3>2 DEF CommitReport, AtStep
    <3> QED BY <1>6, <3>3 DEF CommitReport, RequestFits
  <2>2. CASE ~AtStep(g, "failed")
    BY <1>6, <2>2 DEF CommitReport, RequestFits
  <2> QED BY <2>1, <2>2
<1>7. CASE ReportsNext
  BY <1>2, <1>3, <1>4, <1>5, <1>6, <1>7
     DEF ReportsNext, Collect, Cite, ListEvidence, WriteArtifact, LoseReport
<1> QED BY <1>2, <1>7 DEF reportVars

LEMMA TimelineFitsStill ==
  ASSUME TimelineInv, TimelineFits, [TimelineNext]_timelineVars
  PROVE  TimelineFits'
<1>1. IsFiniteSet(ledger) /\ build.events \subseteq ledger \X TimelineEntities
      /\ build.at \in {"idle", "select", "done"}
  BY DEF TimelineInv, LedgerFits, BuildFits
<1>2. CASE UNCHANGED build
  BY <1>2 DEF TimelineFits
<1>3. ASSUME NEW entities, AskTimeline(entities) PROVE TimelineFits'
  BY <1>3 DEF AskTimeline, NewBuild, TimelineFits
<1>4. CASE Select
  <2>1. build.at = "select"
    BY <1>4 DEF Select
  <2>2. build'.at = build.at
    BY <1>4 DEF Select, TimelineInv, BuildFits
  <2> QED BY <2>1, <2>2 DEF TimelineFits
<1>5. CASE ReturnTimeline
  <2>1. PICK S \in Cut(build.events) :
           build' = [build EXCEPT !.at = "done", !.events = S,
                                  !.truncated = Cardinality(build.events) > MaxEvents]
    BY <1>5 DEF ReturnTimeline
  <2>2. build'.events = S
    <3>1. build \in [at : {"idle", "select", "done"}, entities : SUBSET TimelineEntities,
                  todo : Seq(RowKinds \X TimelineEntities),
                  events : SUBSET (ledger \X TimelineEntities), truncated : BOOLEAN]
      BY DEF TimelineInv, BuildFits
    <3> QED BY <2>1, <3>1
  <2>3. IsFiniteSet(build.events)
    <3>1. IsFiniteSet(TimelineEntities)
      <4>1. IsFiniteSet({"target"} \cup {"channel"} \cup {"external"})
        BY FS_Singleton, FS_AddElement
      <4>2. TimelineEntities = {"target"} \cup {"channel"} \cup {"external"}
        BY DEF TimelineEntities
      <4> QED BY <4>1, <4>2
    <3> QED BY <1>1, <3>1, FS_Product, FS_Subset
  <2>4. Cardinality(build.events) \in Nat
    BY <2>3, FS_CardinalityType
  <2>5. Cardinality(S) <= MaxEvents
    BY <2>4, TimelineAssumption DEF Cut
  <2> QED BY <2>2, <2>5 DEF TimelineFits
<1>6. CASE TimelineNext
  BY <1>2, <1>3, <1>4, <1>5, <1>6
     DEF TimelineNext, ForEntity, ForTarget, CommitEvidence, CommitLink, CommitMessage,
         CommitStray, CommitRows
<1> QED BY <1>2, <1>6 DEF timelineVars

LEMMA AttemptsFitStill ==
  ASSUME FootInv, AttemptsFit, [FootNext]_footVars
  PROVE  AttemptsFit'
<1>1. /\ attempt.number \in Nat /\ MaxAttempts \in Nat
      /\ attempt = [number |-> attempt.number, at |-> attempt.at, target |-> attempt.target,
            operator |-> attempt.operator, source |-> attempt.source,
            profile |-> attempt.profile, found |-> attempt.found, rows |-> attempt.rows,
            aliases |-> attempt.aliases, dossier |-> attempt.dossier]
  BY FootprintAssumption DEF FootInv, AttemptFits
<1>2. CASE UNCHANGED attempt
  BY <1>2 DEF AttemptsFit
<1>3. CASE BeginAttempt
  BY <1>1, <1>3 DEF BeginAttempt, NewAttempt, AttemptsFit
<1>4. CASE Profile \/ SearchPosts \/ Correlate \/ Report \/ CommitAttempt
  <2>1. attempt'.number = attempt.number
    BY <1>1, <1>4 DEF Profile, SearchPosts, Correlate, Report, CommitAttempt
  <2> QED BY <2>1 DEF AttemptsFit
<1>5. CASE RaiseAttempt
  BY <1>5 DEF RaiseAttempt, NewAttempt, AttemptsFit
<1> QED BY <1>2, <1>3, <1>4, <1>5 DEF FootNext, footVars

(* A row's type is one of the classifier's.                                *)
LEMMA ObservationTypes ==
  ASSUME NEW n \in Nat, NEW t \in {"username", "id"}, NEW found \in Seq(Posts),
         NEW r \in BuildObservations(n, t, found)
  PROVE  r.type \in ObservationKinds
<1>1. PICK i \in Validated(found) : r = AddObservation(n, i, t, found[i])
  BY DEF BuildObservations
<1>2. found[i] \in Posts
  BY <1>1 DEF Validated
<1>3. found[i].by \in {"target", "other"} /\ found[i].reply \in BOOLEAN
  BY <1>2, FootprintAssumption DEF PostRows
<1>4. r.type = Classify(t, found[i])[1]
  BY <1>1 DEF AddObservation
<1>5. CASE t = "username"
  BY <1>3, <1>4, <1>5 DEF Classify, ObservationKinds
<1>6. CASE t = "id"
  BY <1>3, <1>4, <1>6 DEF Classify, ObservationKinds
<1> QED BY <1>5, <1>6

LEMMA WatchTypes == WatchInv => WatchTypeOK
<1> SUFFICES ASSUME WatchInv PROVE WatchTypeOK
  OBVIOUS
<1>1. WatchTyped
  BY DEF WatchInv
<1>2. ASSUME NEW s \in Sessions, sess[s] # NoSession
      PROVE  /\ sess[s].pc \in {"user", "newuser", "keepuser", "lookup", "count", "insert",
                             "update", "keep", "submit"}
             /\ sess[s].via \in Vias /\ sess[s].op \in {"add", "remove"} /\ sess[s].v \in Values
             /\ sess[s].user \in BOOLEAN /\ sess[s].dirty \in BOOLEAN
             /\ sess[s].row \in {"none", "active", "inactive"}
  <2>1. sess[s] \in Session
    BY <1>1, <1>2 DEF WatchTyped
  <2> QED BY <2>1 DEF Session, WatchRow
<1> QED BY <1>1, <1>2 DEF WatchTyped, WatchTypeOK, WatchRow, Watched

LEMMA ReportsTypes == ReportInv /\ RequestFits => ReportsTypeOK
<1> SUFFICES ASSUME ReportInv, RequestFits PROVE ReportsTypeOK
  OBVIOUS
<1>1. ReportsTyped
  BY DEF ReportInv
<1>2. ASSUME NEW g \in Generators
      PROVE  /\ gen[g].at \in {"idle", "cite", "list", "write", "failed"}
             /\ gen[g].built \in Content
             /\ gen[g].wrote # {} => gen[g].at = "write"
  BY <1>1 DEF ReportsTyped, GenRow, ReportInv, GenFits
<1>3. report.status \in {"none", "PENDING", "COMPLETED", "FAILED"} /\ report.content \in Content
  BY <1>1 DEF ReportsTyped
<1>4. disk \in [Formats -> Content \cup {NoFile}]
  BY <1>1 DEF ReportsTyped
<1> QED BY <1>1, <1>2, <1>3, <1>4 DEF ReportsTyped, RequestFits, ReportsTypeOK

LEMMA FootTypes == FootInv /\ AttemptsFit => FootTypeOK
<1> SUFFICES ASSUME FootInv, AttemptsFit PROVE FootTypeOK
  OBVIOUS
<1> DEFINE a == attempt
<1>1. AttemptFits(a)
  BY DEF FootInv
<1>2. a.number \in Nat /\ a.target \in {"username", "id"} /\ a.found \in Seq(Posts)
      /\ a.source \in BOOLEAN /\ a.rows = ObservationsOf(a)
  BY <1>1 DEF AttemptFits
<1> HIDE DEF a
<1>3. \A r \in ObservationsOf(a) : r.type \in ObservationKinds /\ r.confidence \in 0..100
  BY <1>2, ObservationFacts, ObservationTypes DEF ObservationsOf
<1>4. \A r \in observed \cup a.rows : r.type \in ObservationKinds /\ r.confidence \in 0..100
  BY <1>2, <1>3 DEF FootInv, a
<1>5. dossier.made => dossier.content.summary.confidence \in (0..95) \cup {NoScore}
  <2> SUFFICES ASSUME dossier.made
      PROVE  dossier.content.summary.confidence \in (0..95) \cup {NoScore}
    OBVIOUS
  <2>1. a.at = "done" /\ dossier = a.dossier
    BY DEF FootInv, NoDossier, a
  <2>2. dossier = DossierOf(a) /\ Scores(a.aliases) \subseteq 0..100
    BY <1>1, <2>1 DEF AttemptFits
  <2>3. dossier.content.summary.confidence = ConfidenceOf(a)
    BY <2>2 DEF DossierOf, InvestigationContent
  <2>4. Best(a.aliases) \in (0..100) \cup {NoScore}
    BY <2>2, BestFacts
  <2>5. Percentages(ObservationsOf(a))
    BY <1>3 DEF Percentages
  <2>6. ConfidenceOf(a) # NoScore => ConfidenceOf(a) \in 0..95
    BY <2>4, <2>5, OverallFacts DEF ConfidenceOf
  <2> QED BY <2>3, <2>6
<1> QED BY <1>2, <1>4, <1>5 DEF FootTypeOK, AttemptsFit, a

LEMMA TimelineTypes == TimelineInv /\ TimelineFits => TimelineTypeOK
<1> SUFFICES ASSUME TimelineInv, TimelineFits PROVE TimelineTypeOK
  OBVIOUS
<1>1. build.events \subseteq ledger \X TimelineEntities
  BY DEF TimelineInv, BuildFits
<1> QED BY <1>1 DEF TimelineInv, BuildFits, TimelineFits, TimelineTypeOK

(* Every service keeps its types: among others, no retry goes beyond        *)
(* max_retries, only a completed report lists artifacts, a timeline is no   *)
(* longer than its limit, confidences are percentages and every hit is in   *)
(* the order of its time; for any values of all services' constants         *)
(* (the row and record types named in the modules).                        *)
THEOREM ServicesTyped == ServicesSpec => []ServicesTypeOK
<1> DEFINE Own == InvestigationInv /\ WatchInv /\ ReportInv /\ FootInv /\ TimelineInv
           Rest == RequestFits /\ TimelineFits /\ AttemptsFit
           Answers == RateInv /\ ViewInv /\ OsintInv /\ SearchInv
           All == service \in ServiceNames /\ Own /\ Rest /\ Answers
<1>1. ServicesInit => All
  <2>1. ReportsInit => RequestFits
    <3> SUFFICES ASSUME ReportsInit PROVE RequestFits
      OBVIOUS
    <3>1. submitted = FALSE /\ tries = 0 /\ report = NoReportRow /\ MaxTries \in Nat
      BY ReportsAssumption DEF ReportsInit
    <3>2. NoReportRow.artifacts = {}
      BY DEF NoReportRow
    <3>3. submitted \in BOOLEAN /\ report.artifacts = {}
      BY <3>1, <3>2, Zenon
    <3>4. tries \in 0..MaxTries
      BY <3>1
    <3> QED BY <3>3, <3>4 DEF RequestFits
  <2>2. TimelineInit => TimelineFits
    BY DEF TimelineInit, NewBuild, TimelineFits
  <2>3. FootInit => AttemptsFit
    BY FootprintAssumption DEF FootInit, NewAttempt, AttemptsFit
  <2> QED
    BY <2>1, <2>2, <2>3, InvestigationStarts, WatchInitially, ReportsInitially, FootStarts,
       TimelineInitially, RateStarts, ViewStarts, OsintStarts, SearchStarts DEF ServicesInit
<1>2. All /\ [ServicesNext]_servicesVars => All'
  <2> SUFFICES ASSUME All, [ServicesNext]_servicesVars PROVE All'
    OBVIOUS
  <2>1. service' = service
    BY DEF ServicesNext, servicesVars
  <2>2. Own'
    BY ServicesStep, InvestigationStepKeeps, WatchStepKeeps, ReportStepKeeps, FootStepKeeps,
       TimelineStepKeeps
  <2>3. Rest'
    BY ServicesStep, RequestFitsStill, TimelineFitsStill, AttemptsFitStill
  <2>4. Answers'
    BY ServicesStep, RateKept, ViewKept, OsintStepKeeps, SearchKept
  <2> QED BY <2>1, <2>2, <2>3, <2>4
<1>3. All => ServicesTypeOK
  BY WatchTypes, ReportsTypes, FootTypes, TimelineTypes, RateInvImplies, ViewInvImplies,
     OsintInvImplies DEF InvestigationInv, SearchInv, SearchTyped, ServicesTypeOK
<1> QED BY <1>1, <1>2, <1>3, PTL DEF ServicesSpec
=============================================================================
