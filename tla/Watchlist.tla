----------------------------- MODULE Watchlist ------------------------------
(***************************************************************************)
(* The watchlist of one user, changed through the bot (/watch, /unwatch)   *)
(* and through the API at the same time: WatchlistRepository, the user row *)
(* both create when they first meet the user, and the limit on watches,    *)
(* which is counted and then used without a lock.                          *)
(*                                                                         *)
(* The bot uses a transaction for the user row and another for the watch;  *)
(* an API request is one transaction.  Transactions read committed rows.   *)
(* Requests wait for each other only in the database.                      *)
(* The target row a /watch also writes in its transaction has a key of its *)
(* own and is resolved as TelegramEntities models.                         *)
(***************************************************************************)
EXTENDS Naturals, FiniteSets

CONSTANTS Sessions,       \* commands and requests in progress at the same time
          Values,         \* what may be watched
          MaxWatches      \* RATE_LIMIT_WATCH_MAX_TARGETS

ASSUME WatchAssumption == /\ IsFiniteSet(Sessions) /\ Sessions # {}
                          /\ IsFiniteSet(Values) /\ MaxWatches \in Nat

VARIABLES
    users,          \* committed rows of this user
    watch,          \* per value, the committed row: "none", "active" or "inactive"
    sess,           \* per session: where it is and what it has not committed yet
    reactivated     \* history: values active because an old row was switched on again

watchVars == <<users, watch, sess, reactivated>>

Vias == {"bot", "api"}
NoSession == [pc |-> "idle"]

WatchTypeOK ==
    /\ users \in Nat
    /\ watch \in [Values -> {"none", "active", "inactive"}]
    /\ \A s \in Sessions :
          sess[s] = NoSession \/
          /\ sess[s].pc \in {"user", "newuser", "keepuser", "lookup", "count", "insert",
                             "update", "keep", "submit"}
          /\ sess[s].via \in Vias /\ sess[s].op \in {"add", "remove"} /\ sess[s].v \in Values
          /\ sess[s].user \in BOOLEAN /\ sess[s].dirty \in BOOLEAN
          /\ sess[s].row \in {"none", "active", "inactive"}
    /\ reactivated \subseteq {v \in Values : watch[v] = "active"}

WatchInit ==
    /\ users = 0
    /\ watch = [v \in Values |-> "none"]
    /\ sess = [s \in Sessions |-> NoSession]
    /\ reactivated = {}

At(s, pc) == sess[s].pc = pc
Move(s, pc) == sess' = [sess EXCEPT ![s].pc = pc]
Quit(s) == sess' = [sess EXCEPT ![s] = NoSession]

Command(s, via, op, v) ==
    /\ At(s, "idle")
    /\ sess' = [sess EXCEPT ![s] = [pc |-> "user", via |-> via, op |-> op, v |-> v,
                                    user |-> FALSE, row |-> "none", dirty |-> FALSE]]
    /\ UNCHANGED <<users, watch, reactivated>>

\* get_by_telegram_id, get_by_email
FindUser(s) ==
    /\ At(s, "user")
    /\ Move(s, IF users > 0 THEN "lookup" ELSE "newuser")
    /\ UNCHANGED <<users, watch, reactivated>>

\* An insert waits for an uncommitted one with the same key.
InsertingUser(s) == \E q \in Sessions \ {s} : ~At(q, "idle") /\ sess[q].user

\* Mutant: the e-mail made from the Telegram id is not unique.
UserKeyTakenNever(s) == FALSE

\* uq_user_email
UserKeyTaken(s) == users > 0

\* The flush in create: a key that is taken by then raises, and the request or
\* command ends with an error.
CreateUser(s) ==
    /\ At(s, "newuser") /\ ~InsertingUser(s)
    /\ IF UserKeyTaken(s) THEN Quit(s)
       ELSE sess' = [sess EXCEPT ![s].user = TRUE,
                                 ![s].pc = IF sess[s].via = "bot"
                                           THEN "keepuser" ELSE "lookup"]
    /\ UNCHANGED <<users, watch, reactivated>>

\* The bot's own transaction for the user row.
CommitUser(s) ==
    /\ At(s, "keepuser")
    /\ users' = users + 1
    /\ sess' = [sess EXCEPT ![s].user = FALSE, ![s].pc = "lookup"]
    /\ UNCHANGED <<watch, reactivated>>

\* The row: an active one is left alone by add, an inactive one by
\* remove; a new one is counted first.
Lookup(s) ==
    /\ At(s, "lookup")
    /\ LET row == watch[sess[s].v]
       IN  sess' = [sess EXCEPT
              ![s].row = IF sess[s].op = "add" THEN "active" ELSE "inactive",
              ![s].pc = IF sess[s].op = "add"
                        THEN CASE row = "active" -> "keep" [] row = "inactive" -> "update"
                               [] row = "none" -> "count"
                        ELSE IF row = "active" THEN "update" ELSE "keep"]
    /\ UNCHANGED <<users, watch, reactivated>>

Watched == {v \in Values : watch[v] = "active"}

\* Mutant: one too many.
HasRoomInclusive == Cardinality(Watched) <= MaxWatches

\* count_active, only for a new row.
HasRoom == Cardinality(Watched) < MaxWatches

\* Over the limit: the API's error rolls everything back, the bot has nothing
\* to commit.
CountActive(s) ==
    /\ At(s, "count")
    /\ IF HasRoom THEN Move(s, "insert") ELSE Quit(s)
    /\ UNCHANGED <<users, watch, reactivated>>

\* Another transaction has written the row and not committed.
RowTaken(s) == \E q \in Sessions \ {s} :
                  At(q, "keep") /\ sess[q].v = sess[s].v /\ sess[q].dirty

\* The flush in add; the unique key refuses a row inserted meanwhile.
InsertWatch(s) ==
    /\ At(s, "insert") /\ ~RowTaken(s)
    /\ IF watch[sess[s].v] # "none" THEN Quit(s)
       ELSE sess' = [sess EXCEPT ![s].pc = "keep", ![s].dirty = TRUE]
    /\ UNCHANGED <<users, watch, reactivated>>

\* UPDATE of is_active, whatever it has become since it was read.
UpdateWatch(s) ==
    /\ At(s, "update") /\ ~RowTaken(s)
    /\ sess' = [sess EXCEPT ![s].pc = "keep", ![s].dirty = TRUE]
    /\ UNCHANGED <<users, watch, reactivated>>

\* Values whose old row this commit switches on, and those it switches off.
Reactivated(s) ==
    LET v == sess[s].v
    IN  CASE sess[s].dirty /\ sess[s].row = "inactive" -> reactivated \ {v}
          [] sess[s].dirty /\ sess[s].row = "active" /\ watch[v] = "inactive" ->
                reactivated \cup {v}
          [] OTHER -> reactivated

CommitWatch(s) ==
    /\ At(s, "keep")
    /\ users' = IF sess[s].user THEN users + 1 ELSE users
    /\ watch' = IF sess[s].dirty THEN [watch EXCEPT ![sess[s].v] = sess[s].row] ELSE watch
    /\ reactivated' = Reactivated(s)
    /\ IF sess[s].via = "bot" /\ sess[s].op = "add"
       THEN sess' = [sess EXCEPT ![s].pc = "submit", ![s].user = FALSE, ![s].dirty = FALSE]
       ELSE Quit(s)

\* submit_job(kind="watch_poll") after the commit; JobRunner models what it does.
SubmitPoll(s) ==
    /\ At(s, "submit")
    /\ Quit(s)
    /\ UNCHANGED <<users, watch, reactivated>>

\* An error or the end of the process: what is not committed is rolled back.
AbortSession(s) ==
    /\ ~At(s, "idle")
    /\ Quit(s)
    /\ UNCHANGED <<users, watch, reactivated>>

WatchNext ==
    \E s \in Sessions :
        \/ \E via \in Vias, op \in {"add", "remove"}, v \in Values : Command(s, via, op, v)
        \/ FindUser(s) \/ CreateUser(s) \/ CommitUser(s)
        \/ Lookup(s) \/ CountActive(s) \/ InsertWatch(s) \/ UpdateWatch(s)
        \/ CommitWatch(s) \/ SubmitPoll(s) \/ AbortSession(s)
-----------------------------------------------------------------------------
(* Properties                                                              *)

\* The user never has two rows, which would make every later lookup raise: only
\* the unique e-mail stops two sessions that both found none from creating one
\* each (get_or_create_for_telegram, resolve_user).
OneUserRow == users <= 1

\* The limit on watches is exceeded by no more than the adds in progress beside
\* the last one and the old rows switched on again, which are not counted (add).
OvershootBounded ==
    Cardinality(Watched \ reactivated) < MaxWatches + Cardinality(Sessions)

\* Sessions that check and then insert add one user and a bounded number of
\* watches too many (resolve_user, add).
WatchlistBounded == OneUserRow /\ OvershootBounded
=============================================================================
