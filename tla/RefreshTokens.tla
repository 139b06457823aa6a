--------------------------- MODULE RefreshTokens ----------------------------
(***************************************************************************)
(* Refresh-token rotation: RefreshTokenRepository and the login, refresh   *)
(* and logout endpoints of apps/api/routers/auth.py, for the tokens of one *)
(* user.  Tokens are numbered in the order they are inserted.              *)
(*                                                                         *)
(* Each request is one transaction (db_session).  rotate locks the row it  *)
(* reads (FOR UPDATE); revoke and revoke_all read without a lock and lock  *)
(* the rows they update until they commit.  No code deactivates a user, so *)
(* rotate's user check always passes.                                      *)
(***************************************************************************)
EXTENDS Naturals, FiniteSets

CONSTANTS Requests,      \* requests in progress at the same time
          MaxTokens      \* tokens ever inserted

ASSUME TokensAssumption == MaxTokens \in Nat

Tokens == 1..MaxTokens

VARIABLES
    issued,       \* rows inserted so far, committed or not
    status,       \* committed rows: "absent", "active" or "revoked" (revoked_at set)
    expired,      \* expires_at has passed
    parent,       \* history: the token a row replaces, 0 for a login
    pc,           \* per request: where it is
    tok,          \* per request: the token presented
    new,          \* per request: the row it inserted, 0 if none
    todo,         \* per request: rows revoke_all has read and not updated yet
    done,         \* per request: rows it has updated, locked until it ends
    covered       \* history: tokens a committed reuse detection has revoked

vars == <<issued, status, expired, parent, pc, tok, new, todo, done, covered>>

Phases == {"idle", "issuing", "presented", "rotating", "revoking", "logout", "loggingout"}

\* Types; in particular a token's row exists only once issued, and a token only
\* replaces an older one (RefreshTokenRepository.issue).
TypeOK == /\ issued \in 0..MaxTokens
          /\ status \in [Tokens -> {"absent", "active", "revoked"}]
          /\ \A t \in Tokens : t > issued => status[t] = "absent"
          /\ expired \in [Tokens -> BOOLEAN]
          /\ parent \in [Tokens -> 0..MaxTokens]
          /\ \A t \in Tokens : parent[t] < t
          /\ pc \in [Requests -> Phases]
          /\ tok \in [Requests -> 0..MaxTokens]
          /\ new \in [Requests -> 0..MaxTokens]
          /\ todo \in [Requests -> SUBSET Tokens]
          /\ done \in [Requests -> SUBSET Tokens]
          /\ covered \subseteq Tokens

Init == /\ issued = 0
        /\ status = [t \in Tokens |-> "absent"]
        /\ expired = [t \in Tokens |-> FALSE]
        /\ parent = [t \in Tokens |-> 0]
        /\ pc = [r \in Requests |-> "idle"]
        /\ tok = [r \in Requests |-> 0]
        /\ new = [r \in Requests |-> 0]
        /\ todo = [r \in Requests |-> {}]
        /\ done = [r \in Requests |-> {}]
        /\ covered = {}

\* The row locks a request holds: the row read FOR UPDATE and the rows it has
\* updated.
Holds(r) == done[r] \cup (IF pc[r] \in {"rotating", "revoking"} THEN {tok[r]} ELSE {})

Free(r, t) == \A q \in Requests \ {r} : t \notin Holds(q)

\* RefreshToken.is_active
IsActive(t) == status[t] = "active" /\ ~expired[t]

Active == {t \in Tokens : status[t] = "active"}
Committed == {t \in Tokens : status[t] # "absent"}

Finish(r) == /\ pc' = [pc EXCEPT ![r] = "idle"]
             /\ tok' = [tok EXCEPT ![r] = 0]
             /\ new' = [new EXCEPT ![r] = 0]
             /\ todo' = [todo EXCEPT ![r] = {}]
             /\ done' = [done EXCEPT ![r] = {}]

\* Mutant: replaced_by is set to the row's own id.
IssueReplacesItself(r, replaces) ==
    /\ issued < MaxTokens
    /\ issued' = issued + 1
    /\ parent' = [parent EXCEPT ![issued + 1] = issued + 1]
    /\ new' = [new EXCEPT ![r] = issued + 1]

\* issue: the row is inserted and flushed.
Issue(r, replaces) ==
    /\ issued < MaxTokens
    /\ issued' = issued + 1
    /\ parent' = [parent EXCEPT ![issued + 1] = replaces]
    /\ new' = [new EXCEPT ![r] = issued + 1]
-----------------------------------------------------------------------------
(* POST /auth/login                                                        *)

Login(r) ==
    /\ pc[r] = "idle"
    /\ Issue(r, 0)
    /\ pc' = [pc EXCEPT ![r] = "issuing"]
    /\ UNCHANGED <<status, expired, tok, todo, done, covered>>

LoginCommit(r) ==
    /\ pc[r] = "issuing"
    /\ status' = [status EXCEPT ![new[r]] = "active"]
    /\ Finish(r)
    /\ UNCHANGED <<issued, expired, parent, covered>>
-----------------------------------------------------------------------------
(* POST /auth/refresh                                                      *)

Present(r, t) ==
    /\ pc[r] = "idle"
    /\ t \in Committed
    /\ pc' = [pc EXCEPT ![r] = "presented"]
    /\ tok' = [tok EXCEPT ![r] = t]
    /\ UNCHANGED <<issued, status, expired, parent, new, todo, done, covered>>

\* A token of no row is refused by refresh and ignored by logout, as is one
\* already revoked by logout.
NotFound(r) == pc[r] = "idle" /\ UNCHANGED vars

\* Mutant: the row is read without FOR UPDATE.
MayLockAlways(r) == TRUE

\* SELECT ... FOR UPDATE returns when no other transaction has the row.
MayLock(r) == Free(r, tok[r])

\* An active token: issue its successor; the row's own update is flushed too.
Rotate(r) ==
    /\ pc[r] = "presented"
    /\ MayLock(r)
    /\ IsActive(tok[r])
    /\ Issue(r, tok[r])
    /\ pc' = [pc EXCEPT ![r] = "rotating"]
    /\ UNCHANGED <<status, expired, tok, todo, done, covered>>

\* Mutant: revoked_at of the old row is not set.
RotateCommitKeepsOld(r) ==
    /\ pc[r] = "rotating"
    /\ status' = [status EXCEPT ![new[r]] = "active"]
    /\ Finish(r)
    /\ UNCHANGED <<issued, expired, parent, covered>>

RotateCommit(r) ==
    /\ pc[r] = "rotating"
    /\ status' = [status EXCEPT ![tok[r]] = "revoked", ![new[r]] = "active"]
    /\ Finish(r)
    /\ UNCHANGED <<issued, expired, parent, covered>>

\* A used or expired token: revoke_all reads the rows it will revoke.
DetectReuse(r) ==
    /\ pc[r] = "presented"
    /\ MayLock(r)
    /\ ~IsActive(tok[r])
    /\ todo' = [todo EXCEPT ![r] = Active]
    /\ pc' = [pc EXCEPT ![r] = "revoking"]
    /\ UNCHANGED <<issued, status, expired, parent, tok, new, done, covered>>

\* revoke_all's flush: one UPDATE per row, in primary-key order, which is any
\* order with respect to age; each waits for the row.
RevokeRow(r, t) ==
    /\ pc[r] = "revoking"
    /\ t \in todo[r]
    /\ Free(r, t)
    /\ todo' = [todo EXCEPT ![r] = @ \ {t}]
    /\ done' = [done EXCEPT ![r] = @ \cup {t}]
    /\ UNCHANGED <<issued, status, expired, parent, pc, tok, new, covered>>

\* Mutant: the error unwinds without session.commit() and is rolled back.
RevocationLost(r) == UNCHANGED status

Revocation(r) == status' = [t \in Tokens |-> IF t \in done[r] THEN "revoked" ELSE status[t]]

\* The endpoint commits before it answers 401.
RevokeCommit(r) ==
    /\ pc[r] = "revoking"
    /\ todo[r] = {}
    /\ Revocation(r)
    /\ covered' = covered \cup done[r]
    /\ Finish(r)
    /\ UNCHANGED <<issued, expired, parent>>
-----------------------------------------------------------------------------
(* POST /auth/logout                                                       *)

\* revoke: the row is read without a lock; one already revoked is left alone.
LogoutRead(r, t) ==
    /\ pc[r] = "idle"
    /\ status[t] = "active"
    /\ pc' = [pc EXCEPT ![r] = "logout"]
    /\ tok' = [tok EXCEPT ![r] = t]
    /\ UNCHANGED <<issued, status, expired, parent, new, todo, done, covered>>

LogoutWrite(r) ==
    /\ pc[r] = "logout"
    /\ Free(r, tok[r])
    /\ done' = [done EXCEPT ![r] = {tok[r]}]
    /\ pc' = [pc EXCEPT ![r] = "loggingout"]
    /\ UNCHANGED <<issued, status, expired, parent, tok, new, todo, covered>>

LogoutCommit(r) ==
    /\ pc[r] = "loggingout"
    /\ Revocation(r)
    /\ Finish(r)
    /\ UNCHANGED <<issued, expired, parent, covered>>
-----------------------------------------------------------------------------
\* A request is cut off, or is the victim of a deadlock: rolled back.
Abort(r) ==
    /\ pc[r] # "idle"
    /\ Finish(r)
    /\ UNCHANGED <<issued, status, expired, parent, covered>>

Expire(t) ==
    /\ status[t] # "absent"
    /\ ~expired[t]
    /\ expired' = [expired EXCEPT ![t] = TRUE]
    /\ UNCHANGED <<issued, status, parent, pc, tok, new, todo, done, covered>>

Next == \/ \E r \in Requests : \/ Login(r) \/ LoginCommit(r)
                               \/ Rotate(r) \/ RotateCommit(r)
                               \/ DetectReuse(r) \/ RevokeCommit(r)
                               \/ LogoutWrite(r) \/ LogoutCommit(r)
                               \/ NotFound(r) \/ Abort(r)
        \/ \E r \in Requests, t \in Tokens :
              Present(r, t) \/ RevokeRow(r, t) \/ LogoutRead(r, t)
        \/ \E t \in Tokens : Expire(t)

Spec == Init /\ [][Next]_vars
-----------------------------------------------------------------------------
(* Properties                                                              *)

Successors(t) == {c \in Committed : parent[c] = t}

\* "the second waiter then sees revoked_at set and falls into reuse detection
\* instead of minting a second valid successor": however refreshes, logouts
\* and revocations of the same token race, it is replaced at most once (rotate).
OneSuccessor == \A t \in Tokens : Cardinality(Successors(t)) <= 1


\* The login a token descends from.
Root[t \in Tokens] == IF parent[t] = 0 THEN t ELSE Root[parent[t]]

\* A login is represented by at most one live token at any time, however its
\* refreshes race with each other (rotate).
OneLiveTokenPerLogin ==
    \A s, t \in Active : Root[s] = Root[t] => s = t

\* What a detected reuse has revoked stays revoked although the endpoint
\* answers with an error and db_session rolls back on errors (refresh).
ReuseRevokes == \A t \in covered : status[t] = "revoked"

\* A stolen refresh token is worth one use: no exchange leaves a second chain
\* of tokens beside the first, and the detection of a second use outlives the
\* error it answers with (rotate, refresh).
TokensSafe == OneSuccessor /\ OneLiveTokenPerLogin /\ ReuseRevokes
=============================================================================
