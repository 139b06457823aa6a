----------------------------- MODULE Dashboard ------------------------------
(***************************************************************************)
(* The dashboard's session in one browser: the access token in             *)
(* localStorage and the refresh cookie, shared by all tabs, the request    *)
(* helper that refreshes and retries once on 401 (lib/api.ts), and sign-in *)
(* and sign-out (lib/auth.tsx).                                            *)
(*                                                                         *)
(* The server is what RefreshTokens promises: a refresh token is exchanged *)
(* once, and presenting it again revokes every token of the user.  The     *)
(* clear-cookie of that answer is lost with the response object, because   *)
(* the endpoint raises.  Refresh tokens do not expire here, a request with *)
(* no access token is refused (production), and the next sign-out waits    *)
(* for the answer to the one before.                                       *)
(***************************************************************************)
EXTENDS Naturals, FiniteSets

CONSTANTS Fetches,        \* requests of all tabs in progress at the same time
          MaxRefresh      \* bound: refresh tokens ever issued

ASSUME DashboardAssumption == MaxRefresh \in Nat

VARIABLES
    minted,       \* refresh tokens issued so far
    liveTokens,   \* refresh tokens the server accepts
    cookie,       \* the browser's refresh token, 0 if none
    stored,       \* localStorage: "none", "valid" or "expired"
    user,         \* some tab shows a user as signed in
    fetch,        \* per request: where it is
    leaving,      \* the sign-out in progress and the token it carries
    serial,       \* history: the sign-in overlapped no request and no sign-out, and since
                  \* then no refresh has overlapped another or a sign-out, and no answer
                  \* to one was lost
    quiet         \* history: the last sign-out began with serial true and no request
                  \* in progress, no refresh began before its answer, and it was answered

dashboardVars == <<minted, liveTokens, cookie, stored, user, fetch, leaving, serial, quiet>>

RefreshIds == 1..MaxRefresh
NoFetch == [pc |-> "idle"]
NotLeaving == [pc |-> "no", token |-> 0]
Steps == {"idle", "sent", "unauthorized", "refreshing", "refreshed"}

DashboardTypeOK ==
    /\ minted \in 0..MaxRefresh /\ liveTokens \subseteq 1..minted
    /\ cookie \in 0..minted
    /\ leaving \in [pc : {"no", "sent", "served"}, token : 0..minted]
    /\ stored \in {"none", "valid", "expired"}
    /\ user \in BOOLEAN /\ serial \in BOOLEAN /\ quiet \in BOOLEAN
    /\ \A f \in Fetches : /\ fetch[f].pc \in Steps
                          /\ fetch[f].pc # "idle" => fetch[f].tries \in 1..2

DashboardInit ==
    /\ minted = 0 /\ liveTokens = {} /\ cookie = 0 /\ stored = "none" /\ user = FALSE
    /\ fetch = [f \in Fetches |-> NoFetch]
    /\ leaving = NotLeaving /\ serial = TRUE /\ quiet = FALSE

Refreshing(f) == fetch[f].pc \in {"refreshing", "refreshed"}

\* login: the answer sets the cookie and the access token.
SignIn ==
    /\ minted < MaxRefresh
    /\ minted' = minted + 1
    /\ liveTokens' = liveTokens \cup {minted + 1}
    /\ cookie' = minted + 1 /\ stored' = "valid" /\ user' = TRUE
    /\ serial' = (leaving = NotLeaving /\ \A f \in Fetches : fetch[f].pc = "idle")
    /\ quiet' = FALSE
    /\ UNCHANGED <<fetch, leaving>>

\* A wrong password changes nothing.
SignInFails == UNCHANGED dashboardVars

\* request: the access token is read from localStorage when the fetch starts.  A
\* tab that opens asks /auth/me if there is one.
Request(f, me) ==
    /\ fetch[f].pc = "idle" /\ IF me THEN stored # "none" ELSE user
    /\ fetch' = [fetch EXCEPT ![f] = [pc |-> "sent", token |-> stored, tries |-> 1,
                                      me |-> me, carries |-> 0]]
    /\ UNCHANGED <<minted, liveTokens, cookie, stored, user, leaving, serial, quiet>>

\* The error of the first me() of a tab drops the access token of all tabs.
Throw(f) ==
    /\ fetch' = [fetch EXCEPT ![f] = NoFetch]
    /\ stored' = IF fetch[f].me THEN "none" ELSE stored
    /\ UNCHANGED user

\* current_user: an expired or missing access token is 401; the first one is
\* followed by a refresh, except on the paths under /auth/.
Answer(f) ==
    /\ fetch[f].pc = "sent"
    /\ CASE fetch[f].token = "valid" ->
              /\ fetch' = [fetch EXCEPT ![f] = NoFetch]
              /\ user' = (user \/ fetch[f].me)
              /\ UNCHANGED stored
         [] fetch[f].token # "valid" /\ fetch[f].tries = 1 /\ ~fetch[f].me ->
              /\ fetch' = [fetch EXCEPT ![f].pc = "unauthorized"]
              /\ UNCHANGED <<stored, user>>
         [] OTHER -> Throw(f)
    /\ UNCHANGED <<minted, liveTokens, cookie, leaving, serial, quiet>>

\* tryRefresh: the browser attaches the cookie it has now.
AskRefresh(f) ==
    /\ fetch[f].pc = "unauthorized"
    /\ fetch' = [fetch EXCEPT ![f].pc = "refreshing", ![f].carries = cookie]
    /\ serial' = (serial /\ leaving = NotLeaving /\ \A g \in Fetches : ~Refreshing(g))
    /\ quiet' = (quiet /\ leaving = NotLeaving)
    /\ UNCHANGED <<minted, liveTokens, cookie, stored, user, leaving>>

\* POST /auth/refresh at the server; the answer carries the successor, 0 for 401.
ServeRefresh(f) ==
    /\ fetch[f].pc = "refreshing" /\ minted < MaxRefresh
    /\ LET t == fetch[f].carries
       IN  IF t \in liveTokens
           THEN /\ minted' = minted + 1
                /\ liveTokens' = (liveTokens \ {t}) \cup {minted + 1}
                /\ fetch' = [fetch EXCEPT ![f].pc = "refreshed", ![f].carries = minted + 1]
           ELSE /\ liveTokens' = IF t = 0 THEN liveTokens ELSE {}
                /\ fetch' = [fetch EXCEPT ![f].pc = "refreshed", ![f].carries = 0]
                /\ UNCHANGED minted
    /\ UNCHANGED <<cookie, stored, user, leaving, serial, quiet>>

\* Mutant: the answer to a refresh does not set the cookie.
NewCookieKept(f) == cookie

\* _set_refresh_cookie
NewCookie(f) == fetch[f].carries

\* The answer: setToken and the request again, once; or the 401 is thrown.
TakeRefresh(f) ==
    /\ fetch[f].pc = "refreshed"
    /\ IF fetch[f].carries = 0 THEN Throw(f) /\ UNCHANGED cookie
       ELSE /\ cookie' = NewCookie(f)
            /\ stored' = "valid"
            /\ fetch' = [fetch EXCEPT ![f].pc = "sent", ![f].token = "valid", ![f].tries = 2]
            /\ UNCHANGED user
    /\ UNCHANGED <<minted, liveTokens, leaving, serial, quiet>>

\* A request or an answer is lost.
LoseFetch(f) ==
    /\ fetch[f].pc \in {"sent", "refreshing", "refreshed"}
    /\ Throw(f)
    /\ serial' = (serial /\ ~(fetch[f].pc = "refreshed" /\ fetch[f].carries # 0))
    /\ UNCHANGED <<minted, liveTokens, cookie, leaving, quiet>>

\* logout: the request is sent and not waited for; other tabs go on showing a
\* user.
SignOut ==
    /\ user /\ leaving = NotLeaving
    /\ leaving' = [pc |-> "sent", token |-> cookie]
    /\ stored' = "none" /\ user' \in BOOLEAN
    /\ serial' = FALSE
    /\ quiet' = (serial /\ \A f \in Fetches : fetch[f].pc = "idle")
    /\ UNCHANGED <<minted, liveTokens, cookie, fetch>>

\* Mutant: the token is not revoked, only forgotten.
RevokedNone == liveTokens

\* revoke
Revoked == liveTokens \ {leaving.token}

\* POST /auth/logout at the server.
ServeSignOut ==
    /\ leaving.pc = "sent"
    /\ liveTokens' = Revoked
    /\ leaving' = [leaving EXCEPT !.pc = "served"]
    /\ UNCHANGED <<minted, cookie, stored, user, fetch, serial, quiet>>

\* Its answer clears the cookie, whichever it is by then.
SignedOut ==
    /\ leaving.pc = "served"
    /\ cookie' = 0 /\ leaving' = NotLeaving
    /\ UNCHANGED <<minted, liveTokens, stored, user, fetch, serial, quiet>>

\* .catch(() => {}): the request or its answer is lost and nobody notices.
LoseSignOut ==
    /\ leaving # NotLeaving
    /\ leaving' = NotLeaving /\ quiet' = FALSE
    /\ UNCHANGED <<minted, liveTokens, cookie, stored, user, fetch, serial>>

\* exp of the access token.
AccessExpires ==
    /\ stored = "valid" \/ \E f \in Fetches : fetch[f].pc = "sent" /\ fetch[f].token = "valid"
    /\ stored' = IF stored = "valid" THEN "expired" ELSE stored
    /\ fetch' = [f \in Fetches |-> IF fetch[f].pc = "sent" /\ fetch[f].token = "valid"
                                   THEN [fetch[f] EXCEPT !.token = "expired"] ELSE fetch[f]]
    /\ UNCHANGED <<minted, liveTokens, cookie, user, leaving, serial, quiet>>

DashboardNext ==
    \/ SignIn \/ SignInFails \/ SignOut \/ ServeSignOut \/ SignedOut \/ LoseSignOut
    \/ AccessExpires
    \/ \E f \in Fetches :
          \/ \E me \in BOOLEAN : Request(f, me)
          \/ Answer(f) \/ AskRefresh(f) \/ ServeRefresh(f) \/ TakeRefresh(f) \/ LoseFetch(f)
-----------------------------------------------------------------------------
(* Properties                                                              *)

\* As long as refreshes did not overlap and none of their answers was lost, the
\* cookie is a token the server accepts: renewing alone never ends in the
\* reuse detection that revokes the whole family (request, tryRefresh).
SerialRefreshKeepsSession ==
    /\ serial /\ cookie # 0
    /\ \A f \in Fetches : fetch[f].pc # "refreshed"
    => cookie \in liveTokens

\* A sign-out that began with no request in progress, in a session that was
\* begun and renewed serially, leaves nothing behind once it is answered: no cookie, no
\* access token, and no live refresh token of the session, although other tabs
\* still show the user and send requests (logout).
SignOutEnds ==
    quiet /\ leaving = NotLeaving
    => cookie = 0 /\ stored = "none" /\ (\A t \in liveTokens : t < minted)

\* A session ends when its user ends it, and not by renewing it (tryRefresh,
\* logout).
SessionSafe == SerialRefreshKeepsSession /\ SignOutEnds
=============================================================================
