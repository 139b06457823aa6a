--------------------------- MODULE UsernameOsint ----------------------------
(***************************************************************************)
(* One username search: UsernameOsintService.run                           *)
(* (intelligence/username_osint.py) over UsernameOsintCollector, whose     *)
(* adapters (collectors/username/adapters.py) run as coroutines under      *)
(* asyncio.gather and fetch through SafeFetcher (collectors/common/        *)
(* http.py), and the scores of intelligence/confidence/engine.py.          *)
(*                                                                         *)
(* The adapters are the registered ones, with one web probe for the six of *)
(* default_web_adapters.  Everything after the gather runs without an      *)
(* await in the job's transaction, and is one step.  A name and a bio are  *)
(* the sets of their words.                                                *)
(***************************************************************************)
EXTENDS Naturals, Sequences, FiniteSets

CONSTANT MaxRedirects   \* HTTP_FETCH_MAX_REDIRECTS

ASSUME OsintAssumption == MaxRedirects \in Nat

Adapters == <<"github", "reddit", "telegram", "web">>

Platforms == {Adapters[i] : i \in DOMAIN Adapters}

(* Where a URL leads: to public addresses only; elsewhere, to another      *)
(* scheme or nowhere; or it is a Location that cannot be parsed.           *)
UrlKinds == {"public", "blocked", "malformed"}

Statuses == {200, 403, 404, 410, 500}

(* What a 200 carries: the profile, with or without Reddit's "subreddit",  *)
(* something that is not the expected JSON, or a page saying there is none.*)
Bodies == {"profile", "nullSubreddit", "garbage", "marker"}

Names == {{}, {"ann"}, {"ann", "lee"}}
Bios == {{}, {"osint"}}
Links == {"", "here"}

Facts == [name : Names, bio : Bios, site : Links, place : Links]

NoFacts == [name |-> {}, bio |-> {}, site |-> "", place |-> ""]

Verdicts == {"none", "found", "notfound", "failed", "inconclusive", "raised"}

VARIABLES
    phase,       \* of the service: "new", "gather" or "done"
    tasks,       \* per adapter: its coroutine, and what it returned
    requests,    \* per adapter: the URLs its fetch has requested
    search       \* the search row and what the run has stored

osintVars == <<phase, tasks, requests, search>>

NewTask == [at |-> "todo", verdict |-> "none", facts |-> NoFacts, unread |-> FALSE]

NewSearch == [status |-> "none", notes |-> {}, sources |-> [p \in Platforms |-> 0],
              results |-> {}, foundOn |-> [p \in Platforms |-> 0], sameAs |-> {},
              linked |-> [p \in Platforms |-> 0]]

(* Types; in particular only an adapter that found a profile has facts,    *)
(* and only a stored account is a result (AdapterResult, SearchResult).    *)
OsintTypeOK ==
    /\ phase \in {"new", "gather", "done"}
    /\ \A p \in Platforms :
          /\ tasks[p].at \in {"todo", "fetch", "profile", "chat", "done"}
          /\ tasks[p].verdict \in Verdicts
          /\ tasks[p].facts \in Facts
          /\ tasks[p].unread \in BOOLEAN
          /\ tasks[p].verdict # "found" => tasks[p].facts = NoFacts
          /\ requests[p] \in Seq(UrlKinds)
    /\ search.status \in {"none", "COMPLETED", "FAILED"}
    /\ search.results \subseteq {p \in Platforms : search.sources[p] > 0}

OsintInit ==
    /\ phase = "new"
    /\ tasks = [p \in Platforms |-> NewTask]
    /\ requests = [p \in Platforms |-> <<>>]
    /\ search = NewSearch
-----------------------------------------------------------------------------
(* The adapters.                                                           *)

Returned(p, verdict, facts, unread) ==
    /\ tasks' = [tasks EXCEPT ![p] = [at |-> "done", verdict |-> verdict, facts |-> facts,
                                      unread |-> unread]]
    /\ requests' = [requests EXCEPT ![p] = <<>>]

Returns(p, verdict) == Returned(p, verdict, NoFacts, FALSE)

(* A source that could not be read: FetchError and SsrfBlocked are caught. *)
Loses(p, verdict) == Returned(p, verdict, NoFacts, TRUE)

(* Mutant: only the first URL is checked.                                  *)
CheckUrlOnce(p, url) == url = "public" \/ requests[p] # <<>>

CheckUrl(p, url) == url = "public"

(* The next hop of _request: the URL is checked and requested.  InvalidURL *)
(* is no httpx.HTTPError, and leaves the adapter.                          *)
Hop(p, url) ==
    \/ url = "malformed" /\ Loses(p, "raised")
    \/ url # "malformed" /\ ~CheckUrl(p, url) /\ Loses(p, "failed")
    \/ /\ url # "malformed" /\ CheckUrl(p, url)
       /\ tasks' = [tasks EXCEPT ![p].at = "fetch"]
       /\ requests' = [requests EXCEPT ![p] = Append(@, url)]

(* The hop whose answer is awaited is range(max_redirects + 1)'s.          *)
LastHop(p) == Len(requests[p]) > MaxRedirects

(* The facts a platform publishes.                                         *)
Published(p) == IF p = "github" THEN Facts
                ELSE {f \in Facts : f.site = "" /\ f.place = ""}

(* What each adapter makes of the final response.                          *)
CheckGithub(status, body) ==
    \/ status = 404 /\ Returns("github", "notfound")
    \/ status \notin {200, 404} /\ Loses("github", "failed")
    \/ status = 200 /\ body \in {"garbage", "marker"} /\ Loses("github", "failed")
    \/ /\ status = 200 /\ body \in {"profile", "nullSubreddit"}
       /\ \E f \in Published("github") : Returned("github", "found", f, FALSE)

(* JSON that is no object counts as a profile without facts; one whose     *)
(* members have other types makes the adapter raise.                       *)
CheckReddit(status, body) ==
    \/ status \in {403, 404} /\ Returns("reddit", "notfound")
    \/ status \notin {200, 403, 404} /\ Loses("reddit", "failed")
    \/ status = 200 /\ body \in {"garbage", "marker"} /\ Loses("reddit", "failed")
    \/ status = 200 /\ body = "garbage" /\ Returned("reddit", "found", NoFacts, FALSE)
    \/ status = 200 /\ body \in {"garbage", "nullSubreddit"} /\ Loses("reddit", "raised")
    \/ /\ status = 200 /\ body = "profile"
       /\ \E f \in Published("reddit") : Returned("reddit", "found", f, FALSE)

CheckWeb(status, body) ==
    \/ status \in {404, 410} /\ Returns("web", "notfound")
    \/ status \notin {200, 404, 410} /\ Loses("web", "inconclusive")
    \/ status = 200 /\ body = "marker" /\ Returns("web", "notfound")
    \/ status = 200 /\ body # "marker" /\ Returned("web", "found", NoFacts, FALSE)

Judge(p, status, body) == CASE p = "github" -> CheckGithub(status, body)
                            [] p = "reddit" -> CheckReddit(status, body)
                            [] p = "web"    -> CheckWeb(status, body)

Http == Platforms \ {"telegram"}

CheckHttp(p) == /\ phase = "gather" /\ p \in Http /\ tasks[p].at = "todo"
                /\ \E url \in {"public", "blocked"} : Hop(p, url)
                /\ UNCHANGED <<phase, search>>

Fetched(p) ==
    /\ p \in Http /\ tasks[p].at = "fetch"
    /\ \/ Loses(p, "failed")                       \* httpx.HTTPError
       \/ LastHop(p) /\ Loses(p, "failed")         \* a redirect too many
       \/ ~LastHop(p) /\ \E url \in UrlKinds : Hop(p, url)
       \/ \E s \in Statuses, b \in Bodies : Judge(p, s, b)
    /\ UNCHANGED <<phase, search>>

(* TelegramPresenceAdapter: the profile, else the chat.  A Bot API call    *)
(* that fails is a None, as if there were no such handle.                  *)
Presence(p) ==
    /\ p = "telegram"
    /\ \/ /\ phase = "gather" /\ tasks[p].at = "todo"
          /\ \/ Loses(p, "failed")                 \* not available
             \/ tasks' = [tasks EXCEPT ![p].at = "profile"] /\ UNCHANGED requests
       \/ /\ tasks[p].at \in {"profile", "chat"}
          /\ \E f \in Published(p) : Returned(p, "found", f, FALSE)
       \/ /\ tasks[p].at = "profile"
          /\ tasks' = [tasks EXCEPT ![p].at = "chat"]
          /\ UNCHANGED requests
       \/ /\ tasks[p].at = "chat"
          /\ \E failed \in BOOLEAN : Returned(p, "notfound", NoFacts, failed)
    /\ UNCHANGED <<phase, search>>
-----------------------------------------------------------------------------
(* The confidence engine, for the facts the service passes.                *)

Jaccard(a, b, num, den) ==
    /\ a # {} /\ b # {}
    /\ den * Cardinality(a \cap b) >= num * Cardinality(a \cup b)

(* exact_username, display_name_exact or _overlap, website_same_domain,    *)
(* bio_similar and location_exact.                                         *)
Signals(f, g) ==
    {s \in {<<"username", 25>>, <<"name", 25>>, <<"overlap", 12>>, <<"site", 22>>,
            <<"bio", 15>>, <<"place", 5>>} :
        CASE s[1] = "username" -> TRUE
          [] s[1] = "name"     -> f.name # {} /\ f.name = g.name
          [] s[1] = "overlap"  -> f.name # g.name /\ Jaccard(f.name, g.name, 1, 2)
          [] s[1] = "site"     -> f.site # "" /\ f.site = g.site
          [] s[1] = "bio"      -> Jaccard(f.bio, g.bio, 2, 5)
          [] s[1] = "place"    -> f.place # "" /\ f.place = g.place}

Weight(S, name) == IF \E s \in S : s[1] = name THEN (CHOOSE s \in S : s[1] = name)[2] ELSE 0

ScorePair(f, g) ==
    LET S == Signals(f, g)
        raw == Weight(S, "username") + Weight(S, "name") + Weight(S, "overlap")
               + Weight(S, "site") + Weight(S, "bio") + Weight(S, "place")
    IN  IF raw > 100 THEN 100 ELSE raw

(* Mutant: what a username and a bio weigh is enough.                      *)
SameAsThresholdLow == 40

SameAsThreshold == 45

MatchConfidence(p) == CASE p = "github"   -> 90
                        [] p = "reddit"   -> 85
                        [] p = "telegram" -> 80
                        [] p = "web"      -> 45
-----------------------------------------------------------------------------
(* The service.                                                            *)

(* The search row is created; an empty handle ends the run with an error.  *)
Open == /\ phase = "new"
        /\ \/ phase' = "gather" /\ UNCHANGED search
           \/ phase' = "done" /\ search' = [search EXCEPT !.status = "FAILED"]
        /\ UNCHANGED <<tasks, requests>>

(* These adapters, in the order in which they were gathered.               *)
InOrder(S) ==
    LET seq[i \in 0..4] == IF i = 0 THEN <<>>
                           ELSE IF Adapters[i] \in S THEN Append(seq[i - 1], Adapters[i])
                           ELSE seq[i - 1]
    IN  seq[4]

(* The adapters that returned, and those of them that found the handle.    *)
Answered == {p \in Platforms : tasks[p].verdict # "raised"}

Found == InOrder({p \in Answered : tasks[p].verdict = "found"})

(* Mutant: an exception in the gather is skipped without a note.           *)
NotesOfErrors == {p \in Platforms : tasks[p].verdict \in {"failed", "inconclusive"}}

Notes == {p \in Platforms : tasks[p].verdict \in {"raised", "failed", "inconclusive"}}

(* USERNAME_FOUND_ON drafts <<i, confidence>> to the record acct-i; the    *)
(* mutant counts the accounts that were not found too.                     *)
DraftsOfAll ==
    LET all == InOrder(Answered)
    IN  {<<i, MatchConfidence(all[i])>> : i \in {j \in DOMAIN all : tasks[all[j]].verdict = "found"}}

Drafts == {<<i, MatchConfidence(Found[i])>> : i \in DOMAIN Found}

(* A Telegram handle stored twice: its lookup raises, ingest skips it.     *)
Resolved(twice) == {i \in DOMAIN Found : ~(twice /\ Found[i] = "telegram")}

FoundOn(refs, p) == {d[2] : d \in {e \in Drafts : e[1] \in refs /\ Found[e[1]] = p}}

(* score_account: the best pair, or the username alone.                    *)
ScoreAccount(p) ==
    LET peers == {Found[i] : i \in DOMAIN Found} \ {p}
        scores == {ScorePair(tasks[p].facts, tasks[q].facts) : q \in peers}
    IN  IF peers = {} THEN ScorePair(tasks[p].facts, NoFacts)
        ELSE CHOOSE s \in scores : \A t \in scores : t <= s

(* POSSIBLY_SAME_AS edges between stored accounts.                         *)
SameAs(refs) ==
    LET score(ij) == ScorePair(tasks[Found[ij[1]]].facts, tasks[Found[ij[2]]].facts)
    IN  {<<Found[ij[1]], Found[ij[2]], score(ij)>> :
           ij \in {p \in refs \X refs : p[1] < p[2] /\ score(p) >= SameAsThreshold}}

(* The target: resolve links every account stored under the handle at 55,  *)
(* the run's own ones are raised to 60.                                    *)
Linked(refs, twice, p) ==
    IF \E i \in refs : Found[i] = p THEN 60
    ELSE IF p = "telegram" /\ twice /\ Found # <<>> THEN 55 ELSE 0

Gathered ==
    /\ phase = "gather"
    /\ \A p \in Platforms : tasks[p].at = "done"
    /\ phase' = "done"
    /\ \E twice \in BOOLEAN :
         LET refs == Resolved(twice)
         IN  search' =
               [status  |-> "COMPLETED",
                notes   |-> Notes,
                sources |-> [p \in Platforms |-> IF \E i \in DOMAIN Found : Found[i] = p
                                                 THEN ScoreAccount(p) ELSE 0],
                results |-> {Found[i] : i \in refs},
                foundOn |-> [p \in Platforms |-> IF FoundOn(refs, p) = {} THEN 0
                                                 ELSE CHOOSE c \in FoundOn(refs, p) : TRUE],
                sameAs  |-> SameAs(refs),
                linked  |-> [p \in Platforms |-> Linked(refs, twice, p)]]
    /\ UNCHANGED <<tasks, requests>>

OsintNext == \/ Open \/ Gathered
             \/ \E p \in Platforms : CheckHttp(p) \/ Fetched(p) \/ Presence(p)
-----------------------------------------------------------------------------
(* Properties.                                                             *)

(* However the coroutines interleave and end, an HTTP source that could    *)
(* not be read is named in the notes of the search, and no source is       *)
(* reported twice, as found and as failing: asyncio.gather keeps the       *)
(* exceptions, and collect turns each into a note.                         *)
NoSilentFailure ==
    search.status = "COMPLETED" =>
        \A p \in Http : /\ tasks[p].unread <=> p \in search.notes
                        /\ p \in search.notes => search.sources[p] = 0

(* A fetch requests checked URLs only, whatever the servers redirect to,   *)
(* and ends after max_redirects of them (http.py:145).                     *)
FetchBounded ==
    \A p \in Http : /\ Len(requests[p]) <= MaxRedirects + 1
                    /\ \A i \in DOMAIN requests[p] : requests[p][i] = "public"

(* The edge from the username to an account carries the confidence of the  *)
(* adapter that found that account: the refs acct-i that normalize and     *)
(* relationships count separately agree, whichever adapters failed.        *)
PresenceMatches ==
    search.status = "COMPLETED" =>
        \A p \in Platforms :
            search.foundOn[p] = IF p \in search.results THEN MatchConfidence(p) ELSE 0

(* Two accounts are likened only if their display names share words: a bio *)
(* on top of the username is not enough, and no other signal reaches the   *)
(* service from two platforms.  Each source then scores at least the edge. *)
SameAsCorroborated ==
    \A e \in search.sameAs :
        /\ tasks[e[1]].facts.name \cap tasks[e[2]].facts.name # {}
        /\ search.sources[e[1]] >= e[3] /\ search.sources[e[2]] >= e[3]

(* What a search says of a platform comes from that platform, read within  *)
(* the fetcher's bounds: results, failures, presence and likeness (run,    *)
(* collect, _link_same_as).                                                *)
FindingsSourced ==
    NoSilentFailure /\ FetchBounded /\ PresenceMatches /\ SameAsCorroborated
=============================================================================
