--------------------------- MODULE TelegramSearch ---------------------------
(***************************************************************************)
(* Telegram searches: TelegramIntelService._run (intelligence/search.py),  *)
(* one at a time, over TelegramPublicCollector (collectors/telegram/       *)
(* collector.py), a source (collectors/telegram/source.py) and ingestion,  *)
(* while the accounts and chats of Telegram change their handles.          *)
(*                                                                         *)
(* Entities stand for their telegram_id.  A row keeps the keys a search    *)
(* reads; the other attributes are only ever filled in.  Searches that     *)
(* race are in TelegramEntities: here each commits before the next begins. *)
(***************************************************************************)
EXTENDS Naturals, Sequences, FiniteSets

CONSTANTS Entities,     \* Telegram accounts, groups and channels
          Handles,      \* normalised public usernames
          NoKey,        \* a key that is not known
          MaxRenames,   \* bound: changes of a handle
          MaxRows       \* bound: rows of the three tables

(* Telegram numbers its entities, and a username starts with a letter.     *)
ASSUME SearchAssumption == /\ NoKey \notin Entities \cup Handles
                           /\ Entities \cap Handles = {} /\ IsFiniteSet(Entities)
                           /\ MaxRenames \in Nat /\ MaxRows \in Nat

Types == {"account", "group", "channel"}

(* KIND_USER, KIND_GROUP and KIND_CHANNEL, and the table each is about.    *)
Table == [user |-> "account", group |-> "group", channel |-> "channel"]

Kinds == DOMAIN Table

TgRow == [type : Types, id : Entities \cup {NoKey}, name : Handles \cup {NoKey}]

(* What a source tells of a message: its chat, and the name it gives it.   *)
Message == [id : Entities, name : Handles \cup {NoKey}]

VARIABLES
    type,       \* what each entity is
    holds,      \* the handle each entity has
    held,       \* history: the handles each entity has had, NoKey if it was without
    rows,       \* committed rows of the three tables
    lookup,     \* the search in progress
    answer      \* how the last search ended, and the messages it stored

searchVars == <<type, holds, held, rows, lookup, answer>>

NoLookup == [kind |-> "none", query |-> NoKey, chat |-> <<>>, messages |-> {}]

(* seen: the entity the source answered with; row: the row found; posted,  *)
(* within: messages with their rows, and their MESSAGE_IN_ edges.          *)
NoAnswer == [kind |-> "none", as |-> "none", seen |-> NoKey, row |-> 0, fresh |-> FALSE,
             posted |-> {}, within |-> {}]

(* Types; in particular no two entities hold the same handle, and no two   *)
(* rows of a table the same telegram_id.                                   *)
SearchTypeOK ==
    /\ type \in [Entities -> Types]
    /\ holds \in [Entities -> Handles \cup {NoKey}]
    /\ \A e, f \in Entities : e # f /\ holds[e] = holds[f] => holds[e] = NoKey
    /\ held \in [Entities -> SUBSET (Handles \cup {NoKey})]
    /\ rows \in Seq(TgRow) /\ Len(rows) <= MaxRows
    /\ \A i, j \in DOMAIN rows :
          i # j /\ rows[i].type = rows[j].type /\ rows[i].id = rows[j].id => rows[i].id = NoKey
    /\ answer.posted \cup answer.within \subseteq Message \X DOMAIN rows
    /\ lookup.kind \in Kinds \cup {"none", "messages"}
    /\ answer.row \in 0..Len(rows)

SearchInit ==
    /\ type \in [Entities -> Types]
    /\ holds \in {h \in [Entities -> Handles \cup {NoKey}] :
                    \A e, f \in Entities : e # f /\ h[e] = h[f] => h[e] = NoKey}
    /\ held = [e \in Entities |-> {holds[e]}]
    /\ rows = <<>>
    /\ lookup = NoLookup
    /\ answer = NoAnswer
-----------------------------------------------------------------------------
(* Telegram: an entity takes a free handle, or drops its own.              *)
Renames == Cardinality(UNION {{<<e, h>> : h \in held[e]} : e \in Entities})

Rename(e, h) ==
    /\ h # holds[e]
    /\ h = NoKey \/ \A f \in Entities : holds[f] # h
    /\ h \in held[e] \/ Renames < Cardinality(Entities) + MaxRenames
    /\ holds' = [holds EXCEPT ![e] = h]
    /\ held' = [held EXCEPT ![e] = @ \cup {h}]
    /\ answer' = NoAnswer
    /\ UNCHANGED <<type, rows, lookup>>

(* A handle one entity has always had, and no other one ever.              *)
Fresh(h) == \E e \in Entities : held[e] = {h} /\ \A f \in Entities \ {e} : h \notin held[f]
-----------------------------------------------------------------------------
(* The sources.  The Bot API serves profiles and chats and no messages;    *)
(* the seeded source serves all; a failed call or none configured: nothing.*)

HoldersOf(query) == {e \in Entities : e = query \/ holds[e] = query}

(* get_profile answers for a private chat only, get_chat for the others.   *)
Serves(kind, e) == (kind = "user") = (type[e] = "account")

(* No source, a call that failed, or no such handle: build_source falls    *)
(* back to one that serves nothing.                                        *)
Unserved(kind, query) == [NoLookup EXCEPT !.kind = kind, !.query = query]

(* TelegramPublicCollector.collect, up to the answers of the source.       *)
Ask(kind, query) ==
    /\ lookup = NoLookup
    /\ \/ lookup' = Unserved(kind, query)
       \/ \E e \in HoldersOf(query), with \in BOOLEAN :
             /\ Serves(kind, e)
             /\ with => kind # "user"
             /\ lookup' = [kind |-> kind, query |-> query,
                           chat |-> <<[id |-> e, name |-> holds[e], type |-> type[e]]>>,
                           messages |-> IF with THEN {[id |-> e, name |-> holds[e]]} ELSE {}]
    /\ answer' = NoAnswer
    /\ UNCHANGED <<type, holds, held, rows>>

(* A message search: the messages of several chats, some with their id     *)
(* only.                                                                   *)
AskMessages ==
    /\ lookup = NoLookup
    /\ \E from \in SUBSET {e \in Entities : type[e] # "account"} :
       \E named \in SUBSET from :
          lookup' = [NoLookup EXCEPT !.kind = "messages",
                       !.messages = {[id |-> e, name |-> IF e \in named THEN holds[e] ELSE NoKey]
                                        : e \in from}]
    /\ answer' = NoAnswer
    /\ UNCHANGED <<type, holds, held, rows>>
-----------------------------------------------------------------------------
(* normalize: the records of a lookup.                                     *)

(* _normalize_chat: a channel when it is one, or was asked for as one.     *)
ChatRecord(kind, c) ==
    [type |-> IF c.type = "account" THEN "account"
              ELSE IF c.type = "channel" \/ kind = "channel" THEN "channel" ELSE "group",
     id |-> c.id, name |-> c.name]

(* A container per chat the messages name, when there is no chat record.   *)
Synthesised(msgs) == {[type |-> "channel", id |-> NoKey, name |-> m.name] :
                         m \in {n \in msgs : n.name # NoKey}}

Records(l) == IF l.chat # <<>> THEN {ChatRecord(l.kind, l.chat[1])} ELSE Synthesised(l.messages)

(* _container_ref: none when the payload has a chat.                       *)
ContainerRef(l, m) == {r \in Records(l) : l.chat = <<>> /\ r.name = m.name}

(* ingest: _resolve_telegram_entity, by id, then by name.                  *)
ById(rs, rec) == {i \in DOMAIN rs : /\ rec.id # NoKey
                                    /\ rs[i].type = rec.type /\ rs[i].id = rec.id}

(* Mutant: rows are matched by id only.                                    *)
ByNameNever(rs, rec) == {}

ByName(rs, rec) == {i \in DOMAIN rs : /\ rec.name # NoKey
                                      /\ rs[i].type = rec.type /\ rs[i].name = rec.name}

Matches(rs, rec) == IF ById(rs, rec) # {} THEN ById(rs, rec) ELSE ByName(rs, rec)

(* Two rows of that name: scalar_one_or_none raises, the record is skipped.*)
Skipped(rs, rec) == Cardinality(Matches(rs, rec)) > 1

Filled(row, rec) == [row EXCEPT !.id = IF @ = NoKey THEN rec.id ELSE @,
                                !.name = IF @ = NoKey THEN rec.name ELSE @]

Upsert(rs, rec) ==
    IF Skipped(rs, rec) THEN rs
    ELSE IF Matches(rs, rec) = {} THEN Append(rs, rec)
    ELSE [i \in DOMAIN rs |-> IF i \in Matches(rs, rec) THEN Filled(rs[i], rec) ELSE rs[i]]

(* The rows after a lookup's records, in an order in which they may come.  *)
Ingested(rs, order) ==
    LET after[n \in 0..Len(order)] == IF n = 0 THEN rs ELSE Upsert(after[n - 1], order[n])
    IN  after[Len(order)]

Orders(S) == {s \in [1..Cardinality(S) -> S] : \A i, j \in DOMAIN s : i # j => s[i] # s[j]}

(* The row each record is resolved to; none if it was skipped.             *)
RowOf(rs, after, rec) == IF Skipped(rs, rec) THEN {} ELSE Matches(after, rec)

Containers(rs, after, l) == UNION {RowOf(rs, after, r) : r \in Records(l)}

Only(S) == IF Cardinality(S) = 1 THEN S ELSE {}

(* Mutant: the first container of the batch, whatever the message names.   *)
MessageRowFirst(rs, after, l, m) ==
    {i \in Containers(rs, after, l) : \A j \in Containers(rs, after, l) : i <= j}

(* _ingest_message: its container, else the only one of the batch.         *)
MessageRow(rs, after, l, m) ==
    LET own == UNION {RowOf(rs, after, r) : r \in ContainerRef(l, m)}
    IN  IF own # {} THEN own ELSE Only(Containers(rs, after, l))

(* relationships: to its container, else to the only one of the result.    *)
EdgeRow(rs, after, l, m) ==
    UNION {RowOf(rs, after, r) :
             r \in IF ContainerRef(l, m) # {} THEN ContainerRef(l, m) ELSE Only(Records(l))}

(* The messages with the row each is stored in, and the row its edge leads *)
(* to.                                                                     *)
Posted(after, l) ==
    {p \in l.messages \X DOMAIN after : p[2] \in MessageRow(rows, after, l, p[1])}
Within(after, l) ==
    {p \in l.messages \X DOMAIN after : p[2] \in EdgeRow(rows, after, l, p[1])}
-----------------------------------------------------------------------------
(* _fill_entity: by telegram_id if the query is one, then by name.         *)
Hits(after, kind, query) ==
    LET of(key) == {i \in DOMAIN after : /\ after[i].type = Table[kind]
                                         /\ after[i][key] = query}
    IN  IF query \in Entities /\ of("id") # {} THEN of("id") ELSE of("name")

Ended(l, as, hits) ==
    [NoAnswer EXCEPT !.kind = l.kind, !.as = as,
                     !.row = IF as = "found" THEN CHOOSE i \in hits : TRUE ELSE 0,
                     !.seen = IF l.chat = <<>> THEN NoKey ELSE l.chat[1].id,
                     !.fresh = l.query \in Handles /\ Fresh(l.query)]

(* The rest of _run and the job's commit.  Two rows of that name make it   *)
(* raise: the transaction is rolled back, what it collected included.      *)
FinishSearch ==
    /\ lookup # NoLookup
    /\ \E order \in Orders(Records(lookup)) :
          LET after == Ingested(rows, order)
              hits == IF lookup.kind = "messages" THEN {} ELSE Hits(after, lookup.kind, lookup.query)
          IN  /\ Len(after) <= MaxRows
              /\ \/ /\ Cardinality(hits) > 1
                    /\ answer' = Ended(lookup, "raised", hits)
                    /\ UNCHANGED rows
                 \/ /\ Cardinality(hits) <= 1
                    /\ rows' = after
                    /\ answer' = [Ended(lookup, IF hits = {} THEN "notfound" ELSE "found", hits)
                                    EXCEPT !.posted = Posted(after, lookup),
                                           !.within = Within(after, lookup)]
    /\ lookup' = NoLookup
    /\ UNCHANGED <<type, holds, held>>

SearchNext ==
    \/ FinishSearch \/ AskMessages
    \/ \E e \in Entities, h \in Handles \cup {NoKey} : Rename(e, h)
    \/ \E k \in Kinds, q \in Entities \cup Handles : Ask(k, q)
-----------------------------------------------------------------------------
(* Properties.                                                             *)

(* The table a search looks in is the one its answer is stored in.         *)
Matching(kind, t) == kind = "channel" \/ Table[kind] = t

(* A handle that has always been one account's or chat's: a search for it *)
(* never raises (MultipleResultsFound, search.py:160), and when the source *)
(* answers and its kind was the one asked for, the row found is the one    *)
(* of what it answered with (_fill_entity looks it up again, by handle).   *)
FreshIsFound ==
    answer.fresh =>
        /\ answer.as # "raised"
        /\ answer.seen # NoKey /\ Matching(answer.kind, type[answer.seen]) =>
              answer.as = "found" /\ rows[answer.row].id = answer.seen

(* A message that names its chat is stored in a row with the chat's handle *)
(* or id, and its edge leads to no other, unless the handle has two rows:  *)
(* the record of that chat is skipped, and _ingest_message puts its        *)
(* messages into the only other chat of the batch.                         *)
MessagesInTheirChat ==
    \A p \in answer.posted \cup answer.within :
        p[1].name # NoKey =>
            \/ rows[p[2]].name = p[1].name \/ rows[p[2]].id = p[1].id
            \/ Cardinality(ByName(rows, [type |-> "channel", id |-> NoKey, name |-> p[1].name])) > 1

(* A search answers with, and files messages under, what Telegram answered *)
(* about, although handles move between accounts (_run, _ingest_message).  *)
AnswersMatch == FreshIsFound /\ MessagesInTheirChat
=============================================================================
