-------------------------- MODULE TelegramEntities --------------------------
(***************************************************************************)
(* Deduplication of Telegram accounts, groups or channels (one table):     *)
(* _resolve_telegram_entity (database/repositories/entities.py),           *)
(* _get_or_create (database/repositories/base.py) and the batches of       *)
(* IngestionService.ingest (intelligence/ingest.py) that call it.          *)
(*                                                                         *)
(* A session does not autoflush: a backfilled key is an attribute changed  *)
(* in memory until the next SAVEPOINT or the commit writes it.  Loaded     *)
(* rows are not refreshed.  telegram_id is unique, username_normalized is  *)
(* only indexed.  Statements read committed rows and the session's own     *)
(* writes; a write waits for the uncommitted write of another session.     *)
(***************************************************************************)
EXTENDS Naturals, Sequences, FiniteSets

CONSTANTS Sessions,    \* units of work in progress at the same time
          Ids, Names,  \* Telegram ids and normalised usernames
          None,        \* an unknown key (NULL)
          MaxRows,     \* bound: rows ever inserted
          MaxBatch     \* bound: records of one batch

ASSUME EntitiesAssumption == /\ None \notin Ids \cup Names
                             /\ MaxRows \in Nat

Rows == 1..MaxRows
Columns == {"id", "name"}
Keys == [id : Ids \cup {None}, name : Names \cup {None}]
Blank == [id |-> None, name |-> None]

(* What a collector sends: telegram_id, username or both.                  *)
Records == Keys \ {Blank}

Batches == UNION {[1..n -> Records] : n \in 1..MaxBatch}

VARIABLES
    table,      \* committed rows; Blank where there is none
    nextRow,    \* rows inserted so far, rolled back ones included
    pc,         \* per session: where it is
    todo,       \* per session: records still to resolve
    loaded,     \* per session: rows in its identity map
    view,       \* per session: the attributes of those rows, in memory
    dirty,      \* per session: <<row, column>> changed and not flushed
    written,    \* per session: <<row, column>> flushed and not committed
    resolved    \* per session: summary.resolved, records with their rows

vars == <<table, nextRow, pc, todo, loaded, view, dirty, written, resolved>>

(* Types; in particular a session that is resolving has a record to        *)
(* resolve, and a row holds keys only once inserted (IngestionService).    *)
TypeOK == /\ table \in [Rows -> Keys]
          /\ nextRow \in 0..MaxRows
          /\ pc \in [Sessions -> {"idle", "byId", "byName", "create", "done", "inactive"}]
          /\ todo \in [Sessions -> Seq(Records)]
          /\ \A s \in Sessions : pc[s] \in {"byId", "byName", "create"} => todo[s] # <<>>
          /\ loaded \in [Sessions -> SUBSET Rows]
          /\ view \in [Sessions -> [Rows -> Keys]]
          /\ dirty \in [Sessions -> SUBSET (Rows \X Columns)]
          /\ written \in [Sessions -> SUBSET (Rows \X Columns)]
          /\ resolved \in [Sessions -> SUBSET (Records \X Rows)]
          /\ \A r \in Rows : r > nextRow => table[r] = Blank

Init == /\ table = [r \in Rows |-> Blank]
        /\ nextRow = 0
        /\ pc = [s \in Sessions |-> "idle"]
        /\ todo = [s \in Sessions |-> <<>>]
        /\ loaded = [s \in Sessions |-> {}]
        /\ view = [s \in Sessions |-> [r \in Rows |-> Blank]]
        /\ dirty = [s \in Sessions |-> {}]
        /\ written = [s \in Sessions |-> {}]
        /\ resolved = [s \in Sessions |-> {}]

(***************************************************************************)
(* The database as session s sees it                                       *)
(***************************************************************************)
Stored(s, cols) ==
    [r \in Rows |-> [id   |-> IF <<r, "id">> \in cols THEN view[s][r].id ELSE table[r].id,
                     name |-> IF <<r, "name">> \in cols THEN view[s][r].name ELSE table[r].name]]

Seen(s) == Stored(s, written[s])

RowsWithId(s, id) == {r \in Rows : Seen(s)[r].id = id}

(* Mutant: a record without a name matches rows without one.               *)
RowsWithNameOrNone(s, name) == {r \in Rows : Seen(s)[r] # Blank /\ Seen(s)[r].name = name}

RowsWithName(s, name) == IF name = None THEN {} ELSE {r \in Rows : Seen(s)[r].name = name}

(* A write waits while another session has written the row, or the same    *)
(* telegram_id elsewhere, and has not ended.                               *)
MustWait(s, cols, id) ==
    \E o \in Sessions \ {s} : \E w \in written[o] :
        \/ w[1] \in {c[1] : c \in cols}
        \/ w[2] = "id" /\ view[o][w[1]].id # None
           /\ view[o][w[1]].id \in {id} \cup {view[s][c[1]].id : c \in {d \in cols : d[2] = "id"}}

IdClash(rows) == \E r, q \in Rows : r # q /\ rows[r].id # None /\ rows[r].id = rows[q].id

(***************************************************************************)
(* One batch                                                               *)
(***************************************************************************)
Begin(s) == /\ pc[s] = "idle"
            /\ \E b \in Batches : todo' = [todo EXCEPT ![s] = b]
            /\ pc' = [pc EXCEPT ![s] = "byId"]
            /\ UNCHANGED <<table, nextRow, loaded, view, dirty, written, resolved>>

Record(s) == Head(todo[s])

Working(s, at) == pc[s] = at /\ todo[s] # <<>>

(* Mutant: the end of the batch is not noticed.                            *)
ContinueAlways(s) == /\ todo' = [todo EXCEPT ![s] = Tail(@)]
                     /\ pc' = [pc EXCEPT ![s] = "byId"]

(* On to the next record, or to the commit.                                *)
Continue(s) == /\ todo' = [todo EXCEPT ![s] = Tail(@)]
               /\ pc' = [pc EXCEPT ![s] = IF Len(todo[s]) = 1 THEN "done" ELSE "byId"]

InMemory(s, r) == IF r \in loaded[s] THEN view[s][r] ELSE Seen(s)[r]

Resolved(s, r) == resolved' = [resolved EXCEPT ![s] = @ \cup {<<Record(s), r>>}]

(* Mutant: a known name is replaced.                                       *)
BackfilledAlways(old, rec) == [id   |-> IF old.id = None THEN rec.id ELSE old.id,
                               name |-> IF rec.name # None THEN rec.name ELSE old.name]

Backfilled(old, rec) == [id   |-> IF old.id = None THEN rec.id ELSE old.id,
                         name |-> IF old.name = None THEN rec.name ELSE old.name]

(* A row matched: unknown keys are filled in, in memory.                   *)
Adopt(s, r) ==
    LET old == InMemory(s, r)
        new == Backfilled(old, Record(s))
    IN  /\ loaded' = [loaded EXCEPT ![s] = @ \cup {r}]
        /\ view' = [view EXCEPT ![s][r] = new]
        /\ dirty' = [dirty EXCEPT ![s] = @ \cup {<<r, c>> : c \in {k \in Columns : new[k] # old[k]}}]
        /\ Resolved(s, r)
        /\ Continue(s)
        /\ UNCHANGED <<table, nextRow, written>>

(* scalar_one_or_none raises when two rows match; the record is skipped.   *)
Skip(s) == /\ Continue(s)
           /\ UNCHANGED <<table, nextRow, loaded, view, dirty, written, resolved>>

Proceed(s, at) == /\ pc' = [pc EXCEPT ![s] = at]
                  /\ UNCHANGED <<table, nextRow, todo, loaded, view, dirty, written, resolved>>

(* A flush that raises: the transaction is rolled back and the session     *)
(* refuses every further statement.                                        *)
Deactivate(s) == /\ pc' = [pc EXCEPT ![s] = "inactive"]
                 /\ dirty' = [dirty EXCEPT ![s] = {}]
                 /\ written' = [written EXCEPT ![s] = {}]
                 /\ UNCHANGED <<table, nextRow, todo, loaded, view, resolved>>

ById(s) ==
    /\ Working(s, "byId")
    /\ LET hits == IF Record(s).id = None THEN {} ELSE RowsWithId(s, Record(s).id)
       IN  \/ \E r \in hits : Adopt(s, r)
           \/ hits = {} /\ Proceed(s, "byName")

ByName(s) ==
    /\ Working(s, "byName")
    /\ LET hits == RowsWithName(s, Record(s).name)
       IN  \/ Cardinality(hits) > 1 /\ Skip(s)
           \/ Cardinality(hits) = 1 /\ \E r \in hits : Adopt(s, r)
           \/ hits = {} /\ Proceed(s, "create")

(* _get_or_create: look again by the one key, then flush what is pending   *)
(* and insert inside a SAVEPOINT.  A clash in the flush ends the session's *)
(* transaction; a clash of the insert itself finds the other row, without  *)
(* backfilling it.                                                         *)
Filtered(s) == IF Record(s).id # None THEN RowsWithId(s, Record(s).id)
               ELSE RowsWithName(s, Record(s).name)

Create(s) ==
    /\ Working(s, "create")
    /\ \/ /\ Cardinality(Filtered(s)) > 1
          /\ Skip(s)
       \/ \E r \in Filtered(s) :
            /\ Cardinality(Filtered(s)) = 1
            /\ loaded' = [loaded EXCEPT ![s] = @ \cup {r}]
            /\ view' = [view EXCEPT ![s][r] = InMemory(s, r)]
            /\ Resolved(s, r)
            /\ Continue(s)
            /\ UNCHANGED <<table, nextRow, dirty, written>>
       \/ /\ Filtered(s) = {}
          /\ ~MustWait(s, dirty[s], Record(s).id)
          /\ IdClash(Stored(s, written[s] \cup dirty[s]))
          /\ Deactivate(s)
       \/ LET flushed == Stored(s, written[s] \cup dirty[s])
              taken == {q \in Rows : flushed[q].id = Record(s).id}
              r == nextRow + 1
          IN  /\ Filtered(s) = {}
              /\ ~MustWait(s, dirty[s], Record(s).id)
              /\ ~IdClash(flushed)
              /\ dirty' = [dirty EXCEPT ![s] = {}]
              /\ \/ \E q \in taken :
                      /\ Record(s).id # None
                      /\ written' = [written EXCEPT ![s] = @ \cup dirty[s]]
                      /\ Resolved(s, q)
                      /\ UNCHANGED <<nextRow, loaded, view>>
                 \/ /\ Record(s).id = None \/ taken = {}
                    /\ nextRow < MaxRows
                    /\ nextRow' = r
                    /\ written' = [written EXCEPT ![s] = @ \cup dirty[s] \cup ({r} \X Columns)]
                    /\ loaded' = [loaded EXCEPT ![s] = @ \cup {r}]
                    /\ view' = [view EXCEPT ![s][r] = Record(s)]
                    /\ Resolved(s, r)
              /\ Continue(s)
              /\ UNCHANGED table

(* The end of the unit of work.                                            *)
Close(s) == /\ pc' = [pc EXCEPT ![s] = "idle"]
            /\ todo' = [todo EXCEPT ![s] = <<>>]
            /\ loaded' = [loaded EXCEPT ![s] = {}]
            /\ view' = [view EXCEPT ![s] = [r \in Rows |-> Blank]]
            /\ dirty' = [dirty EXCEPT ![s] = {}]
            /\ written' = [written EXCEPT ![s] = {}]
            /\ resolved' = [resolved EXCEPT ![s] = {}]
            /\ UNCHANGED nextRow

Commit(s) == /\ pc[s] = "done"
             /\ ~MustWait(s, dirty[s], None)
             /\ LET flushed == Stored(s, written[s] \cup dirty[s])
                IN  \/ IdClash(flushed) /\ Deactivate(s)
                    \/ ~IdClash(flushed) /\ table' = flushed /\ Close(s)

(* A failed flush, an error elsewhere in the job or a crash: rollback.     *)
Rollback(s) == /\ pc[s] # "idle"
               /\ Close(s)
               /\ UNCHANGED table

Next == \E s \in Sessions : \/ Begin(s) \/ ById(s) \/ ByName(s) \/ Create(s)
                            \/ Commit(s) \/ Rollback(s)

Spec == Init /\ [][Next]_vars

(***************************************************************************)
(* Properties                                                              *)
(***************************************************************************)

(* A key once stored for a row is never replaced: entities.py:115 only     *)
(* backfills a key "when it was previously unknown".                       *)
KeysNeverMove ==
    [][\A r \in Rows : \A c \in Columns :
          table[r][c] # None => table'[r][c] = table[r][c]]_vars

(* Whatever a batch does to a row afterwards, each record it resolved      *)
(* shares a key with the row its evidence and relationships go to, as long *)
(* as no other unit of work overlaps.                                      *)
ResolvedMatches ==
    \A s \in Sessions : \A p \in resolved[s] :
        \E c \in Columns : p[1][c] # None /\ p[1][c] = InMemory(s, p[2])[c]
=============================================================================
