----------------------- MODULE TelegramEntitiesProofs -----------------------
(***************************************************************************)
(* Proofs about TelegramEntities: types, and, while units of work do not   *)
(* overlap, that a record ends at a row it shares a key with               *)
(* (ResolvedMatches) and that a stored key is never replaced               *)
(* (KeysNeverMove).                                                        *)
(***************************************************************************)
EXTENDS TelegramEntities, SequenceTheorems, TLAPS

-----------------------------------------------------------------------------
(* Invariants                                                              *)

(* A session has loaded rows that were inserted, and changes only those.   *)
TouchesLoaded ==
    \A s \in Sessions : /\ loaded[s] \subseteq 1..nextRow
                        /\ dirty[s] \cup written[s] \subseteq loaded[s] \X Columns

Typed == TypeOK /\ TouchesLoaded

(* Units of work do not overlap.                                           *)
OneAtATime == \A s, o \in Sessions : pc[s] # "idle" /\ pc[o] # "idle" => s = o

(* A key of a row that the session has not changed is the stored one, and  *)
(* a key that is stored is not changed.                                    *)
ViewFits(s) ==
    pc[s] # "inactive" =>
        \A r \in loaded[s], c \in Columns :
            /\ <<r, c>> \notin dirty[s] \cup written[s] => view[s][r][c] = table[r][c]
            /\ table[r][c] # None => view[s][r][c] = table[r][c]

(* A record shares a key with a row the session has in memory.             *)
Matches(rec, row) == \E c \in Columns : rec[c] # None /\ row[c] = rec[c]

ResolvedFits(s) ==
    \A p \in resolved[s] : p[2] \in loaded[s] /\ Matches(p[1], view[s][p[2]])

(* Nothing is left of a session that has ended.                            *)
IdleEmpty(s) == pc[s] = "idle" => loaded[s] = {} /\ resolved[s] = {}

SoloInv == \A s \in Sessions : ViewFits(s) /\ ResolvedFits(s) /\ IdleEmpty(s)

-----------------------------------------------------------------------------
(* Operators                                                               *)

(* A row is read back key by key.                                          *)
LEMMA KeysType ==
    ASSUME NEW k \in Keys, NEW c \in Columns
    PROVE  k[c] \in Ids \cup Names \cup {None}
BY DEF Keys, Columns

(* A flush writes the changed keys over the committed ones.                *)
LEMMA StoredAt ==
    ASSUME Typed, NEW s \in Sessions, NEW cols, NEW r \in Rows
    PROVE  /\ Stored(s, cols)[r] \in Keys
           /\ \A c \in Columns : Stored(s, cols)[r][c] =
                  IF <<r, c>> \in cols THEN view[s][r][c] ELSE table[r][c]
<1>1. view[s][r] \in Keys /\ table[r] \in Keys
  BY DEF Typed, TypeOK
<1> QED
  BY <1>1 DEF Stored, Keys, Columns

(* Backfilling keeps every known key, and fills in the record's.           *)
LEMMA BackfilledAt ==
    ASSUME NEW old \in Keys, NEW rec \in Keys
    PROVE  /\ Backfilled(old, rec) \in Keys
           /\ \A c \in Columns : Backfilled(old, rec)[c] =
                  IF old[c] = None THEN rec[c] ELSE old[c]
BY DEF Backfilled, Keys, Columns

(* What the session reads of a row is a row.                               *)
LEMMA InMemoryType ==
    ASSUME Typed, NEW s \in Sessions, NEW r \in Rows
    PROVE  InMemory(s, r) \in Keys
<1>1. view[s][r] \in Keys
  BY DEF Typed, TypeOK
<1> QED
  BY <1>1, StoredAt DEF InMemory, Seen

(* A session that resolves has a record, which is one of the batch.        *)
LEMMA RecordType ==
    ASSUME Typed, NEW s \in Sessions, todo[s] # <<>>
    PROVE  /\ Record(s) \in Records
           /\ Record(s) \in Keys
           /\ Tail(todo[s]) \in Seq(Records)
           /\ Len(todo[s]) # 1 => Tail(todo[s]) # <<>>
<1>1. todo[s] \in Seq(Records)
  BY DEF Typed, TypeOK
<1>2. /\ Head(todo[s]) \in Records
      /\ Tail(todo[s]) \in Seq(Records)
      /\ Len(Tail(todo[s])) = Len(todo[s]) - 1
  BY <1>1, HeadTailProperties
<1>3. Len(todo[s]) \in Nat
  BY <1>1, LenProperties
<1>4. ASSUME Tail(todo[s]) = <<>>
      PROVE  Len(todo[s]) = 1
  <2>1. Len(Tail(todo[s])) = 0
    BY <1>2, <1>4, EmptySeq
  <2> QED
    BY <2>1, <1>2, <1>3
<1> QED
  BY <1>2, <1>4 DEF Record, Records

(* A row the session has found holds a key, so it was inserted.            *)
LEMMA SeenInserted ==
    ASSUME Typed, NEW s \in Sessions, NEW r \in Rows, NEW c \in Columns,
           Seen(s)[r][c] # None
    PROVE  r \in 1..nextRow
<1>1. CASE r \in loaded[s]
  BY <1>1 DEF Typed, TouchesLoaded
<1>2. CASE r \notin loaded[s]
  <2>1. <<r, c>> \notin written[s]
    BY <1>2 DEF Typed, TouchesLoaded
  <2>2. table[r][c] # None
    BY <2>1, StoredAt DEF Seen
  <2>3. table[r] # Blank
    BY <2>2 DEF Blank, Columns
  <2> QED
    BY <2>3 DEF Typed, TypeOK, Rows
<1> QED
  BY <1>1, <1>2

-----------------------------------------------------------------------------
(* Types                                                                   *)

(* The empty table has its types.                                          *)
LEMMA InitTyped == Init => Typed
<1> SUFFICES ASSUME Init
             PROVE  Typed
  OBVIOUS
<1>1. Blank \in Keys
  BY DEF Blank, Keys
<1>2. /\ table \in [Rows -> Keys]
      /\ nextRow \in 0..MaxRows
      /\ \A r \in Rows : r > nextRow => table[r] = Blank
  BY <1>1, EntitiesAssumption DEF Init
<1>3. /\ pc \in [Sessions -> {"idle", "byId", "byName", "create", "done", "inactive"}]
      /\ todo \in [Sessions -> Seq(Records)]
      /\ \A s \in Sessions : pc[s] \in {"byId", "byName", "create"} => todo[s] # <<>>
  BY EmptySeq DEF Init
<1>4. view \in [Sessions -> [Rows -> Keys]]
  BY <1>1 DEF Init
<1>5. /\ loaded \in [Sessions -> SUBSET Rows]
      /\ dirty \in [Sessions -> SUBSET (Rows \X Columns)]
      /\ written \in [Sessions -> SUBSET (Rows \X Columns)]
      /\ resolved \in [Sessions -> SUBSET (Records \X Rows)]
  BY DEF Init
<1>6. TouchesLoaded
  BY DEF Init, TouchesLoaded
<1> QED
  BY <1>2, <1>3, <1>4, <1>5, <1>6 DEF Typed, TypeOK

(* On to the next record: only where the session is changes.               *)
LEMMA ContinueTyped ==
    ASSUME Typed, NEW s \in Sessions, todo[s] # <<>>, Continue(s)
    PROVE  /\ pc' \in [Sessions -> {"idle", "byId", "byName", "create", "done", "inactive"}]
           /\ todo' \in [Sessions -> Seq(Records)]
           /\ \A o \in Sessions : pc'[o] \in {"byId", "byName", "create"} => todo'[o] # <<>>
           /\ pc'[s] \in {"byId", "done"}
           /\ \A o \in Sessions \ {s} : pc'[o] = pc[o]
<1>1. /\ todo' = [todo EXCEPT ![s] = Tail(todo[s])]
      /\ pc' = [pc EXCEPT ![s] = IF Len(todo[s]) = 1 THEN "done" ELSE "byId"]
  BY DEF Continue
<1> QED
  BY <1>1, RecordType DEF Typed, TypeOK

(* What a session changes of its identity map: row r gets the keys in new, *)
(* and the columns in cols are changed or written.                         *)
LEMMA TouchTyped ==
    ASSUME Typed, nextRow' \in 0..MaxRows, nextRow =< nextRow',
           NEW s \in Sessions, NEW r \in 1..nextRow', NEW new \in Keys,
           NEW d \in SUBSET ((loaded[s] \cup {r}) \X Columns),
           NEW w \in SUBSET ((loaded[s] \cup {r}) \X Columns),
           loaded' = [loaded EXCEPT ![s] = @ \cup {r}],
           view' = [view EXCEPT ![s][r] = new],
           dirty' = [dirty EXCEPT ![s] = d],
           written' = [written EXCEPT ![s] = w]
    PROVE  /\ loaded' \in [Sessions -> SUBSET Rows]
           /\ view' \in [Sessions -> [Rows -> Keys]]
           /\ dirty' \in [Sessions -> SUBSET (Rows \X Columns)]
           /\ written' \in [Sessions -> SUBSET (Rows \X Columns)]
           /\ TouchesLoaded'
<1>1. r \in Rows /\ 1..nextRow \subseteq 1..nextRow'
  BY EntitiesAssumption DEF Rows, Typed, TypeOK
<1>2. loaded' \in [Sessions -> SUBSET Rows]
  BY <1>1 DEF Typed, TypeOK
<1>3. view' \in [Sessions -> [Rows -> Keys]]
  <2>1. view \in [Sessions -> [Rows -> Keys]]
    BY DEF Typed, TypeOK
  <2>2. [view[s] EXCEPT ![r] = new] \in [Rows -> Keys]
    BY <2>1
  <2> QED
    BY <2>1, <2>2
<1>4. d \subseteq Rows \X Columns /\ w \subseteq Rows \X Columns
  BY <1>1 DEF Typed, TypeOK
<1>5. dirty' \in [Sessions -> SUBSET (Rows \X Columns)]
  BY <1>4 DEF Typed, TypeOK
<1>6. written' \in [Sessions -> SUBSET (Rows \X Columns)]
  BY <1>4 DEF Typed, TypeOK
<1>7. ASSUME NEW o \in Sessions
      PROVE  /\ loaded'[o] \subseteq 1..nextRow'
             /\ dirty'[o] \cup written'[o] \subseteq loaded'[o] \X Columns
  <2>1. /\ loaded[o] \subseteq 1..nextRow
        /\ dirty[o] \cup written[o] \subseteq loaded[o] \X Columns
    BY DEF Typed, TouchesLoaded
  <2>2. CASE o = s
    <3>1. /\ loaded'[o] = loaded[s] \cup {r}
          /\ dirty'[o] = d
          /\ written'[o] = w
      BY <2>2 DEF Typed, TypeOK
    <3> QED
      BY <2>1, <2>2, <3>1, <1>1
  <2>3. CASE o # s
    <3>1. /\ loaded'[o] = loaded[o]
          /\ dirty'[o] = dirty[o]
          /\ written'[o] = written[o]
      BY <2>3 DEF Typed, TypeOK
    <3> QED
      BY <2>1, <3>1, <1>1
  <2> QED
    BY <2>2, <2>3
<1> QED
  BY <1>2, <1>3, <1>5, <1>6, <1>7 DEF TouchesLoaded

(* The summary of a batch gains a pair of a record and a row.              *)
LEMMA ResolvedTyped ==
    ASSUME Typed, NEW s \in Sessions, todo[s] # <<>>, NEW r \in Rows, Resolved(s, r)
    PROVE  resolved' \in [Sessions -> SUBSET (Records \X Rows)]
BY RecordType DEF Resolved, Typed, TypeOK

(* Adopting a row that was inserted (_resolve_telegram_entity).            *)
LEMMA AdoptTyped ==
    ASSUME Typed, NEW s \in Sessions, todo[s] # <<>>, NEW r \in Rows,
           r \in 1..nextRow, Adopt(s, r)
    PROVE  Typed'
<1> DEFINE old == InMemory(s, r)
           new == Backfilled(old, Record(s))
           d == dirty[s] \cup {<<r, c>> : c \in {k \in Columns : new[k] # old[k]}}
<1>1. /\ loaded' = [loaded EXCEPT ![s] = @ \cup {r}]
      /\ view' = [view EXCEPT ![s][r] = new]
      /\ dirty' = [dirty EXCEPT ![s] = d]
      /\ Resolved(s, r)
      /\ Continue(s)
      /\ UNCHANGED <<table, nextRow, written>>
  BY DEF Adopt
<1>2. new \in Keys
  BY InMemoryType, RecordType, BackfilledAt
<1>3. /\ d \subseteq (loaded[s] \cup {r}) \X Columns
      /\ written[s] \subseteq (loaded[s] \cup {r}) \X Columns
  BY DEF Typed, TouchesLoaded
<1>4. written' = [written EXCEPT ![s] = written[s]]
  BY <1>1 DEF Typed, TypeOK
<1>5. nextRow' \in 0..MaxRows /\ nextRow =< nextRow' /\ r \in 1..nextRow'
  BY <1>1 DEF Typed, TypeOK
<1> HIDE DEF d, new, old
<1>6. /\ loaded' \in [Sessions -> SUBSET Rows]
      /\ view' \in [Sessions -> [Rows -> Keys]]
      /\ dirty' \in [Sessions -> SUBSET (Rows \X Columns)]
      /\ written' \in [Sessions -> SUBSET (Rows \X Columns)]
      /\ TouchesLoaded'
  BY <1>1, <1>2, <1>3, <1>4, <1>5, TouchTyped
<1> QED
  BY <1>1, <1>5, <1>6, ContinueTyped, ResolvedTyped DEF Typed, TypeOK

(* A flush that raised.                                                    *)
LEMMA DeactivateTyped ==
    ASSUME Typed, NEW s \in Sessions, Deactivate(s)
    PROVE  Typed'
<1>1. TypeOK'
  BY DEF Deactivate, Typed, TypeOK
<1>2. TouchesLoaded'
  BY DEF Deactivate, Typed, TypeOK, TouchesLoaded
<1> QED
  BY <1>1, <1>2 DEF Typed

(* The end of a unit of work, over a well-typed table.                     *)
LEMMA CloseTyped ==
    ASSUME Typed, NEW s \in Sessions, Close(s), table' \in [Rows -> Keys],
           \A r \in Rows : r > nextRow => table'[r] = Blank
    PROVE  Typed'
<1>1. /\ pc' \in [Sessions -> {"idle", "byId", "byName", "create", "done", "inactive"}]
      /\ todo' \in [Sessions -> Seq(Records)]
      /\ \A o \in Sessions : pc'[o] \in {"byId", "byName", "create"} => todo'[o] # <<>>
  BY EmptySeq DEF Close, Typed, TypeOK
<1>2. view' \in [Sessions -> [Rows -> Keys]]
  <2>1. [r \in Rows |-> Blank] \in [Rows -> Keys]
    BY DEF Blank, Keys
  <2> QED
    BY <2>1 DEF Close, Typed, TypeOK
<1>3. /\ loaded' \in [Sessions -> SUBSET Rows]
      /\ dirty' \in [Sessions -> SUBSET (Rows \X Columns)]
      /\ written' \in [Sessions -> SUBSET (Rows \X Columns)]
      /\ resolved' \in [Sessions -> SUBSET (Records \X Rows)]
      /\ nextRow' = nextRow /\ nextRow \in 0..MaxRows
  BY DEF Close, Typed, TypeOK
<1>4. TouchesLoaded'
  BY DEF Close, Typed, TypeOK, TouchesLoaded
<1> QED
  BY <1>1, <1>2, <1>3, <1>4 DEF Typed, TypeOK

(* Every outcome of _get_or_create.                                        *)
LEMMA CreateTyped ==
    ASSUME Typed, NEW s \in Sessions, Create(s)
    PROVE  Typed'
<1> DEFINE flushed == Stored(s, written[s] \cup dirty[s])
           q0 == nextRow + 1
<1>0. /\ todo[s] # <<>>
      /\ nextRow \in 0..MaxRows
      /\ loaded[s] \subseteq 1..nextRow
      /\ dirty[s] \cup written[s] \subseteq loaded[s] \X Columns
  BY DEF Create, Working, Typed, TypeOK, TouchesLoaded
<1>1. CASE Skip(s)
  <2>1. TypeOK'
    BY <1>0, <1>1, ContinueTyped DEF Skip, Typed, TypeOK
  <2> QED
    BY <1>1, <2>1 DEF Skip, Typed, TouchesLoaded
<1>2. ASSUME NEW r \in Filtered(s),
             loaded' = [loaded EXCEPT ![s] = @ \cup {r}],
             view' = [view EXCEPT ![s][r] = InMemory(s, r)],
             Resolved(s, r), Continue(s),
             UNCHANGED <<table, nextRow, dirty, written>>
      PROVE  Typed'
  <2>1. r \in Rows /\ \E c \in Columns : Seen(s)[r][c] # None
    <3>1. Record(s) \in Keys
      BY <1>0, RecordType
    <3> QED
      BY <1>2, EntitiesAssumption, <3>1 DEF Filtered, RowsWithId, RowsWithName, Columns, Keys
  <2>2. r \in 1..nextRow'
    BY <1>2, <2>1, SeenInserted
  <2>3. /\ InMemory(s, r) \in Keys
        /\ dirty' = [dirty EXCEPT ![s] = dirty[s]]
        /\ written' = [written EXCEPT ![s] = written[s]]
        /\ dirty[s] \subseteq (loaded[s] \cup {r}) \X Columns
        /\ written[s] \subseteq (loaded[s] \cup {r}) \X Columns
        /\ nextRow' \in 0..MaxRows /\ nextRow =< nextRow'
    BY <1>0, <1>2, <2>1, InMemoryType DEF Typed, TypeOK
  <2>4. /\ loaded' \in [Sessions -> SUBSET Rows]
        /\ view' \in [Sessions -> [Rows -> Keys]]
        /\ dirty' \in [Sessions -> SUBSET (Rows \X Columns)]
        /\ written' \in [Sessions -> SUBSET (Rows \X Columns)]
        /\ TouchesLoaded'
    BY <1>2, <2>2, <2>3, TouchTyped
  <2> QED
    BY <1>0, <1>2, <2>1, <2>3, <2>4, ContinueTyped, ResolvedTyped DEF Typed, TypeOK
<1>3. CASE Deactivate(s)
  BY <1>3, DeactivateTyped
<1>4. ASSUME NEW q \in Rows,
             written' = [written EXCEPT ![s] = @ \cup dirty[s]],
             dirty' = [dirty EXCEPT ![s] = {}],
             Resolved(s, q), Continue(s),
             UNCHANGED <<table, nextRow, loaded, view>>
      PROVE  Typed'
  <2>1. /\ dirty' \in [Sessions -> SUBSET (Rows \X Columns)]
        /\ written' \in [Sessions -> SUBSET (Rows \X Columns)]
    BY <1>4 DEF Typed, TypeOK
  <2>2. TouchesLoaded'
    BY <1>4 DEF Typed, TypeOK, TouchesLoaded
  <2> QED
    BY <1>0, <1>4, <2>1, <2>2, ContinueTyped, ResolvedTyped DEF Typed, TypeOK
<1>5. ASSUME nextRow < MaxRows, nextRow' = q0,
             written' = [written EXCEPT ![s] = @ \cup dirty[s] \cup ({q0} \X Columns)],
             loaded' = [loaded EXCEPT ![s] = @ \cup {q0}],
             view' = [view EXCEPT ![s][q0] = Record(s)],
             dirty' = [dirty EXCEPT ![s] = {}],
             Resolved(s, q0), Continue(s), UNCHANGED table
      PROVE  Typed'
  <2>1. q0 \in Rows /\ q0 \in 1..nextRow' /\ nextRow' \in 0..MaxRows /\ nextRow =< nextRow'
    BY <1>0, <1>5, EntitiesAssumption DEF Rows
  <2>2. Record(s) \in Keys
    BY <1>0, RecordType
  <2> DEFINE w == written[s] \cup dirty[s] \cup ({q0} \X Columns)
  <2>3. /\ written' = [written EXCEPT ![s] = w]
        /\ w \subseteq (loaded[s] \cup {q0}) \X Columns
        /\ {} \subseteq (loaded[s] \cup {q0}) \X Columns
    BY <1>0, <1>5 DEF Typed, TypeOK
  <2> HIDE DEF w
  <2>4. /\ loaded' \in [Sessions -> SUBSET Rows]
        /\ view' \in [Sessions -> [Rows -> Keys]]
        /\ dirty' \in [Sessions -> SUBSET (Rows \X Columns)]
        /\ written' \in [Sessions -> SUBSET (Rows \X Columns)]
        /\ TouchesLoaded'
    BY <1>5, <2>1, <2>2, <2>3, TouchTyped
  <2>5. \A r \in Rows : r > nextRow' => table'[r] = Blank
    <3> SUFFICES ASSUME NEW r \in Rows, r > nextRow'
                 PROVE  table'[r] = Blank
      OBVIOUS
    <3>1. r > nextRow
      BY <1>0, <1>5 DEF Rows
    <3> QED
      BY <3>1, <1>5 DEF Typed, TypeOK
  <2>6. resolved' \in [Sessions -> SUBSET (Records \X Rows)]
    BY <1>0, <1>5, <2>1, ResolvedTyped
  <2> QED
    BY <1>0, <1>5, <2>1, <2>4, <2>5, <2>6, ContinueTyped DEF Typed, TypeOK
<1> QED
  BY <1>1, <1>2, <1>3, <1>4, <1>5 DEF Create

(* Every step keeps the types.                                             *)
LEMMA StepTyped == Typed /\ [Next]_vars => Typed'
<1> SUFFICES ASSUME Typed, [Next]_vars
             PROVE  Typed'
  OBVIOUS
<1>1. CASE UNCHANGED vars
  BY <1>1 DEF vars, Typed, TypeOK, TouchesLoaded
<1>2. ASSUME NEW s \in Sessions, Begin(s)
      PROVE  Typed'
  <2>1. PICK b \in Batches : todo' = [todo EXCEPT ![s] = b]
    BY <1>2 DEF Begin
  <2>2. b \in Seq(Records) /\ b # <<>>
    <3>1. PICK n \in 1..MaxBatch : b \in [1..n -> Records]
      BY DEF Batches
    <3>2. n \in Nat /\ n # 0
      OBVIOUS
    <3>3. b \in Seq(Records) /\ Len(b) = n
      BY <3>1, <3>2, IsASeq, LenProperties
    <3> QED
      BY <3>2, <3>3, EmptySeq
  <2>3. /\ todo' \in [Sessions -> Seq(Records)]
        /\ todo'[s] # <<>>
        /\ \A o \in Sessions \ {s} : todo'[o] = todo[o]
    BY <2>1, <2>2 DEF Typed, TypeOK
  <2>4. /\ pc' \in [Sessions -> {"idle", "byId", "byName", "create", "done", "inactive"}]
        /\ \A o \in Sessions \ {s} : pc'[o] = pc[o]
    BY <1>2 DEF Begin, Typed, TypeOK
  <2>5. \A o \in Sessions : pc'[o] \in {"byId", "byName", "create"} => todo'[o] # <<>>
    BY <2>3, <2>4 DEF Typed, TypeOK
  <2>6. UNCHANGED <<table, nextRow, loaded, view, dirty, written, resolved>>
    BY <1>2 DEF Begin
  <2>7. TypeOK'
    BY <2>3, <2>4, <2>5, <2>6 DEF Typed, TypeOK
  <2> QED
    BY <2>6, <2>7 DEF Typed, TouchesLoaded
<1>3. ASSUME NEW s \in Sessions, NEW at \in {"byName", "create"}, todo[s] # <<>>,
             Proceed(s, at)
      PROVE  Typed'
  <2>1. TypeOK'
    BY <1>3 DEF Proceed, Typed, TypeOK
  <2> QED
    BY <1>3, <2>1 DEF Proceed, Typed, TouchesLoaded
<1>4. ASSUME NEW s \in Sessions, NEW r \in Rows, todo[s] # <<>>,
             NEW c \in Columns, Seen(s)[r][c] # None, Adopt(s, r)
      PROVE  Typed'
  BY <1>4, SeenInserted, AdoptTyped
<1>5. ASSUME NEW s \in Sessions, ById(s)
      PROVE  Typed'
  <2>1. todo[s] # <<>>
    BY <1>5 DEF ById, Working
  <2>2. ASSUME Record(s).id # None, NEW r \in RowsWithId(s, Record(s).id), Adopt(s, r)
        PROVE  Typed'
    <3>1. r \in Rows /\ "id" \in Columns /\ Seen(s)[r]["id"] # None
      BY <2>2 DEF RowsWithId, Columns
    <3> QED
      BY <1>4, <2>1, <2>2, <3>1
  <2>3. CASE Proceed(s, "byName")
    BY <1>3, <2>1, <2>3
  <2> QED
    BY <1>5, <2>2, <2>3 DEF ById
<1>6. ASSUME NEW s \in Sessions, ByName(s)
      PROVE  Typed'
  <2>1. todo[s] # <<>>
    BY <1>6 DEF ByName, Working
  <2>2. ASSUME NEW r \in RowsWithName(s, Record(s).name), Adopt(s, r)
        PROVE  Typed'
    <3>1. r \in Rows /\ "name" \in Columns /\ Seen(s)[r]["name"] # None
      BY <2>2 DEF RowsWithName, Columns
    <3> QED
      BY <1>4, <2>1, <2>2, <3>1
  <2>3. CASE Skip(s)
    <3>1. TypeOK'
      BY <2>1, <2>3, ContinueTyped DEF Skip, Typed, TypeOK
    <3> QED
      BY <2>3, <3>1 DEF Skip, Typed, TouchesLoaded
  <2>4. CASE Proceed(s, "create")
    BY <1>3, <2>1, <2>4
  <2> QED
    BY <1>6, <2>2, <2>3, <2>4 DEF ByName
<1>7. ASSUME NEW s \in Sessions, Create(s)
      PROVE  Typed'
  BY <1>7, CreateTyped
<1>8. ASSUME NEW s \in Sessions, Commit(s)
      PROVE  Typed'
  <2> DEFINE flushed == Stored(s, written[s] \cup dirty[s])
  <2>1. CASE Deactivate(s)
    BY <2>1, DeactivateTyped
  <2>2. CASE table' = flushed /\ Close(s)
    <3>1. flushed = [r \in Rows |-> flushed[r]]
      BY DEF Stored
    <3>2. flushed \in [Rows -> Keys]
      <4>1. ASSUME NEW r \in Rows
            PROVE  flushed[r] \in Keys
        BY StoredAt
      <4> HIDE DEF flushed
      <4> QED
        BY <3>1, <4>1
    <3>3. ASSUME NEW r \in Rows, r > nextRow
          PROVE  flushed[r] = Blank
      <4>1. r \notin loaded[s]
        BY <3>3 DEF Typed, TypeOK, TouchesLoaded, Rows
      <4>2. \A c \in Columns : <<r, c>> \notin written[s] \cup dirty[s]
        BY <4>1 DEF Typed, TouchesLoaded
      <4>3. table[r] = Blank
        BY <3>3 DEF Typed, TypeOK
      <4> QED
        BY <4>2, <4>3 DEF Stored, Blank, Columns
    <3> QED
      BY <2>2, <3>2, <3>3, CloseTyped
  <2> QED
    BY <1>8, <2>1, <2>2 DEF Commit
<1>9. ASSUME NEW s \in Sessions, Rollback(s)
      PROVE  Typed'
  BY <1>9, CloseTyped DEF Rollback, Typed, TypeOK
<1> QED
  BY <1>1, <1>2, <1>5, <1>6, <1>7, <1>8, <1>9 DEF Next

(* Hence they hold throughout.                                             *)
LEMMA AlwaysTyped == Spec => []Typed
<1> QED
  BY InitTyped, StepTyped, PTL DEF Spec

(* Every record in work, every row and every pair of a batch's summary has *)
(* its type, however many units of work overlap; a row nobody inserted is  *)
(* blank (IngestionService.ingest).                                        *)
THEOREM EntitiesTyped == Spec => []TypeOK
<1>1. Typed => TypeOK
  BY DEF Typed
<1> QED
  BY <1>1, AlwaysTyped, PTL

-----------------------------------------------------------------------------
(* One unit of work after another                                          *)

(* A key the session reads from the database is the one it has in memory,  *)
(* and a key no transaction has committed or the session has not changed   *)
(* is the committed one.                                                   *)
LEMMA InMemoryFits ==
    ASSUME Typed, NEW s \in Sessions, ViewFits(s), pc[s] # "inactive",
           NEW r \in Rows, NEW c \in Columns
    PROVE  /\ Seen(s)[r][c] # None => InMemory(s, r)[c] = Seen(s)[r][c]
           /\ <<r, c>> \notin dirty[s] \cup written[s] => InMemory(s, r)[c] = table[r][c]
           /\ table[r][c] # None => InMemory(s, r)[c] = table[r][c]
<1>1. Seen(s)[r][c] = IF <<r, c>> \in written[s] THEN view[s][r][c] ELSE table[r][c]
  BY StoredAt DEF Seen
<1>2. CASE r \in loaded[s]
  <2>1. /\ <<r, c>> \notin dirty[s] \cup written[s] => view[s][r][c] = table[r][c]
        /\ table[r][c] # None => view[s][r][c] = table[r][c]
    BY <1>2 DEF ViewFits
  <2> QED
    BY <1>1, <1>2, <2>1 DEF InMemory
<1>3. CASE r \notin loaded[s]
  <2>1. <<r, c>> \notin written[s]
    BY <1>3 DEF Typed, TouchesLoaded
  <2> QED
    BY <1>1, <1>3, <2>1 DEF InMemory
<1> QED
  BY <1>2, <1>3

(* A row found is loaded with the keys it had, unknown ones filled in: what *)
(* the session knows still fits, and earlier records keep their match.     *)
LEMMA LoadFits ==
    ASSUME Typed, NEW s \in Sessions, ViewFits(s), ResolvedFits(s), pc[s] # "inactive",
           NEW r \in Rows, NEW new \in Keys, NEW d,
           \A c \in Columns : InMemory(s, r)[c] # None => new[c] = InMemory(s, r)[c],
           \A c \in Columns : new[c] # InMemory(s, r)[c] => <<r, c>> \in d,
           dirty[s] \subseteq d,
           todo[s] # <<>>, Matches(Record(s), new),
           loaded' = [loaded EXCEPT ![s] = @ \cup {r}],
           view' = [view EXCEPT ![s][r] = new],
           dirty' = [dirty EXCEPT ![s] = d],
           Resolved(s, r), UNCHANGED <<table, written>>
    PROVE  ViewFits(s)' /\ ResolvedFits(s)'
<1>1. /\ loaded'[s] = loaded[s] \cup {r}
      /\ dirty'[s] = d
      /\ written'[s] = written[s]
      /\ resolved'[s] = resolved[s] \cup {<<Record(s), r>>}
      /\ table' = table
  BY DEF Resolved, Typed, TypeOK
<1>2. /\ view'[s][r] = new
      /\ \A q \in Rows \ {r} : view'[s][q] = view[s][q]
  BY DEF Typed, TypeOK
<1>3. loaded[s] \subseteq Rows
  BY DEF Typed, TypeOK
<1>4. ASSUME NEW q \in loaded'[s], NEW c \in Columns
      PROVE  /\ <<q, c>> \notin dirty'[s] \cup written'[s] => view'[s][q][c] = table'[q][c]
             /\ table'[q][c] # None => view'[s][q][c] = table'[q][c]
  <2>1. CASE q = r
    <3>1. /\ <<r, c>> \notin dirty[s] \cup written[s] => InMemory(s, r)[c] = table[r][c]
          /\ table[r][c] # None => InMemory(s, r)[c] = table[r][c]
      BY InMemoryFits
    <3>2. <<r, c>> \notin d => new[c] = InMemory(s, r)[c]
      OBVIOUS
    <3>3. table[r][c] # None => new[c] = table[r][c]
      BY <3>1
    <3>4. <<r, c>> \notin d \cup written[s] => new[c] = table[r][c]
      BY <3>1, <3>2
    <3> QED
      BY <2>1, <1>1, <1>2, <3>3, <3>4
  <2>2. CASE q # r
    <3>1. q \in loaded[s] /\ q \in Rows
      BY <2>2, <1>1, <1>3
    <3>2. /\ <<q, c>> \notin dirty[s] \cup written[s] => view[s][q][c] = table[q][c]
          /\ table[q][c] # None => view[s][q][c] = table[q][c]
      BY <3>1 DEF ViewFits
    <3> QED
      BY <2>2, <1>1, <1>2, <3>1, <3>2
  <2> QED
    BY <2>1, <2>2
<1>5. ASSUME NEW p \in resolved'[s]
      PROVE  p[2] \in loaded'[s] /\ Matches(p[1], view'[s][p[2]])
  <2>1. CASE p = <<Record(s), r>>
    BY <2>1, <1>1, <1>2
  <2>2. CASE p \in resolved[s]
    <3>1. p[2] \in loaded[s] /\ p[2] \in Rows /\ Matches(p[1], view[s][p[2]])
      BY <2>2, <1>3 DEF ResolvedFits
    <3>2. CASE p[2] = r
      <4>1. PICK c \in Columns : p[1][c] # None /\ view[s][r][c] = p[1][c]
        BY <3>1, <3>2 DEF Matches
      <4>2. InMemory(s, r)[c] = view[s][r][c]
        BY <3>1, <3>2 DEF InMemory
      <4>3. new[c] = p[1][c]
        BY <4>1, <4>2
      <4>4. Matches(p[1], new)
        BY <4>1, <4>3 DEF Matches
      <4> QED
        BY <3>1, <3>2, <4>4, <1>1, <1>2
    <3>3. CASE p[2] # r
      BY <3>1, <3>3, <1>1, <1>2
    <3> QED
      BY <3>2, <3>3
  <2> QED
    BY <2>1, <2>2, <1>1
<1>6. ViewFits(s)'
  BY <1>4 DEF ViewFits
<1>7. ResolvedFits(s)'
  BY <1>5 DEF ResolvedFits
<1> QED
  BY <1>6, <1>7

(* Adopting a row that was found by key c.                                 *)
LEMMA AdoptFits ==
    ASSUME Typed, NEW s \in Sessions, ViewFits(s), ResolvedFits(s), pc[s] # "inactive",
           todo[s] # <<>>, NEW r \in Rows, NEW c \in Columns,
           Record(s)[c] # None, Seen(s)[r][c] = Record(s)[c], Adopt(s, r)
    PROVE  ViewFits(s)' /\ ResolvedFits(s)'
<1> DEFINE old == InMemory(s, r)
           new == Backfilled(old, Record(s))
           d == dirty[s] \cup {<<r, k>> : k \in {j \in Columns : new[j] # old[j]}}
<1>1. /\ loaded' = [loaded EXCEPT ![s] = @ \cup {r}]
      /\ view' = [view EXCEPT ![s][r] = new]
      /\ dirty' = [dirty EXCEPT ![s] = d]
      /\ Resolved(s, r)
      /\ UNCHANGED <<table, written>>
  BY DEF Adopt
<1>2. old \in Keys /\ Record(s) \in Keys
  BY InMemoryType, RecordType
<1>3. /\ new \in Keys
      /\ \A k \in Columns : new[k] = IF old[k] = None THEN Record(s)[k] ELSE old[k]
  BY <1>2, BackfilledAt
<1>4. old[c] = Record(s)[c]
  BY InMemoryFits
<1>5. Matches(Record(s), new)
  BY <1>3, <1>4 DEF Matches
<1>6. /\ \A k \in Columns : new[k] # old[k] => <<r, k>> \in d
      /\ dirty[s] \subseteq d
  OBVIOUS
<1>7. \A k \in Columns : old[k] # None => new[k] = old[k]
  BY <1>3
<1> HIDE DEF d, new
<1> QED
  BY <1>1, <1>3, <1>5, <1>6, <1>7, LoadFits

(* The two ways to find a row: by telegram_id, then by username.           *)
LEMMA FoundByKey ==
    ASSUME Typed, NEW s \in Sessions, todo[s] # <<>>, NEW r,
           \/ Record(s).id # None /\ r \in RowsWithId(s, Record(s).id)
           \/ r \in RowsWithName(s, Record(s).name)
    PROVE  r \in Rows /\ \E c \in Columns : /\ Record(s)[c] # None
                                            /\ Seen(s)[r][c] = Record(s)[c]
<1>1. CASE Record(s).id # None /\ r \in RowsWithId(s, Record(s).id)
  BY <1>1 DEF RowsWithId, Columns
<1>2. CASE r \in RowsWithName(s, Record(s).name)
  BY <1>2 DEF RowsWithName, Columns
<1> QED
  BY <1>1, <1>2

(* Every outcome of _get_or_create leaves what the session knows fitting.  *)
LEMMA CreateFits ==
    ASSUME Typed, NEW s \in Sessions, ViewFits(s), ResolvedFits(s), Create(s)
    PROVE  ViewFits(s)' /\ ResolvedFits(s)'
<1> DEFINE flushed == Stored(s, written[s] \cup dirty[s])
           q0 == nextRow + 1
<1>0. /\ todo[s] # <<>>
      /\ pc[s] # "inactive"
      /\ nextRow \in 0..MaxRows
      /\ loaded[s] \subseteq 1..nextRow
      /\ loaded[s] \subseteq Rows
      /\ dirty[s] \cup written[s] \subseteq loaded[s] \X Columns
      /\ Record(s) \in Records
      /\ Record(s) \in Keys
  BY RecordType DEF Create, Working, Typed, TypeOK, TouchesLoaded
<1>1. CASE Skip(s)
  BY <1>0, <1>1 DEF Skip, ViewFits, ResolvedFits
<1>2. ASSUME NEW r \in Filtered(s),
             loaded' = [loaded EXCEPT ![s] = @ \cup {r}],
             view' = [view EXCEPT ![s][r] = InMemory(s, r)],
             Resolved(s, r), UNCHANGED <<table, nextRow, dirty, written>>
      PROVE  ViewFits(s)' /\ ResolvedFits(s)'
  <2>1. r \in Rows /\ \E c \in Columns : Record(s)[c] # None /\ Seen(s)[r][c] = Record(s)[c]
    BY <1>0, <1>2, FoundByKey DEF Filtered
  <2>2. PICK c \in Columns : Record(s)[c] # None /\ Seen(s)[r][c] = Record(s)[c]
    BY <2>1
  <2>3. InMemory(s, r)[c] = Record(s)[c] /\ InMemory(s, r) \in Keys
    BY <1>0, <2>1, <2>2, InMemoryFits, InMemoryType
  <2>4. Matches(Record(s), InMemory(s, r))
    BY <2>2, <2>3 DEF Matches
  <2>5. dirty' = [dirty EXCEPT ![s] = dirty[s]]
    BY <1>2 DEF Typed, TypeOK
  <2> QED
    BY <1>0, <1>2, <2>1, <2>3, <2>4, <2>5, LoadFits
<1>3. CASE Deactivate(s)
  BY <1>3 DEF Deactivate, ViewFits, ResolvedFits, Typed, TypeOK
<1>4. ASSUME Filtered(s) = {}, NEW q \in Rows, flushed[q].id = Record(s).id,
             Record(s).id # None,
             written' = [written EXCEPT ![s] = @ \cup dirty[s]],
             dirty' = [dirty EXCEPT ![s] = {}],
             Resolved(s, q), UNCHANGED <<table, nextRow, loaded, view>>
      PROVE  ViewFits(s)' /\ ResolvedFits(s)'
  <2>1. q \notin RowsWithId(s, Record(s).id)
    BY <1>4 DEF Filtered
  <2>2. Seen(s)[q]["id"] # Record(s)["id"]
    BY <2>1 DEF RowsWithId
  <2>a. "id" \in Columns
    BY DEF Columns
  <2>3. /\ Seen(s)[q]["id"] = IF <<q, "id">> \in written[s]
                              THEN view[s][q]["id"] ELSE table[q]["id"]
        /\ flushed[q]["id"] = IF <<q, "id">> \in written[s] \cup dirty[s]
                              THEN view[s][q]["id"] ELSE table[q]["id"]
    BY <2>a, StoredAt DEF Seen
  <2>4. <<q, "id">> \in dirty[s] /\ view[s][q]["id"] = Record(s)["id"]
    BY <1>4, <2>2, <2>3
  <2>5. q \in loaded[s]
    BY <1>0, <2>4
  <2>6. Matches(Record(s), view[s][q])
    BY <1>4, <2>4 DEF Matches, Columns
  <2>7. /\ dirty'[s] \cup written'[s] = dirty[s] \cup written[s]
        /\ resolved'[s] = resolved[s] \cup {<<Record(s), q>>}
    BY <1>4 DEF Resolved, Typed, TypeOK
  <2>8. ViewFits(s)'
    BY <1>0, <1>4, <2>7 DEF ViewFits
  <2>9. ResolvedFits(s)'
    <3> SUFFICES ASSUME NEW p \in resolved'[s]
                 PROVE  p[2] \in loaded'[s] /\ Matches(p[1], view'[s][p[2]])
      BY DEF ResolvedFits
    <3>1. CASE p = <<Record(s), q>>
      BY <3>1, <2>5, <2>6, <1>4
    <3>2. CASE p \in resolved[s]
      BY <3>2, <1>4 DEF ResolvedFits
    <3> QED
      BY <3>1, <3>2, <2>7
  <2> QED
    BY <2>8, <2>9
<1>5. ASSUME nextRow < MaxRows,
             written' = [written EXCEPT ![s] = @ \cup dirty[s] \cup ({q0} \X Columns)],
             loaded' = [loaded EXCEPT ![s] = @ \cup {q0}],
             view' = [view EXCEPT ![s][q0] = Record(s)],
             dirty' = [dirty EXCEPT ![s] = {}],
             Resolved(s, q0), UNCHANGED table
      PROVE  ViewFits(s)' /\ ResolvedFits(s)'
  <2>1. q0 \in Rows /\ q0 \notin loaded[s] /\ q0 > nextRow
    BY <1>0, <1>5, EntitiesAssumption DEF Rows
  <2>2. table[q0] = Blank
    BY <2>1 DEF Typed, TypeOK
  <2>3. /\ loaded'[s] = loaded[s] \cup {q0}
        /\ dirty'[s] \cup written'[s] = dirty[s] \cup written[s] \cup ({q0} \X Columns)
        /\ resolved'[s] = resolved[s] \cup {<<Record(s), q0>>}
        /\ table' = table
    BY <1>5 DEF Resolved, Typed, TypeOK
  <2>4. /\ view'[s][q0] = Record(s)
        /\ \A r \in Rows \ {q0} : view'[s][r] = view[s][r]
    BY <1>5, <2>1 DEF Typed, TypeOK
  <2>5. ASSUME NEW r \in loaded'[s], NEW c \in Columns
        PROVE  /\ <<r, c>> \notin dirty'[s] \cup written'[s] => view'[s][r][c] = table'[r][c]
               /\ table'[r][c] # None => view'[s][r][c] = table'[r][c]
    <3>1. CASE r = q0
      BY <3>1, <2>2, <2>3 DEF Blank, Columns
    <3>2. CASE r # q0
      <4>1. r \in loaded[s] /\ r \in Rows /\ view'[s][r] = view[s][r]
        BY <3>2, <2>3, <2>4, <1>0
      <4>2. /\ <<r, c>> \notin dirty[s] \cup written[s] => view[s][r][c] = table[r][c]
            /\ table[r][c] # None => view[s][r][c] = table[r][c]
        BY <1>0, <4>1 DEF ViewFits
      <4> QED
        BY <4>1, <4>2, <2>3
    <3> QED
      BY <3>1, <3>2
  <2>6. Matches(Record(s), Record(s))
    <3>1. Record(s) # Blank
      BY <1>0 DEF Records
    <3>2. Record(s).id # None \/ Record(s).name # None
      BY <1>0, <3>1 DEF Keys, Blank
    <3> QED
      BY <3>2 DEF Matches, Columns
  <2>7. ASSUME NEW p \in resolved'[s]
        PROVE  p[2] \in loaded'[s] /\ Matches(p[1], view'[s][p[2]])
    <3>1. CASE p = <<Record(s), q0>>
      BY <3>1, <2>3, <2>4, <2>6
    <3>2. CASE p \in resolved[s]
      <4>1. p[2] \in loaded[s] /\ Matches(p[1], view[s][p[2]])
        BY <3>2 DEF ResolvedFits
      <4>2. p[2] \in Rows /\ p[2] # q0
        BY <4>1, <1>0, <2>1
      <4> QED
        BY <4>1, <4>2, <2>3, <2>4
    <3> QED
      BY <3>1, <3>2, <2>3
  <2>8. ViewFits(s)'
    BY <2>5 DEF ViewFits
  <2>9. ResolvedFits(s)'
    BY <2>7 DEF ResolvedFits
  <2> QED
    BY <2>8, <2>9
<1> QED
  BY <1>1, <1>2, <1>3, <1>4, <1>5 DEF Create

(* A session that ends knows nothing.                                      *)
LEMMA CloseFits ==
    ASSUME Typed, NEW s \in Sessions, Close(s)
    PROVE  ViewFits(s)' /\ ResolvedFits(s)'
<1>1. loaded'[s] = {} /\ resolved'[s] = {}
  BY DEF Close, Typed, TypeOK
<1> QED
  BY <1>1 DEF ViewFits, ResolvedFits

(* A step of s keeps what s knows.                                         *)
LEMMA OwnStepFits ==
    ASSUME Typed, NEW s \in Sessions, ViewFits(s), ResolvedFits(s),
           Begin(s) \/ ById(s) \/ ByName(s) \/ Create(s) \/ Commit(s) \/ Rollback(s)
    PROVE  ViewFits(s)' /\ ResolvedFits(s)'
<1>1. CASE Begin(s)
  BY <1>1 DEF Begin, ViewFits, ResolvedFits
<1>2. ASSUME NEW at \in {"byName", "create"}, pc[s] # "inactive", Proceed(s, at)
      PROVE  ViewFits(s)' /\ ResolvedFits(s)'
  BY <1>2 DEF Proceed, ViewFits, ResolvedFits
<1>3. CASE ById(s)
  <2>1. todo[s] # <<>> /\ pc[s] # "inactive"
    BY <1>3 DEF ById, Working
  <2>2. ASSUME Record(s).id # None, NEW r \in RowsWithId(s, Record(s).id), Adopt(s, r)
        PROVE  ViewFits(s)' /\ ResolvedFits(s)'
    <3>1. r \in Rows
      BY <2>2 DEF RowsWithId
    <3>2. PICK c \in Columns : Record(s)[c] # None /\ Seen(s)[r][c] = Record(s)[c]
      BY <2>1, <2>2, FoundByKey
    <3> QED
      BY <2>1, <2>2, <3>1, <3>2, AdoptFits
  <2>3. CASE Proceed(s, "byName")
    BY <1>2, <2>1, <2>3
  <2> QED
    BY <1>3, <2>2, <2>3 DEF ById
<1>4. CASE ByName(s)
  <2>1. todo[s] # <<>> /\ pc[s] # "inactive"
    BY <1>4 DEF ByName, Working
  <2>2. ASSUME NEW r \in RowsWithName(s, Record(s).name), Adopt(s, r)
        PROVE  ViewFits(s)' /\ ResolvedFits(s)'
    <3>1. r \in Rows
      BY <2>2 DEF RowsWithName
    <3>2. PICK c \in Columns : Record(s)[c] # None /\ Seen(s)[r][c] = Record(s)[c]
      BY <2>1, <2>2, FoundByKey
    <3> QED
      BY <2>1, <2>2, <3>1, <3>2, AdoptFits
  <2>3. CASE Skip(s)
    BY <2>1, <2>3 DEF Skip, ViewFits, ResolvedFits
  <2>4. CASE Proceed(s, "create")
    BY <1>2, <2>1, <2>4
  <2> QED
    BY <1>4, <2>2, <2>3, <2>4 DEF ByName
<1>5. CASE Create(s)
  BY <1>5, CreateFits
<1>6. CASE Commit(s)
  <2>1. CASE Deactivate(s)
    BY <2>1 DEF Deactivate, ViewFits, ResolvedFits, Typed, TypeOK
  <2> QED
    BY <1>6, <2>1, CloseFits DEF Commit
<1>7. CASE Rollback(s)
  BY <1>7, CloseFits DEF Rollback
<1> QED
  BY <1>1, <1>3, <1>4, <1>5, <1>6, <1>7

(* A step of s is none of another session's business.                      *)
LEMMA OthersUntouched ==
    ASSUME Typed, NEW s \in Sessions, NEW o \in Sessions, o # s,
           Begin(s) \/ ById(s) \/ ByName(s) \/ Create(s) \/ Commit(s) \/ Rollback(s)
    PROVE  /\ pc'[o] = pc[o]
           /\ loaded'[o] = loaded[o]
           /\ view'[o] = view[o]
           /\ dirty'[o] = dirty[o]
           /\ written'[o] = written[o]
           /\ resolved'[o] = resolved[o]
<1> USE DEF Typed, TypeOK
<1>1. CASE Begin(s)
  BY <1>1 DEF Begin
<1>2. CASE \E r \in Rows : Adopt(s, r)
  BY <1>2 DEF Adopt, Resolved, Continue
<1>3. CASE Skip(s) \/ \E at \in {"byName", "create"} : Proceed(s, at)
  BY <1>3 DEF Skip, Proceed, Continue
<1>4. CASE Deactivate(s)
  BY <1>4 DEF Deactivate
<1>5. CASE Close(s)
  BY <1>5 DEF Close
<1>6. CASE ById(s) \/ ByName(s)
  BY <1>2, <1>3, <1>6 DEF ById, ByName, RowsWithId, RowsWithName
<1>7. CASE Create(s)
  BY <1>3, <1>4, <1>7 DEF Create, Resolved, Continue
<1>8. CASE Commit(s) \/ Rollback(s)
  BY <1>4, <1>5, <1>8 DEF Commit, Rollback
<1> QED
  BY <1>1, <1>6, <1>7, <1>8

(* Only a commit changes the table, and it writes what the session has.    *)
LEMMA TableByCommit ==
    ASSUME NEW s \in Sessions,
           Begin(s) \/ ById(s) \/ ByName(s) \/ Create(s) \/ Commit(s) \/ Rollback(s)
    PROVE  \/ table' = table
           \/ pc[s] = "done" /\ table' = Stored(s, written[s] \cup dirty[s])
BY DEF Begin, ById, ByName, Create, Commit, Rollback, Adopt, Skip, Proceed, Deactivate

(* A session is idle only before it begins and after it has ended.         *)
LEMMA IdleStep ==
    ASSUME Typed, NEW s \in Sessions, IdleEmpty(s),
           Begin(s) \/ ById(s) \/ ByName(s) \/ Create(s) \/ Commit(s) \/ Rollback(s)
    PROVE  IdleEmpty(s)'
<1> USE DEF Typed, TypeOK, IdleEmpty
<1>1. CASE Begin(s)
  BY <1>1 DEF Begin
<1>2. CASE Close(s)
  BY <1>2 DEF Close
<1>3. CASE Deactivate(s) \/ \E at \in {"byName", "create"} : Proceed(s, at)
  BY <1>3 DEF Deactivate, Proceed
<1>4. CASE Continue(s)
  BY <1>4 DEF Continue
<1>5. CASE ById(s) \/ ByName(s)
  BY <1>3, <1>4, <1>5 DEF ById, ByName, Adopt, Skip
<1>6. CASE Create(s)
  BY <1>3, <1>4, <1>6 DEF Create, Skip
<1>7. CASE Commit(s) \/ Rollback(s)
  BY <1>2, <1>3, <1>7 DEF Commit, Rollback
<1> QED
  BY <1>1, <1>5, <1>6, <1>7

(* Every step of one session leaves what all of them know fitting, as long *)
(* as the others are idle.                                                 *)
LEMMA StepFits == Typed /\ SoloInv /\ OneAtATime /\ [Next]_vars => SoloInv'
<1> SUFFICES ASSUME Typed, SoloInv, OneAtATime, [Next]_vars
             PROVE  SoloInv'
  OBVIOUS
<1>1. CASE UNCHANGED vars
  BY <1>1 DEF vars, SoloInv, ViewFits, ResolvedFits, IdleEmpty
<1>2. CASE Next
  <2>1. PICK s \in Sessions : \/ Begin(s) \/ ById(s) \/ ByName(s) \/ Create(s)
                              \/ Commit(s) \/ Rollback(s)
    BY <1>2 DEF Next
  <2>2. ViewFits(s)' /\ ResolvedFits(s)' /\ IdleEmpty(s)'
    BY <2>1, OwnStepFits, IdleStep DEF SoloInv
  <2>3. ASSUME NEW o \in Sessions, o # s
        PROVE  ViewFits(o)' /\ ResolvedFits(o)' /\ IdleEmpty(o)'
    <3>1. /\ pc'[o] = pc[o]
          /\ loaded'[o] = loaded[o]
          /\ view'[o] = view[o]
          /\ dirty'[o] = dirty[o]
          /\ written'[o] = written[o]
          /\ resolved'[o] = resolved[o]
      BY <2>1, <2>3, OthersUntouched
    <3>2. ViewFits(o) /\ ResolvedFits(o) /\ IdleEmpty(o)
      BY DEF SoloInv
    <3>3. table' = table \/ loaded[o] = {}
      BY <2>1, <2>3, <3>2, TableByCommit DEF OneAtATime, IdleEmpty
    <3> QED
      BY <3>1, <3>2, <3>3 DEF ViewFits, ResolvedFits, IdleEmpty
  <2> QED
    BY <2>2, <2>3 DEF SoloInv
<1> QED
  BY <1>1, <1>2

(* Hence it fits throughout, while no two overlap.                         *)
LEMMA AlwaysSolo == Spec /\ []OneAtATime => [](Typed /\ SoloInv)
<1>1. Init => SoloInv
  BY DEF Init, SoloInv, ViewFits, ResolvedFits, IdleEmpty
<1>2. Typed /\ SoloInv /\ OneAtATime /\ [Next]_vars => SoloInv'
  BY StepFits
<1> QED
  BY <1>1, <1>2, InitTyped, StepTyped, PTL DEF Spec

(* While units of work do not overlap, every record a batch has resolved   *)
(* shares a key with its row, whatever the batch backfills or flushes      *)
(* afterwards (_resolve_telegram_entity): the row found is the one in      *)
(* memory, and a key that is known there is not changed.                   *)
THEOREM ResolvedRowsMatch == Spec /\ []OneAtATime => []ResolvedMatches
<1>1. SoloInv => ResolvedMatches
  BY DEF SoloInv, ResolvedFits, Matches, ResolvedMatches, InMemory
<1> QED
  BY <1>1, AlwaysSolo, PTL

(* While units of work do not overlap, a committed key is never replaced:  *)
(* backfilling fills in unknown keys only (entities.py:115), and what a    *)
(* session knows of a row is what is committed.  EntitiesRace shows that   *)
(* two that overlap do replace one.                                        *)
THEOREM StoredKeysStay == Spec /\ []OneAtATime => KeysNeverMove
<1>1. Typed /\ SoloInv /\ [Next]_vars =>
          [\A r \in Rows : \A c \in Columns :
               table[r][c] # None => table'[r][c] = table[r][c]]_vars
  <2> SUFFICES ASSUME Typed, SoloInv, Next,
                      NEW r \in Rows, NEW c \in Columns, table[r][c] # None
               PROVE  table'[r][c] = table[r][c]
    OBVIOUS
  <2>1. PICK s \in Sessions : \/ Begin(s) \/ ById(s) \/ ByName(s) \/ Create(s)
                              \/ Commit(s) \/ Rollback(s)
    BY DEF Next
  <2>2. CASE table' = table
    BY <2>2
  <2>3. CASE /\ pc[s] = "done"
             /\ table' = Stored(s, written[s] \cup dirty[s])
    <3>1. table'[r][c] = IF <<r, c>> \in written[s] \cup dirty[s]
                         THEN view[s][r][c] ELSE table[r][c]
      BY <2>3, StoredAt
    <3>2. CASE <<r, c>> \in written[s] \cup dirty[s]
      <4>1. r \in loaded[s]
        BY <3>2 DEF Typed, TouchesLoaded
      <4>2. view[s][r][c] = table[r][c]
        BY <2>3, <4>1 DEF SoloInv, ViewFits
      <4> QED
        BY <3>1, <3>2, <4>2
    <3> QED
      BY <3>1, <3>2
  <2> QED
    BY <2>1, <2>2, <2>3, TableByCommit
<1> QED
  BY <1>1, AlwaysSolo, PTL DEF Spec, KeysNeverMove
=============================================================================
