------------------------ MODULE EvidenceGraphProofs ------------------------
(***************************************************************************)
(* Proofs about EvidenceGraph: types, that every claim of the graph is     *)
(* backed by evidence (ClaimsBacked), that no observation is lost          *)
(* (EvidenceKept), and what units of work that do not overlap keep         *)
(* (MessagesMatch, ConfidenceKept, MergeComplete).                         *)
(***************************************************************************)
EXTENDS EvidenceGraph, TLAPS

-----------------------------------------------------------------------------
(* Invariants                                                              *)

Ingesting == {"blurbEvidence", "blurbEdge", "message", "scan", "matchEvidence",
              "matchEdge", "draft", "containerEdge"}
Merging == {"mergeEdges", "mergeMessages", "mergeRows", "mergeEvidence"}

\* What a session is doing (j) fits where it is (p) and what it loaded (t).
FitsAt(p, j, t) ==
    /\ p = "idle" => j = NoJob /\ t = NoTx
    /\ p # "idle" => j.node \in Nodes
    /\ p \in Ingesting => j.kind = "ingest" /\ j.seen \in Contents
    /\ p \in {"scan", "matchEvidence", "matchEdge"} => j.msg \in Msgs
    /\ p \in {"linkEdge", "linkEvidence"} => j.kind = "link" /\ j.conf \in {Weak, Strong}
    /\ p \in {"correlation", "sameEdge"} =>
          j.kind = "same" /\ j.other \in Nodes /\ j.conf \in {Weak, Strong}
    /\ p \in Merging => j.kind = "merge"
    /\ j.kind = "merge" => j.other \in Nodes /\ p \in Merging \cup {"done", "failed"}
    /\ p = "mergeEdges" => \A k \in j.rels : /\ j.other \in {k[1], k[2]}
                                            /\ t.base[k] # 0 /\ t.mem[k] # 0

JobsFit == /\ job \in [Sessions -> Job] /\ tx \in [Sessions -> Tx]
           /\ \A s \in Sessions : FitsAt(pc[s], job[s], tx[s])

\* The evidence E backs what the edge k claims.
Backed(k, E) ==
    /\ k[2] = Ioc /\ k[1] \in Nodes => <<Ioc, "blurb">> \in E
    /\ k[2] = Ioc /\ k[1] \notin Nodes => <<Ioc, "message">> \in E
    /\ k[1] = Target => \E n \in Nodes : <<Target, n>> \in E

\* At p, doing j with u uncommitted, session s has backed its edges by what is
\* committed or recorded in the same transaction (link records after it
\* observes); what it adds is new to everybody, and a merge moves rows of nodes
\* only, each to a key of its own.
ClaimsAt(s, p, j, u) ==
    /\ p # "failed" => \A k \in Edges : u.mem[k] > 0 =>
                          \/ Backed(k, evidence \cup u.added)
                          \/ p = "linkEvidence" /\ k[1] = Target
    /\ p = "blurbEdge" => <<Ioc, "blurb">> \in evidence \cup u.added
    /\ p = "matchEdge" => <<Ioc, "message">> \in evidence \cup u.added
    /\ u.added \cap evidence = {}
    /\ \A q \in Others(s) : u.added \cap tx[q].added = {}
    /\ u.moved # {} => j.kind = "merge" /\ p = "done"
    /\ \A e \in u.moved : e[1] \in Nodes /\ <<j.node, e[2]>> \in u.added

ClaimsInv == ClaimsBacked /\ \A s \in Sessions : ClaimsAt(s, pc[s], job[s], tx[s])

\* A merge at p, doing j with u uncommitted, holds the rows h: they are there,
\* whoever has repointed them since, no two would get one key, and it moves
\* nothing else; alone it holds just the rows of the node it drops.
HeldAt(p, j, u, h) ==
    /\ h # {} => j.kind = "merge" /\ p \in {"mergeEvidence", "done", "failed"}
    /\ h \subseteq evidence
    /\ \A e, f \in h : e[2] = f[2] => e = f
    /\ u.moved \subseteq h
    /\ ~overlapped => \A e \in h : e[1] = j.other
    /\ ~overlapped /\ p = "mergeEvidence" => \A e \in evidence : e[1] = j.other => e \in h

HeldInv ==
    /\ ~overlapped => \A s, q \in Sessions : pc[s] # "idle" /\ pc[q] # "idle" => s = q
    /\ \A s \in Sessions : \A q \in Others(s) : tx[s].moved \cap tx[q].moved = {}
    /\ \A s \in Sessions : HeldAt(pc[s], job[s], tx[s], held[s])

\* Message rows are numbered in the order they are inserted.
Unplaced == \A m \in Msgs : m > nextMsg =>
                container[m] = None /\ \A s \in Sessions : tx[s].placed[m] = None

\* With u uncommitted: where a message is seen posted, and the edges seen.
Seen(u, m) == IF u.placed[m] # None THEN u.placed[m] ELSE container[m]
Has(u, k) == u.mem[k] > 0 \/ (edges[k] > 0 /\ k \notin u.deleted)
Ends(k) == {k[1], k[2]}
New(j, x) == IF x = j.other THEN j.node ELSE x

\* A session that works alone: what it loaded is what is committed, and it
\* takes away only edges of the node it drops ...
EdgesAlone(j, u) ==
    \A k \in Edges :
        /\ u.base[k] # 0 => u.base[k] = edges[k]
        /\ u.mem[k] # 0 /\ u.base[k] = 0 => edges[k] = 0
        /\ k \notin u.deleted => u.mem[k] >= u.base[k]
        /\ k \in u.deleted => u.mem[k] = 0 /\ j.kind = "merge" /\ j.other \in Ends(k)
        /\ u.mem[k] # u.base[k] => k \in u.written \cup u.dirty \cup u.deleted

\* ... a merge has put something at least as strong in the place of every edge
\* it has dealt with, and after each of its steps one table is rid of the node ...
MergeAlone(p, j, u) ==
    j.kind = "merge" =>
        /\ p # "mergeEdges" => j.rels = {}
        /\ \A k \in Edges : j.other \in Ends(k) /\ Has(u, k) => k \in j.rels
        /\ \A k \in Edges : edges[k] > 0 /\ j.other \in Ends(k) /\ k \notin j.rels =>
              LET i == <<New(j, k[1]), New(j, k[2])>>
              IN  i[1] = i[2] \/ u.mem[i] >= edges[k]
        /\ p \in {"mergeRows", "mergeEvidence", "done"} => \A m \in Msgs : Seen(u, m) # j.other
        /\ p = "done" => /\ \A e \in evidence : e[1] = j.other => e \in u.moved
                         /\ \A e \in u.added : e[1] # j.other
        /\ p # "done" => u.added = {}

\* ... and an edge that says where a message was posted agrees with its row,
\* except while a merge has repointed the one and not yet the other.
PostedAlone(p, j, u) ==
    /\ \A m \in Msgs, n \in Nodes : Has(u, <<m, n>>) =>
          \/ Seen(u, m) = n
          \/ p \in {"mergeEdges", "mergeMessages"} /\ n = j.node /\ Seen(u, m) = j.other
    /\ p \in Ingesting /\ j.msg # 0 => Seen(u, j.msg) = j.node

AloneAt(p, j, u) == EdgesAlone(j, u) /\ MergeAlone(p, j, u) /\ PostedAlone(p, j, u)

AloneInv ==
    ~overlapped =>
        /\ MessagesMatch
        /\ \A s, q \in Sessions : pc[s] # "idle" /\ pc[q] # "idle" => s = q
        /\ \A s \in Sessions : pc[s] \notin {"idle", "failed"} => AloneAt(pc[s], job[s], tx[s])
-----------------------------------------------------------------------------
(* What the repositories make of a session's state                         *)

LEMMA ConfidenceFacts ==
    /\ Weak \in Nat /\ Strong \in Nat /\ Weak > 0 /\ Strong > 0
    /\ Confidence \subseteq Nat /\ 0 \in Confidence
    /\ Weak \in Confidence /\ Strong \in Confidence
    /\ \A a, b \in Confidence : /\ Highest(a, b) \in Confidence
                                /\ Highest(a, b) >= a /\ Highest(a, b) >= b
BY GraphAssumption DEF Confidence, Highest

LEMMA FlushedFacts ==
    ASSUME NEW t \in Tx
    PROVE  LET f == Flushed(t) IN
           /\ f \in Tx /\ f.base = t.base /\ f.mem = t.mem /\ f.dirty = {}
           /\ f.written = t.written \cup t.dirty /\ f.deleted = t.deleted
           /\ f.added = t.added /\ f.moved = t.moved /\ f.placed = t.placed
BY DEF Flushed, Tx

LEMMA BumpFacts ==
    ASSUME edges \in [Edges -> Confidence], NEW t \in Tx, NEW k \in Edges,
           NEW c \in Confidence
    PROVE  LET u == Bump(t, k, c)
               loaded == IF t.mem[k] > 0 THEN t.mem[k] ELSE edges[k]
           IN
           /\ u \in Tx /\ u.dirty = t.dirty \cup {k} /\ u.written = t.written
           /\ u.deleted = t.deleted
           /\ u.added = t.added /\ u.moved = t.moved /\ u.placed = t.placed
           /\ u.mem[k] = Highest(loaded, c)
           /\ u.base[k] = IF t.mem[k] > 0 THEN t.base[k] ELSE edges[k]
           /\ \A l \in Edges : l # k => u.mem[l] = t.mem[l] /\ u.base[l] = t.base[l]
<1> DEFINE loaded == IF t.mem[k] > 0 THEN t.mem[k] ELSE edges[k]
           b == IF t.mem[k] > 0 THEN t.base[k] ELSE edges[k]
           u == [t EXCEPT !.base[k] = b, !.mem[k] = Highest(loaded, c), !.dirty = @ \cup {k}]
<1>1. loaded \in Confidence /\ b \in Confidence /\ Highest(loaded, c) \in Confidence
  BY ConfidenceFacts DEF Tx
<1>2. Bump(t, k, c) = u
  BY DEF Bump
<1> HIDE DEF loaded, b
<1>3. u \in Tx
  BY <1>1 DEF Tx
<1>4. /\ u.dirty = t.dirty \cup {k} /\ u.written = t.written
      /\ u.deleted = t.deleted
      /\ u.added = t.added /\ u.moved = t.moved /\ u.placed = t.placed
  BY DEF Tx
<1>5. /\ u.mem[k] = Highest(loaded, c) /\ u.base[k] = b
      /\ \A l \in Edges : l # k => u.mem[l] = t.mem[l] /\ u.base[l] = t.base[l]
  BY DEF Tx
<1> QED
  BY <1>2, <1>3, <1>4, <1>5 DEF loaded, b

LEMMA InsertFacts ==
    ASSUME NEW t \in Tx, NEW k \in Edges, NEW c \in Confidence
    PROVE  LET u == Insert(t, k, c) IN
           /\ u \in Tx /\ u.dirty = {} /\ u.written = t.written \cup t.dirty \cup {k}
           /\ u.deleted = t.deleted
           /\ u.added = t.added /\ u.moved = t.moved /\ u.placed = t.placed
           /\ u.mem[k] = c /\ u.base[k] = 0
           /\ \A l \in Edges : l # k => u.mem[l] = t.mem[l] /\ u.base[l] = t.base[l]
<1> DEFINE f == Flushed(t)
           u == [f EXCEPT !.base[k] = 0, !.mem[k] = c, !.written = @ \cup {k}]
<1>1. /\ f \in Tx /\ f.base = t.base /\ f.mem = t.mem /\ f.dirty = {}
      /\ f.written = t.written \cup t.dirty /\ f.deleted = t.deleted
      /\ f.added = t.added /\ f.moved = t.moved /\ f.placed = t.placed
  BY FlushedFacts
<1>2. Insert(t, k, c) = u
  BY DEF Insert
<1> HIDE DEF f
<1>3. u \in Tx
  BY <1>1, ConfidenceFacts DEF Tx
<1>4. /\ u.dirty = f.dirty /\ u.written = f.written \cup {k} /\ u.deleted = f.deleted
      /\ u.added = f.added /\ u.moved = f.moved /\ u.placed = f.placed
  BY <1>1 DEF Tx
<1>5. /\ u.mem[k] = c /\ u.base[k] = 0
      /\ \A l \in Edges : l # k => u.mem[l] = f.mem[l] /\ u.base[l] = f.base[l]
  BY <1>1 DEF Tx
<1> QED
  BY <1>1, <1>2, <1>3, <1>4, <1>5

\* Either way the edge is in memory, at least as strong as observed.
LEMMA ObservedFacts ==
    ASSUME edges \in [Edges -> Confidence], NEW t \in Tx, NEW k \in Edges,
           NEW c \in Confidence \ {0}
    PROVE  LET u == Observed(t, k, c) IN
           /\ u \in Tx /\ u.deleted = t.deleted
           /\ u.added = t.added /\ u.moved = t.moved /\ u.placed = t.placed
           /\ u.mem[k] >= c /\ u.mem[k] > 0
           /\ \A l \in Edges : l # k => u.mem[l] = t.mem[l] /\ u.base[l] = t.base[l]
           /\ u.dirty \subseteq t.dirty \cup {k}
           /\ t.written \cup t.dirty \cup {k} = u.written \cup u.dirty
           /\ Visible(t, k) =>
                 /\ u.mem[k] >= t.mem[k]
                 /\ u.base[k] = IF t.mem[k] > 0 THEN t.base[k] ELSE edges[k]
                 /\ u.mem[k] = Highest(IF t.mem[k] > 0 THEN t.mem[k] ELSE edges[k], c)
           /\ ~Visible(t, k) => u.base[k] = 0 /\ u.mem[k] = c
<1> DEFINE u == Observed(t, k, c)
<1>0. /\ c \in Nat /\ c > 0 /\ t.mem[k] \in Nat /\ edges[k] \in Nat
      /\ t.mem[k] \in Confidence /\ edges[k] \in Confidence
  <2>1. t.mem[k] \in Confidence /\ edges[k] \in Confidence /\ c \in Confidence /\ c # 0
    BY DEF Tx
  <2>2. Confidence \subseteq Nat
    BY ConfidenceFacts
  <2>3. c \in Nat /\ t.mem[k] \in Nat /\ edges[k] \in Nat
    BY <2>1, <2>2
  <2> QED
    BY <2>1, <2>3
<1>1. CASE Visible(t, k)
  <2>1. u = Bump(t, k, c)
    BY <1>1 DEF Observed
  <2>2. /\ u \in Tx /\ u.dirty = t.dirty \cup {k} /\ u.written = t.written
        /\ u.deleted = t.deleted
        /\ u.added = t.added /\ u.moved = t.moved /\ u.placed = t.placed
        /\ u.mem[k] = Highest(IF t.mem[k] > 0 THEN t.mem[k] ELSE edges[k], c)
        /\ u.base[k] = IF t.mem[k] > 0 THEN t.base[k] ELSE edges[k]
        /\ \A l \in Edges : l # k => u.mem[l] = t.mem[l] /\ u.base[l] = t.base[l]
    BY <2>1, BumpFacts
  <2> HIDE DEF u
  <2>3. u.mem[k] \in Nat /\ u.mem[k] >= c /\ u.mem[k] >= t.mem[k]
    BY <1>0, <2>2, ConfidenceFacts DEF Highest
  <2> QED
    BY <1>0, <1>1, <2>2, <2>3 DEF u
<1>2. CASE ~Visible(t, k)
  <2>1. u = Insert(t, k, c)
    BY <1>2 DEF Observed
  <2>2. /\ u \in Tx /\ u.dirty = {} /\ u.written = t.written \cup t.dirty \cup {k}
        /\ u.deleted = t.deleted
        /\ u.added = t.added /\ u.moved = t.moved /\ u.placed = t.placed
        /\ u.mem[k] = c /\ u.base[k] = 0
        /\ \A l \in Edges : l # k => u.mem[l] = t.mem[l] /\ u.base[l] = t.base[l]
    BY <2>1, InsertFacts
  <2> HIDE DEF u
  <2> QED
    BY <1>0, <1>2, <2>2 DEF u
<1> QED
  BY <1>1, <1>2
-----------------------------------------------------------------------------
(* Types                                                                   *)

\* A statement of session s leaves it at p, doing j, with u uncommitted.
Moves(s, p, j, u) == /\ pc' = [pc EXCEPT ![s] = p]
                     /\ job' = [job EXCEPT ![s] = j]
                     /\ tx' = [tx EXCEPT ![s] = u]

Typed == TypeOK /\ JobsFit

WellTyped(p, j, u) == /\ p \in Phases /\ j \in Job /\ u \in Tx
                      /\ p # "idle" => j.node # j.other
                      /\ \A k \in u.dirty : u.mem[k] > 0
                      /\ FitsAt(p, j, u)

LEMMA TypedFacts ==
    ASSUME Typed
    PROVE  /\ edges \in [Edges -> Confidence] /\ evidence \subseteq Evidence
           /\ container \in [Msgs -> Nodes \cup {None}]
           /\ nextMsg \in 0..MaxMsgs /\ nextMsg \in Nat /\ MaxMsgs \in Nat
           /\ pc \in [Sessions -> Phases] /\ job \in [Sessions -> Job]
           /\ tx \in [Sessions -> Tx] /\ held \in [Sessions -> SUBSET About]
           /\ \A s \in Sessions : WellTyped(pc[s], job[s], tx[s])
BY GraphAssumption DEF Typed, TypeOK, JobsFit, WellTyped

LEMMA MovesTyped ==
    ASSUME Typed, NEW s \in Sessions, NEW p, NEW j, NEW u,
           Moves(s, p, j, u), WellTyped(p, j, u),
           edges' \in [Edges -> Confidence], evidence' \subseteq Evidence,
           container' \in [Msgs -> Nodes \cup {None}], nextMsg' \in 0..MaxMsgs,
           held' \in [Sessions -> SUBSET About],
           units' \in 0..MaxUnits, faults' \in 0..MaxFaults, overlapped' \in BOOLEAN
    PROVE  Typed'
<1>1. /\ pc' \in [Sessions -> Phases] /\ job' \in [Sessions -> Job] /\ tx' \in [Sessions -> Tx]
      /\ pc'[s] = p /\ job'[s] = j /\ tx'[s] = u
      /\ \A q \in Sessions : q # s => pc'[q] = pc[q] /\ job'[q] = job[q] /\ tx'[q] = tx[q]
  BY TypedFacts DEF Moves, WellTyped
<1>2. \A q \in Sessions : WellTyped(pc'[q], job'[q], tx'[q])
  BY <1>1, TypedFacts
<1>3. TypeOK'
  BY <1>1, <1>2 DEF TypeOK, WellTyped
<1>4. JobsFit'
  BY <1>1, <1>2 DEF JobsFit, WellTyped
<1> QED
  BY <1>3, <1>4 DEF Typed

\* What record, and upsert of a message, leave.
Recorded(t, e) == [Flushed(t) EXCEPT !.added = @ \cup {e}]
Placed(t, m, n) == [Flushed(t) EXCEPT !.placed[m] = n]

\* What observe and record do to a session.
LEMMA ObserveSteps ==
    ASSUME Typed, NEW s \in Sessions, NEW k \in Edges, NEW c \in Confidence \ {0}, NEW p,
           Observe(s, k, c, p)
    PROVE  /\ nextMsg' = nextMsg
           /\ \/ Moves(s, "failed", job[s], tx[s])
              \/ Moves(s, p, job[s], Observed(tx[s], k, c))
BY TypedFacts DEF Observe, FlushFails, Goto, Moves

LEMMA RecordSteps ==
    ASSUME Typed, NEW s \in Sessions, NEW e, NEW p, Record(s, e, p)
    PROVE  /\ nextMsg' = nextMsg
           /\ \/ Moves(s, "failed", job[s], tx[s])
              \/ /\ Moves(s, p, job[s], tx[s])
                 /\ e \in (evidence \ tx[s].moved) \cup tx[s].added
              \/ /\ Moves(s, p, job[s], Recorded(tx[s], e))
                 /\ e \notin (evidence \ tx[s].moved) \cup tx[s].added
                 /\ \A q \in Others(s) : e \notin tx[q].added
BY TypedFacts DEF Record, FlushFails, Goto, Moves, Recorded

LEMMA RecordedFacts ==
    ASSUME NEW t \in Tx, NEW e \in Evidence
    PROVE  LET u == Recorded(t, e) IN
           /\ u \in Tx /\ u.base = t.base /\ u.mem = t.mem /\ u.dirty = {}
           /\ u.written = t.written \cup t.dirty /\ u.deleted = t.deleted
           /\ u.added = t.added \cup {e} /\ u.moved = t.moved /\ u.placed = t.placed
<1> DEFINE f == Flushed(t)
           u == [f EXCEPT !.added = @ \cup {e}]
<1>1. /\ f \in Tx /\ f.base = t.base /\ f.mem = t.mem /\ f.dirty = {}
      /\ f.written = t.written \cup t.dirty /\ f.deleted = t.deleted
      /\ f.added = t.added /\ f.moved = t.moved /\ f.placed = t.placed
  BY FlushedFacts
<1> HIDE DEF f
<1>2. u \in Tx
  BY <1>1 DEF Tx
<1>3. /\ u.base = f.base /\ u.mem = f.mem /\ u.dirty = f.dirty
      /\ u.written = f.written /\ u.deleted = f.deleted
      /\ u.added = f.added \cup {e} /\ u.moved = f.moved /\ u.placed = f.placed
  BY <1>1 DEF Tx
<1> QED
  BY <1>1, <1>2, <1>3 DEF f, Recorded

LEMMA ObservedWellTyped ==
    ASSUME Typed, NEW s \in Sessions, NEW k \in Edges, NEW c \in Confidence \ {0},
           NEW p \in Phases \ {"idle"}, FitsAt(p, job[s], Observed(tx[s], k, c)),
           pc[s] # "idle"
    PROVE  WellTyped(p, job[s], Observed(tx[s], k, c))
<1> DEFINE u == Observed(tx[s], k, c)
<1>1. /\ u \in Tx /\ u.dirty \subseteq tx[s].dirty \cup {k} /\ u.mem[k] > 0
      /\ \A l \in Edges : l # k => u.mem[l] = tx[s].mem[l]
  BY TypedFacts, ObservedFacts
<1>2. tx[s] \in Tx /\ tx[s].dirty \subseteq Edges /\ \A l \in tx[s].dirty : tx[s].mem[l] > 0
  BY TypedFacts DEF WellTyped, Tx
<1>3. job[s] \in Job /\ job[s].node # job[s].other
  BY TypedFacts DEF WellTyped
<1> HIDE DEF u
<1>4. \A l \in u.dirty : u.mem[l] > 0
  BY <1>1, <1>2
<1> QED
  BY <1>1, <1>3, <1>4 DEF WellTyped, u

LEMMA RecordedWellTyped ==
    ASSUME Typed, NEW s \in Sessions, NEW e \in Evidence,
           NEW p \in Phases \ {"idle"},
           FitsAt(p, job[s], Recorded(tx[s], e)),
           pc[s] # "idle"
    PROVE  WellTyped(p, job[s], Recorded(tx[s], e))
<1> DEFINE u == Recorded(tx[s], e)
<1>1. u \in Tx /\ u.dirty = {}
  BY TypedFacts, RecordedFacts
<1>2. job[s] \in Job /\ job[s].node # job[s].other
  BY TypedFacts DEF WellTyped
<1> HIDE DEF u
<1> QED
  BY <1>1, <1>2 DEF WellTyped, u

LEMMA EdgeFacts ==
    /\ \A n \in Nodes : <<n, Ioc>> \in Edges /\ <<Target, n>> \in Edges
    /\ \A m \in Msgs : <<m, Ioc>> \in Edges /\ \A n \in Nodes : <<m, n>> \in Edges
    /\ \A n, o \in Nodes : n # o => <<n, o>> \in Edges
    /\ \A n \in Nodes : /\ <<n, "correlation">> \in Evidence /\ <<Target, n>> \in Evidence
                        /\ \A o \in Contents : <<n, o>> \in Evidence
    /\ <<Ioc, "blurb">> \in Evidence /\ <<Ioc, "message">> \in Evidence
    /\ Weak \in Confidence \ {0} /\ Strong \in Confidence \ {0}
<1>1. \A n \in Nodes : <<n, Ioc>> \in Edges /\ <<Target, n>> \in Edges
  BY DEF Edges
<1>2. \A m \in Msgs : <<m, Ioc>> \in Edges /\ \A n \in Nodes : <<m, n>> \in Edges
  BY DEF Edges
<1>3. \A n, o \in Nodes : n # o => <<n, o>> \in Edges
  BY DEF Edges
<1>4. \A n \in Nodes : /\ <<n, "correlation">> \in Evidence /\ <<Target, n>> \in Evidence
                       /\ \A o \in Contents : <<n, o>> \in Evidence
  BY DEF Evidence, About
<1>5. <<Ioc, "blurb">> \in Evidence /\ <<Ioc, "message">> \in Evidence
  BY DEF Evidence
<1> QED
  BY <1>1, <1>2, <1>3, <1>4, <1>5, ConfidenceFacts

\* The ends of an edge, and what a merge makes of it.
LEMMA EdgeKinds ==
    ASSUME NEW k \in Edges
    PROVE  /\ k = <<k[1], k[2]>>
           /\ \/ k[1] = Target /\ k[2] \in Nodes
              \/ k[1] \in Nodes /\ k[2] = Ioc
              \/ k[1] \in Nodes /\ k[2] \in Nodes /\ k[1] # k[2]
              \/ k[1] \in Msgs /\ (k[2] = Ioc \/ k[2] \in Nodes)
BY DEF Edges

LEMMA ImageFacts ==
    ASSUME NEW s \in Sessions, job[s].node \in Nodes, job[s].other \in Nodes,
           job[s].node # job[s].other, NEW k \in Edges
    PROVE  LET i == Image(s, k) IN
           /\ i[1] # i[2] => i \in Edges
           /\ job[s].other \notin {i[1], i[2]}
           /\ job[s].other \notin {k[1], k[2]} => i = k
           /\ k[1] = Target <=> i[1] = Target
           /\ k[2] = Ioc <=> i[2] = Ioc
           /\ k[1] \in Nodes <=> i[1] \in Nodes
           /\ k[1] \in Msgs => i[1] = k[1]
           /\ k[2] = job[s].other => i[2] = job[s].node
           /\ k[2] # job[s].other => i[2] = k[2]
<1> DEFINE i == Image(s, k)
           n == job[s].node
           o == job[s].other
<1>0. /\ Target \notin Nodes /\ Ioc \notin Nodes
      /\ \A m \in Msgs : m \notin Nodes /\ m # Target /\ m # Ioc
  <2>1. Msgs \subseteq Nat
    BY DEF Msgs
  <2> QED
    BY <2>1, GraphAssumption
<1>1. /\ i[1] = IF k[1] = o THEN n ELSE k[1]
      /\ i[2] = IF k[2] = o THEN n ELSE k[2]
      /\ i = <<i[1], i[2]>>
  BY DEF Image, Repointed
<1>2. /\ k = <<k[1], k[2]>>
      /\ \/ k[1] = Target /\ k[2] \in Nodes
         \/ k[1] \in Nodes /\ k[2] = Ioc
         \/ k[1] \in Nodes /\ k[2] \in Nodes /\ k[1] # k[2]
         \/ k[1] \in Msgs /\ (k[2] = Ioc \/ k[2] \in Nodes)
  BY EdgeKinds
<1> HIDE DEF i
<1>3. i[1] # i[2] => i \in Edges
  <2>1. \/ i[1] = Target /\ i[2] \in Nodes
        \/ i[1] \in Nodes /\ i[2] = Ioc
        \/ i[1] \in Nodes /\ i[2] \in Nodes
        \/ i[1] \in Msgs /\ (i[2] = Ioc \/ i[2] \in Nodes)
    BY <1>0, <1>1, <1>2
  <2> QED
    BY <1>1, <2>1, EdgeFacts
<1>4. o \notin {i[1], i[2]}
  BY <1>1
<1>5. o \notin {k[1], k[2]} => i = k
  BY <1>1, <1>2
<1>6. /\ k[1] = Target <=> i[1] = Target
      /\ k[2] = Ioc <=> i[2] = Ioc
      /\ k[1] \in Nodes <=> i[1] \in Nodes
      /\ k[1] \in Msgs => i[1] = k[1]
      /\ k[2] = o => i[2] = n
      /\ k[2] # o => i[2] = k[2]
  BY <1>0, <1>1, <1>2
<1> QED
  BY <1>3, <1>4, <1>5, <1>6 DEF i

StepTyped(s) == /\ \E p, j, u : Moves(s, p, j, u) /\ WellTyped(p, j, u)
                /\ nextMsg' \in 0..MaxMsgs

LEMMA FailTyped ==
    ASSUME Typed, NEW s \in Sessions, pc[s] # "idle"
    PROVE  WellTyped("failed", job[s], tx[s])
<1>1. WellTyped(pc[s], job[s], tx[s])
  BY TypedFacts
<1> QED
  BY <1>1 DEF WellTyped, FitsAt, Phases, Ingesting, Merging

\* From one statement to the next, doing the same.
LEMMA AdvanceTyped ==
    ASSUME Typed, NEW s \in Sessions, pc[s] # "idle",
           NEW p \in Phases \ {"idle"}, FitsAt(p, job[s], tx[s])
    PROVE  WellTyped(p, job[s], tx[s])
<1>1. WellTyped(pc[s], job[s], tx[s])
  BY TypedFacts
<1> QED
  BY <1>1 DEF WellTyped

\* An observation, or a record, on the way from one place to the next.
LEMMA ObserveTyped ==
    ASSUME Typed, NEW s \in Sessions, pc[s] # "idle", NEW k \in Edges,
           NEW c \in Confidence \ {0}, NEW p \in Phases \ {"idle"},
           Observe(s, k, c, p), p # "mergeEdges", \A t : FitsAt(p, job[s], t)
    PROVE  StepTyped(s)
<1>1. WellTyped("failed", job[s], tx[s])
  BY FailTyped
<1>2. WellTyped(p, job[s], Observed(tx[s], k, c))
  BY ObservedWellTyped
<1>3. \/ Moves(s, "failed", job[s], tx[s])
      \/ Moves(s, p, job[s], Observed(tx[s], k, c))
  BY ObserveSteps
<1>4. nextMsg' \in 0..MaxMsgs
  BY ObserveSteps, TypedFacts
<1> QED
  BY <1>1, <1>2, <1>3, <1>4 DEF StepTyped

LEMMA RecordTyped ==
    ASSUME Typed, NEW s \in Sessions, pc[s] # "idle", NEW e \in Evidence,
           NEW p \in Phases \ {"idle"},
           Record(s, e, p), p # "mergeEdges", \A t : FitsAt(p, job[s], t)
    PROVE  StepTyped(s)
<1>1. WellTyped("failed", job[s], tx[s])
  BY FailTyped
<1>2. WellTyped(p, job[s], Recorded(tx[s], e))
  BY RecordedWellTyped
<1>3. WellTyped(p, job[s], tx[s])
  BY AdvanceTyped
<1>4. \/ Moves(s, "failed", job[s], tx[s])
      \/ Moves(s, p, job[s], tx[s])
      \/ Moves(s, p, job[s], Recorded(tx[s], e))
  BY RecordSteps
<1>5. nextMsg' \in 0..MaxMsgs
  BY RecordSteps, TypedFacts
<1> QED
  BY <1>1, <1>2, <1>3, <1>4, <1>5 DEF StepTyped

\* The statements that observe or record, and what they name.
LEMMA SimpleTyped ==
    ASSUME Typed, NEW s \in Sessions,
           \/ BlurbEvidence(s) \/ BlurbEdge(s) \/ MatchEvidence(s) \/ MatchEdge(s)
           \/ Draft(s) \/ LinkEdge(s) \/ LinkEvidence(s) \/ Correlation(s) \/ SameEdge(s)
    PROVE  StepTyped(s)
<1>0. /\ WellTyped(pc[s], job[s], tx[s]) /\ FitsAt(pc[s], job[s], tx[s])
      /\ job[s].node # job[s].other \/ pc[s] = "idle"
  BY TypedFacts DEF WellTyped
<1>1. CASE BlurbEvidence(s)
  <2>1. pc[s] = "blurbEvidence" /\ \A t : FitsAt("blurbEdge", job[s], t)
    BY <1>0, <1>1 DEF BlurbEvidence, FitsAt, Ingesting, Merging
  <2> QED
    BY <1>1, <2>1, EdgeFacts, RecordTyped DEF BlurbEvidence, Phases
<1>2. CASE BlurbEdge(s)
  <2>1. /\ pc[s] = "blurbEdge" /\ job[s].node \in Nodes
        /\ \A t : FitsAt("message", job[s], t)
    BY <1>0, <1>2 DEF BlurbEdge, FitsAt, Ingesting, Merging
  <2>2. <<job[s].node, Ioc>> \in Edges /\ Weak \in Confidence \ {0}
    BY <2>1, EdgeFacts
  <2> QED
    BY <1>2, <2>1, <2>2, ObserveTyped DEF BlurbEdge, Phases
<1>3. CASE MatchEvidence(s)
  <2>1. pc[s] = "matchEvidence" /\ \A t : FitsAt("matchEdge", job[s], t)
    BY <1>0, <1>3 DEF MatchEvidence, FitsAt, Ingesting, Merging
  <2> QED
    BY <1>3, <2>1, EdgeFacts, RecordTyped DEF MatchEvidence, Phases
<1>4. CASE MatchEdge(s)
  <2>1. /\ pc[s] = "matchEdge" /\ job[s].msg \in Msgs
        /\ \A t : FitsAt("draft", job[s], t)
    BY <1>0, <1>4 DEF MatchEdge, FitsAt, Ingesting, Merging
  <2>2. <<job[s].msg, Ioc>> \in Edges /\ Weak \in Confidence \ {0}
    BY <2>1, EdgeFacts
  <2> QED
    BY <1>4, <2>1, <2>2, ObserveTyped DEF MatchEdge, Phases
<1>5. CASE Draft(s)
  <2>1. /\ pc[s] = "draft" /\ job[s].node \in Nodes /\ job[s].seen \in Contents
        /\ \A t : FitsAt("containerEdge", job[s], t)
    BY <1>0, <1>5 DEF Draft, FitsAt, Ingesting, Merging
  <2>2. <<job[s].node, job[s].seen>> \in Evidence
    BY <2>1, EdgeFacts
  <2> QED
    BY <1>5, <2>1, <2>2, RecordTyped DEF Draft, Phases
<1>6. CASE LinkEdge(s)
  <2>1. /\ pc[s] = "linkEdge" /\ job[s].node \in Nodes /\ job[s].conf \in {Weak, Strong}
        /\ \A t : FitsAt("linkEvidence", job[s], t)
    BY <1>0, <1>6 DEF LinkEdge, FitsAt, Ingesting, Merging
  <2>2. <<Target, job[s].node>> \in Edges /\ job[s].conf \in Confidence \ {0}
    BY <2>1, EdgeFacts
  <2> QED
    BY <1>6, <2>1, <2>2, ObserveTyped DEF LinkEdge, Phases
<1>7. CASE LinkEvidence(s)
  <2>1. /\ pc[s] = "linkEvidence" /\ job[s].node \in Nodes
        /\ \A t : FitsAt("done", job[s], t)
    BY <1>0, <1>7 DEF LinkEvidence, FitsAt, Ingesting, Merging
  <2>2. <<Target, job[s].node>> \in Evidence
    BY <2>1, EdgeFacts
  <2> QED
    BY <1>7, <2>1, <2>2, RecordTyped DEF LinkEvidence, Phases
<1>8. CASE Correlation(s)
  <2>1. /\ pc[s] = "correlation" /\ job[s].node \in Nodes
        /\ \A t : FitsAt("sameEdge", job[s], t)
    BY <1>0, <1>8 DEF Correlation, FitsAt, Ingesting, Merging
  <2>2. <<job[s].node, "correlation">> \in Evidence
    BY <2>1, EdgeFacts
  <2> QED
    BY <1>8, <2>1, <2>2, RecordTyped DEF Correlation, Phases
<1>9. CASE SameEdge(s)
  <2>1. /\ pc[s] = "sameEdge" /\ job[s].node \in Nodes /\ job[s].other \in Nodes
        /\ job[s].conf \in {Weak, Strong} /\ job[s].node # job[s].other
        /\ \A t : FitsAt("done", job[s], t)
    BY <1>0, <1>9 DEF SameEdge, FitsAt, Ingesting, Merging
  <2>2. <<job[s].node, job[s].other>> \in Edges /\ job[s].conf \in Confidence \ {0}
    BY <2>1, EdgeFacts
  <2> QED
    BY <1>9, <2>1, <2>2, ObserveTyped DEF SameEdge, Phases
<1> QED
  BY <1>1, <1>2, <1>3, <1>4, <1>5, <1>6, <1>7, <1>8, <1>9

LEMMA PlacedFacts ==
    ASSUME NEW t \in Tx, NEW m \in Msgs, NEW n \in Nodes
    PROVE  LET u == Placed(t, m, n) IN
           /\ u \in Tx /\ u.base = t.base /\ u.mem = t.mem /\ u.dirty = {}
           /\ u.written = t.written \cup t.dirty /\ u.deleted = t.deleted
           /\ u.added = t.added /\ u.moved = t.moved
           /\ u.placed[m] = n /\ \A l \in Msgs : l # m => u.placed[l] = t.placed[l]
<1> DEFINE f == Flushed(t)
           u == [f EXCEPT !.placed[m] = n]
<1>1. /\ f \in Tx /\ f.base = t.base /\ f.mem = t.mem /\ f.dirty = {}
      /\ f.written = t.written \cup t.dirty /\ f.deleted = t.deleted
      /\ f.added = t.added /\ f.moved = t.moved /\ f.placed = t.placed
  BY FlushedFacts
<1> HIDE DEF f
<1>2. u \in Tx
  BY <1>1 DEF Tx
<1>3. /\ u.base = f.base /\ u.mem = f.mem /\ u.dirty = f.dirty
      /\ u.written = f.written /\ u.deleted = f.deleted
      /\ u.added = f.added /\ u.moved = f.moved
      /\ u.placed[m] = n /\ \A l \in Msgs : l # m => u.placed[l] = f.placed[l]
  BY <1>1 DEF Tx
<1> QED
  BY <1>1, <1>2, <1>3 DEF f, Placed

\* The edge merge_entities has just deleted.
Gone(t, k) == [Flushed(t) EXCEPT !.deleted = @ \cup {k}, !.mem[k] = 0,
                                 !.written = @ \cup t.dirty \cup {k}]

LEMMA GoneFacts ==
    ASSUME NEW t \in Tx, NEW k \in Edges
    PROVE  LET u == Gone(t, k) IN
           /\ u \in Tx /\ u.base = t.base /\ u.dirty = {}
           /\ u.written = t.written \cup t.dirty \cup {k}
           /\ u.deleted = t.deleted \cup {k}
           /\ u.added = t.added /\ u.moved = t.moved /\ u.placed = t.placed
           /\ u.mem[k] = 0 /\ \A l \in Edges : l # k => u.mem[l] = t.mem[l]
<1> DEFINE f == Flushed(t)
           u == [f EXCEPT !.deleted = @ \cup {k}, !.mem[k] = 0,
                          !.written = @ \cup t.dirty \cup {k}]
<1>1. /\ f \in Tx /\ f.base = t.base /\ f.mem = t.mem /\ f.dirty = {}
      /\ f.written = t.written \cup t.dirty /\ f.deleted = t.deleted
      /\ f.added = t.added /\ f.moved = t.moved /\ f.placed = t.placed
      /\ t.dirty \subseteq Edges
  BY FlushedFacts DEF Tx
<1> HIDE DEF f
<1>2. u \in Tx
  BY <1>1, ConfidenceFacts DEF Tx
<1>3. /\ u.base = f.base /\ u.dirty = f.dirty
      /\ u.written = f.written \cup t.dirty \cup {k} /\ u.deleted = f.deleted \cup {k}
      /\ u.added = f.added /\ u.moved = f.moved /\ u.placed = f.placed
  BY <1>1 DEF Tx
<1>4. u.mem[k] = 0 /\ \A l \in Edges : l # k => u.mem[l] = f.mem[l]
  BY <1>1 DEF Tx
<1>5. Gone(t, k) = u
  BY DEF Gone, f
<1> QED
  BY <1>1, <1>2, <1>3, <1>4, <1>5

\* merge_entities deals with one edge.
LEMMA MergeEdgeSteps ==
    ASSUME Typed, NEW s \in Sessions, NEW k \in Edges, MergeEdge(s, k)
    PROVE  LET t == tx[s]
               i == Image(s, k)
               j == [job[s] EXCEPT !.rels = @ \ {k}]
           IN
           /\ pc[s] = "mergeEdges" /\ k \in job[s].rels /\ nextMsg' = nextMsg
           /\ \/ Moves(s, "failed", job[s], t)
              \/ /\ i[1] = i[2]
                 /\ Moves(s, "mergeEdges", j, Gone(t, k))
              \/ /\ i[1] # i[2]
                 /\ Moves(s, "mergeEdges", j, Observed(Gone(t, k), i, t.base[k]))
<1> DEFINE t == tx[s]
           i == Image(s, k)
           j == [job[s] EXCEPT !.rels = @ \ {k}]
<1>1. /\ pc[s] = "mergeEdges" /\ k \in job[s].rels /\ nextMsg' = nextMsg
      /\ \/ /\ pc' = [pc EXCEPT ![s] = "failed"]
            /\ UNCHANGED <<job, tx>>
         \/ /\ \/ i[1] = i[2] /\ tx' = [tx EXCEPT ![s] = Gone(t, k)]
               \/ /\ i[1] # i[2]
                  /\ tx' = [tx EXCEPT ![s] = Observed(Gone(t, k), i, t.base[k])]
            /\ job' = [job EXCEPT ![s] = j]
            /\ UNCHANGED pc
  BY DEF MergeEdge, Gone, Goto
<1>2. /\ pc = [pc EXCEPT ![s] = pc[s]] /\ job = [job EXCEPT ![s] = job[s]]
      /\ tx = [tx EXCEPT ![s] = tx[s]]
  BY TypedFacts
<1> HIDE DEF t, i, j
<1>3. \/ Moves(s, "failed", job[s], tx[s])
      \/ i[1] = i[2] /\ Moves(s, "mergeEdges", j, Gone(t, k))
      \/ i[1] # i[2] /\ Moves(s, "mergeEdges", j, Observed(Gone(t, k), i, t.base[k]))
  BY <1>1, <1>2 DEF Moves
<1> QED
  BY <1>1, <1>3 DEF t, i, j

LEMMA MergeEdgeTyped ==
    ASSUME Typed, NEW s \in Sessions, NEW k \in Edges, MergeEdge(s, k)
    PROVE  StepTyped(s)
<1> DEFINE t == tx[s]
           i == Image(s, k)
           j == [job[s] EXCEPT !.rels = @ \ {k}]
<1>0. /\ WellTyped(pc[s], job[s], t) /\ t \in Tx /\ job[s] \in Job
      /\ edges \in [Edges -> Confidence]
  BY TypedFacts DEF WellTyped
<1>1. /\ pc[s] = "mergeEdges" /\ k \in job[s].rels /\ nextMsg' = nextMsg
      /\ \/ Moves(s, "failed", job[s], t)
         \/ i[1] = i[2] /\ Moves(s, "mergeEdges", j, Gone(t, k))
         \/ i[1] # i[2] /\ Moves(s, "mergeEdges", j, Observed(Gone(t, k), i, t.base[k]))
  BY MergeEdgeSteps
<1>2. /\ job[s].node \in Nodes /\ job[s].other \in Nodes /\ job[s].node # job[s].other
      /\ job[s].kind = "merge"
      /\ \A l \in job[s].rels : /\ job[s].other \in {l[1], l[2]}
                               /\ t.base[l] # 0 /\ t.mem[l] # 0
  BY <1>0, <1>1 DEF WellTyped, FitsAt, Merging
<1>3. /\ j \in Job /\ j.node = job[s].node /\ j.other = job[s].other /\ j.kind = "merge"
      /\ j.rels = job[s].rels \ {k} /\ j.rels \subseteq Edges
  BY <1>0, <1>2 DEF Job
<1>4. LET u == Gone(t, k) IN
      /\ u \in Tx /\ u.base = t.base /\ u.dirty = {}
      /\ \A l \in j.rels : u.mem[l] # 0
  <2> DEFINE u == Gone(t, k)
  <2>1. /\ u \in Tx /\ u.base = t.base /\ u.dirty = {}
        /\ \A l \in Edges : l # k => u.mem[l] = t.mem[l]
    BY <1>0, GoneFacts
  <2> HIDE DEF u
  <2>2. \A l \in j.rels : u.mem[l] # 0
    BY <1>2, <1>3, <2>1
  <2> QED
    BY <2>1, <2>2 DEF u
<1>5. WellTyped("mergeEdges", j, Gone(t, k))
  BY <1>2, <1>3, <1>4 DEF WellTyped, FitsAt, Phases, Ingesting, Merging
<1>6. ASSUME i[1] # i[2]
      PROVE  WellTyped("mergeEdges", j, Observed(Gone(t, k), i, t.base[k]))
  <2> DEFINE g == Gone(t, k)
             c == t.base[k]
             u == Observed(g, i, c)
  <2>1. i \in Edges /\ job[s].other \notin {i[1], i[2]}
    BY <1>2, <1>6, ImageFacts
  <2>2. c \in Confidence \ {0}
    BY <1>0, <1>1, <1>2 DEF Tx
  <2>3. /\ g \in Tx /\ g.base = t.base /\ g.dirty = {}
        /\ \A l \in j.rels : g.mem[l] # 0
    BY <1>4
  <2> HIDE DEF g, i, c, j, t
  <2>0. edges \in [Edges -> Confidence]
    BY <1>0
  <2>7. i \in Edges /\ g \in Tx
    BY <2>1, <2>3
  <2>4. /\ u \in Tx /\ u.mem[i] > 0 /\ u.dirty \subseteq g.dirty \cup {i}
        /\ \A l \in Edges : l # i => u.base[l] = g.base[l] /\ u.mem[l] = g.mem[l]
    BY <2>0, <2>7, <2>2, ObservedFacts
  <2>5. \A l \in j.rels : /\ u.base[l] # 0 /\ u.mem[l] # 0
                          /\ job[s].other \in {l[1], l[2]}
    BY <1>2, <1>3, <2>1, <2>3, <2>4
  <2> HIDE DEF u
  <2>6. WellTyped("mergeEdges", j, u)
    BY <1>2, <1>3, <2>3, <2>4, <2>5 DEF WellTyped, FitsAt, Phases, Ingesting, Merging
  <2> QED
    BY <2>6 DEF u, g, i, c, j, t
<1>7. WellTyped("failed", job[s], t)
  BY <1>1, FailTyped
<1>8. nextMsg' \in 0..MaxMsgs
  BY <1>1, TypedFacts
<1> QED
  BY <1>1, <1>5, <1>6, <1>7, <1>8 DEF StepTyped

\* What merge_entities does to messages and evidence.
LEMMA MergeMessagesSteps ==
    ASSUME Typed, NEW s \in Sessions, MergeMessages(s)
    PROVE  LET t == tx[s]
               n == job[s].node
               o == job[s].other
           IN
           /\ pc[s] = "mergeMessages" /\ nextMsg' = nextMsg
           /\ \/ Moves(s, "failed", job[s], t)
              \/ Posted(s, o) = {} /\ Moves(s, "mergeRows", job[s], t)
              \/ /\ Posted(s, n) = {}
                 /\ Moves(s, "mergeRows", job[s],
                          [t EXCEPT !.placed = [m \in Msgs |-> IF m \in Posted(s, o) THEN n
                                                               ELSE t.placed[m]]])
<1>1. /\ pc = [pc EXCEPT ![s] = pc[s]] /\ job = [job EXCEPT ![s] = job[s]]
      /\ tx = [tx EXCEPT ![s] = tx[s]]
  BY TypedFacts
<1> QED
  BY <1>1 DEF MergeMessages, Moves, Goto

LEMMA MergeRowsSteps ==
    ASSUME Typed, NEW s \in Sessions, MergeRows(s)
    PROVE  /\ pc[s] = "mergeRows" /\ nextMsg' = nextMsg
           /\ Moves(s, "mergeEvidence", job[s], tx[s])
           /\ held' = [held EXCEPT ![s] = {e \in evidence : e[1] = job[s].other}]
           /\ {e \in evidence : e[1] = job[s].other} \subseteq About
<1>1. job = [job EXCEPT ![s] = job[s]] /\ tx = [tx EXCEPT ![s] = tx[s]]
  BY TypedFacts
<1>2. pc[s] = "mergeRows" /\ WellTyped(pc[s], job[s], tx[s]) /\ evidence \subseteq Evidence
  BY TypedFacts DEF MergeRows
<1>3. job[s].other \in Nodes
  BY <1>2 DEF WellTyped, FitsAt, Merging
<1>4. \A e \in Evidence : e[1] \in Nodes => e \in About
  BY GraphAssumption DEF Evidence
<1> QED
  BY <1>1, <1>2, <1>3, <1>4 DEF MergeRows, Moves, Goto

\* Loaded rows that a merge repoints, their new keys, and what it leaves.
Away(s) == {e \in held[s] : e[1] # job[s].node}
Keys(s) == {MovedTo(s, e) : e \in Away(s)}
MovedOn(s) == [Flushed(tx[s]) EXCEPT !.moved = Away(s), !.added = @ \cup Keys(s)]

LEMMA MergeEvidenceSteps ==
    ASSUME Typed, NEW s \in Sessions, MergeEvidence(s)
    PROVE  /\ pc[s] = "mergeEvidence" /\ nextMsg' = nextMsg
           /\ \/ Moves(s, "failed", job[s], tx[s])
              \/ /\ \A e \in held[s] : MovedTo(s, e) \in evidence => MovedTo(s, e) \in held[s]
                 /\ \A q \in Others(s) : /\ held[s] \cap Updated(q) = {}
                                         /\ Keys(s) \cap tx[q].added = {}
                 /\ Moves(s, "done", job[s], MovedOn(s))
<1> DEFINE images == {MovedTo(s, e) : e \in held[s]}
<1>1. /\ job = [job EXCEPT ![s] = job[s]] /\ tx = [tx EXCEPT ![s] = tx[s]]
  BY TypedFacts
<1>2. /\ pc[s] = "mergeEvidence" /\ UNCHANGED <<job, nextMsg>>
      /\ \A q \in Others(s) : /\ held[s] \cap Updated(q) = {}
                              /\ images \cap (tx[q].added \cup tx[q].moved) = {}
  BY DEF MergeEvidence
<1>3. \/ pc' = [pc EXCEPT ![s] = "failed"] /\ UNCHANGED tx
      \/ /\ images \cap (evidence \ held[s]) = {}
         /\ tx' = [tx EXCEPT ![s] = MovedOn(s)]
         /\ pc' = [pc EXCEPT ![s] = "done"]
  BY Zenon DEF MergeEvidence, Goto, Away, Keys, MovedOn
<1>4. \A e \in held[s] : MovedTo(s, e) \in images
  OBVIOUS
<1>5. Keys(s) \subseteq images
  BY DEF Keys, Away
<1> HIDE DEF images
<1>6. \/ Moves(s, "failed", job[s], tx[s])
      \/ images \cap (evidence \ held[s]) = {} /\ Moves(s, "done", job[s], MovedOn(s))
  BY <1>1, <1>2, <1>3 DEF Moves
<1> QED
  BY <1>2, <1>4, <1>5, <1>6

LEMMA AboutFacts ==
    /\ About \subseteq Evidence
    /\ \A e \in About : e[1] \in Nodes
    /\ \A e \in About : \A n \in Nodes : <<n, e[2]>> \in About
BY DEF About, Evidence

LEMMA MovedFacts ==
    ASSUME Typed, NEW s \in Sessions, job[s].node \in Nodes
    PROVE  LET t == tx[s]
               u == MovedOn(s)
           IN
           /\ u \in Tx /\ u.base = t.base /\ u.mem = t.mem /\ u.dirty = {}
           /\ u.written = t.written \cup t.dirty /\ u.deleted = t.deleted
           /\ u.added = t.added \cup Keys(s) /\ u.moved = Away(s) /\ u.placed = t.placed
           /\ Away(s) \subseteq About /\ Keys(s) \subseteq About
<1> DEFINE t == tx[s]
           f == Flushed(t)
           u == [f EXCEPT !.moved = Away(s), !.added = @ \cup Keys(s)]
<1>1. /\ f \in Tx /\ f.base = t.base /\ f.mem = t.mem /\ f.dirty = {}
      /\ f.written = t.written \cup t.dirty /\ f.deleted = t.deleted
      /\ f.added = t.added /\ f.moved = t.moved /\ f.placed = t.placed
  <2>1. t \in Tx
    BY TypedFacts
  <2> QED
    BY <2>1, FlushedFacts
<1>2. held[s] \subseteq About
  BY TypedFacts
<1>3. Away(s) \subseteq About /\ Keys(s) \subseteq About
  BY <1>2, AboutFacts DEF Away, Keys, MovedTo
<1> HIDE DEF f
<1>4. u \in Tx
  BY <1>1, <1>3, AboutFacts DEF Tx
<1>5. /\ u.base = f.base /\ u.mem = f.mem /\ u.dirty = f.dirty
      /\ u.written = f.written /\ u.deleted = f.deleted
      /\ u.added = f.added \cup Keys(s) /\ u.moved = Away(s) /\ u.placed = f.placed
  BY <1>1 DEF Tx
<1> QED
  BY <1>1, <1>3, <1>4, <1>5 DEF f, MovedOn

\* MessageRepository.upsert
LEMMA MessageSteps ==
    ASSUME Typed, NEW s \in Sessions, Message(s)
    PROVE  /\ pc[s] = "message"
           /\ \/ Moves(s, "failed", job[s], tx[s]) /\ nextMsg' = nextMsg
              \/ \E m \in Posted(s, job[s].node) :
                    Moves(s, "scan", [job[s] EXCEPT !.msg = m], tx[s]) /\ nextMsg' = nextMsg
              \/ /\ nextMsg < MaxMsgs /\ nextMsg' = nextMsg + 1
                 /\ Moves(s, "scan", [job[s] EXCEPT !.msg = nextMsg + 1],
                          Placed(tx[s], nextMsg + 1, job[s].node))
<1>1. /\ pc = [pc EXCEPT ![s] = pc[s]] /\ job = [job EXCEPT ![s] = job[s]]
      /\ tx = [tx EXCEPT ![s] = tx[s]]
  BY TypedFacts
<1> QED
  BY <1>1 DEF Message, FlushFails, Moves, Goto, Placed

LEMMA MessageTyped ==
    ASSUME Typed, NEW s \in Sessions, Message(s)
    PROVE  StepTyped(s)
<1> DEFINE t == tx[s]
           j(m) == [job[s] EXCEPT !.msg = m]
           v == Placed(t, nextMsg + 1, job[s].node)
<1>0. WellTyped(pc[s], job[s], t) /\ nextMsg \in 0..MaxMsgs /\ MaxMsgs \in Nat
  BY TypedFacts
<1>1. pc[s] = "message"
  BY MessageSteps
<1>2. /\ job[s] \in Job /\ job[s].node \in Nodes /\ job[s].kind = "ingest"
      /\ job[s].seen \in Contents /\ job[s].node # job[s].other
      /\ t \in Tx /\ \A k \in t.dirty : t.mem[k] > 0
  BY <1>0, <1>1 DEF WellTyped, FitsAt, Ingesting
<1>3. ASSUME NEW m \in Msgs
      PROVE  /\ j(m) \in Job /\ j(m).msg = m /\ j(m).node = job[s].node /\ j(m).kind = "ingest"
             /\ j(m).seen = job[s].seen /\ j(m).other = job[s].other
  <2>1. m \in 0..MaxMsgs
    BY <1>0 DEF Msgs
  <2> QED
    BY <1>2, <2>1 DEF Job
<1>4. ASSUME NEW m \in Msgs, NEW u \in Tx, \A k \in u.dirty : u.mem[k] > 0
      PROVE  WellTyped("scan", j(m), u)
  <2> HIDE DEF j
  <2> QED
    BY <1>2, <1>3, <1>4 DEF WellTyped, FitsAt, Phases, Ingesting, Merging
<1>5. \A m \in Posted(s, job[s].node) : m \in Msgs
  BY DEF Posted
<1>6. nextMsg < MaxMsgs => nextMsg + 1 \in Msgs /\ nextMsg + 1 \in 0..MaxMsgs
  BY <1>0 DEF Msgs
<1>7. nextMsg < MaxMsgs => v \in Tx /\ v.dirty = {}
  BY <1>2, <1>6, PlacedFacts
<1>8. nextMsg < MaxMsgs => WellTyped("scan", j(nextMsg + 1), v)
  <2> HIDE DEF v, j
  <2> QED
    BY <1>4, <1>6, <1>7
<1>9. WellTyped("failed", job[s], t)
  BY <1>1, FailTyped
<1>10. \A m \in Posted(s, job[s].node) : WellTyped("scan", j(m), t)
  BY <1>2, <1>4, <1>5
<1>11. nextMsg' \in 0..MaxMsgs
  BY <1>0, <1>6, MessageSteps
<1>12. \/ Moves(s, "failed", job[s], t)
       \/ \E m \in Posted(s, job[s].node) : Moves(s, "scan", j(m), t)
       \/ nextMsg < MaxMsgs /\ Moves(s, "scan", j(nextMsg + 1), v)
  BY MessageSteps
<1> HIDE DEF j, v, t
<1> QED
  BY <1>8, <1>9, <1>10, <1>11, <1>12 DEF StepTyped

\* Scan, the edge of a message, and the last steps of a merge.
LEMMA RestTyped ==
    ASSUME Typed, NEW s \in Sessions,
           \/ Scan(s) \/ ContainerEdge(s) \/ MergeEdgesDone(s) \/ MergeMessages(s)
           \/ MergeRows(s) \/ MergeEvidence(s)
    PROVE  StepTyped(s)
<1>0. /\ WellTyped(pc[s], job[s], tx[s]) /\ FitsAt(pc[s], job[s], tx[s])
      /\ job[s] \in Job /\ tx[s] \in Tx /\ nextMsg \in 0..MaxMsgs
      /\ job[s].node # job[s].other \/ pc[s] = "idle"
      /\ \A k \in tx[s].dirty : tx[s].mem[k] > 0
      /\ pc = [pc EXCEPT ![s] = pc[s]] /\ job = [job EXCEPT ![s] = job[s]]
      /\ tx = [tx EXCEPT ![s] = tx[s]]
  BY TypedFacts DEF WellTyped
<1>1. CASE Scan(s)
  <2>1. pc[s] = "scan" /\ FitsAt("matchEvidence", job[s], tx[s])
    BY <1>0, <1>1 DEF Scan, FitsAt, Ingesting, Merging
  <2>2. Moves(s, "matchEvidence", job[s], tx[s]) /\ nextMsg' = nextMsg
    BY <1>0, <1>1 DEF Scan, Moves, Goto
  <2>3. WellTyped("matchEvidence", job[s], tx[s])
    BY <2>1, AdvanceTyped DEF Phases
  <2> QED
    BY <1>0, <2>2, <2>3 DEF StepTyped
<1>2. CASE ContainerEdge(s)
  <2>1. /\ pc[s] = "containerEdge" /\ job[s].node \in Nodes
        /\ \A t : FitsAt("done", job[s], t)
    BY <1>0, <1>2 DEF ContainerEdge, FitsAt, Ingesting, Merging
  <2>2. CASE job[s].msg = 0
    <3>1. Moves(s, "done", job[s], tx[s]) /\ nextMsg' = nextMsg
      BY <1>0, <1>2, <2>2 DEF ContainerEdge, Observe, Moves, Goto
    <3>2. WellTyped("done", job[s], tx[s])
      BY <2>1, AdvanceTyped DEF Phases
    <3> QED
      BY <1>0, <3>1, <3>2 DEF StepTyped
  <2>3. CASE job[s].msg # 0
    <3>1. job[s].msg \in Msgs
      BY <1>0, <2>3, TypedFacts DEF Job, Msgs
    <3>2. <<job[s].msg, job[s].node>> \in Edges /\ Strong \in Confidence \ {0}
      BY <2>1, <3>1, EdgeFacts
    <3>3. Observe(s, <<job[s].msg, job[s].node>>, Strong, "done")
      BY <1>2, <2>3 DEF ContainerEdge
    <3> QED
      BY <2>1, <3>2, <3>3, ObserveTyped DEF Phases
  <2> QED
    BY <2>2, <2>3
<1>3. CASE MergeEdgesDone(s)
  <2>1. pc[s] = "mergeEdges" /\ FitsAt("mergeMessages", job[s], tx[s])
    BY <1>0, <1>3 DEF MergeEdgesDone, FitsAt, Ingesting, Merging
  <2>2. Moves(s, "mergeMessages", job[s], tx[s]) /\ nextMsg' = nextMsg
    BY <1>0, <1>3 DEF MergeEdgesDone, Moves, Goto
  <2>3. WellTyped("mergeMessages", job[s], tx[s])
    BY <2>1, AdvanceTyped DEF Phases
  <2> QED
    BY <1>0, <2>2, <2>3 DEF StepTyped
<1>4. CASE MergeMessages(s)
  <2> DEFINE v == [tx[s] EXCEPT !.placed = [m \in Msgs |-> IF m \in Posted(s, job[s].other)
                                             THEN job[s].node ELSE tx[s].placed[m]]]
  <2>1. /\ pc[s] = "mergeMessages" /\ nextMsg' = nextMsg
        /\ \/ Moves(s, "failed", job[s], tx[s])
           \/ Moves(s, "mergeRows", job[s], tx[s])
           \/ Moves(s, "mergeRows", job[s], v)
    BY <1>4, MergeMessagesSteps
  <2>2. job[s].node \in Nodes /\ \A t : FitsAt("mergeRows", job[s], t)
    BY <1>0, <2>1 DEF FitsAt, Ingesting, Merging
  <2>3. v \in Tx /\ v.dirty = tx[s].dirty /\ v.mem = tx[s].mem
    BY <1>0, <2>2 DEF Tx
  <2> HIDE DEF v
  <2>4. WellTyped("mergeRows", job[s], v)
    BY <1>0, <2>1, <2>2, <2>3 DEF WellTyped, Phases
  <2>5. WellTyped("mergeRows", job[s], tx[s]) /\ WellTyped("failed", job[s], tx[s])
    BY <2>1, <2>2, AdvanceTyped, FailTyped DEF Phases
  <2> QED
    BY <1>0, <2>1, <2>4, <2>5 DEF StepTyped
<1>5. CASE MergeRows(s)
  <2>1. /\ pc[s] = "mergeRows" /\ nextMsg' = nextMsg
        /\ Moves(s, "mergeEvidence", job[s], tx[s])
    BY <1>5, MergeRowsSteps
  <2>2. FitsAt("mergeEvidence", job[s], tx[s])
    BY <1>0, <2>1 DEF FitsAt, Ingesting, Merging
  <2>3. WellTyped("mergeEvidence", job[s], tx[s])
    BY <2>1, <2>2, AdvanceTyped DEF Phases
  <2> QED
    BY <1>0, <2>1, <2>3 DEF StepTyped
<1>6. CASE MergeEvidence(s)
  <2> DEFINE v == MovedOn(s)
  <2>1. /\ pc[s] = "mergeEvidence" /\ nextMsg' = nextMsg
        /\ Moves(s, "failed", job[s], tx[s]) \/ Moves(s, "done", job[s], v)
    BY <1>6, MergeEvidenceSteps
  <2>2. job[s].node \in Nodes /\ \A t : FitsAt("done", job[s], t)
    BY <1>0, <2>1 DEF FitsAt, Ingesting, Merging
  <2>3. v \in Tx /\ v.dirty = {}
    BY <2>2, MovedFacts
  <2> HIDE DEF v
  <2>4. WellTyped("done", job[s], v)
    BY <1>0, <2>1, <2>2, <2>3 DEF WellTyped, Phases
  <2>5. WellTyped("failed", job[s], tx[s])
    BY <2>1, FailTyped
  <2> QED
    BY <1>0, <2>1, <2>4, <2>5 DEF StepTyped
<1> QED
  BY <1>1, <1>2, <1>3, <1>4, <1>5, <1>6

\* A unit of work starts: s is at p, doing j, and a merge has loaded edges (u).
Starts(s, p, j, u) == /\ Moves(s, p, j, u)
                      /\ units < MaxUnits /\ units' = units + 1
                      /\ overlapped' = (overlapped \/ \E q \in Others(s) : pc[q] # "idle")
                      /\ UNCHANGED <<tables, nextMsg, held, faults>>

\* What merge_entities loads of the node it drops.
Loaded(o) == [k \in Edges |-> IF k \in EdgesAt(o) THEN edges[k] ELSE 0]
Fetched(t, o) == [t EXCEPT !.base = Loaded(o), !.mem = Loaded(o)]

NewIngest(n, o) == [NoJob EXCEPT !.kind = "ingest", !.node = n, !.conf = Weak, !.seen = o]
NewLink(n, c) == [NoJob EXCEPT !.kind = "link", !.node = n, !.conf = c]
NewSame(n, o, c) == [NoJob EXCEPT !.kind = "same", !.node = n, !.other = o, !.conf = c]
NewMerge(n, o) == [NoJob EXCEPT !.kind = "merge", !.node = n, !.other = o, !.rels = EdgesAt(o)]

LEMMA NoJobFacts ==
    /\ NoJob \in Job /\ NoJob.other = None /\ NoJob.msg = 0 /\ NoJob.rels = {}
    /\ \A c \in {Weak, Strong} : c \in Confidence
BY GraphAssumption, ConfidenceFacts DEF NoJob, Job

LEMMA NewIngestFacts ==
    ASSUME NEW n \in Nodes, NEW o \in Contents
    PROVE  LET j == NewIngest(n, o) IN
           /\ j \in Job /\ j.kind = "ingest" /\ j.node = n /\ j.other = None
           /\ j.conf = Weak /\ j.seen = o /\ j.msg = 0 /\ j.rels = {}
BY NoJobFacts DEF NewIngest, Job

LEMMA NewLinkFacts ==
    ASSUME NEW n \in Nodes, NEW c \in {Weak, Strong}
    PROVE  LET j == NewLink(n, c) IN
           /\ j \in Job /\ j.kind = "link" /\ j.node = n /\ j.other = None
           /\ j.conf = c /\ j.msg = 0 /\ j.rels = {}
BY NoJobFacts DEF NewLink, Job

LEMMA NewSameFacts ==
    ASSUME NEW n \in Nodes, NEW o \in Nodes, NEW c \in {Weak, Strong}
    PROVE  LET j == NewSame(n, o, c) IN
           /\ j \in Job /\ j.kind = "same" /\ j.node = n /\ j.other = o
           /\ j.conf = c /\ j.msg = 0 /\ j.rels = {}
BY NoJobFacts DEF NewSame, Job

LEMMA NewMergeFacts ==
    ASSUME NEW n \in Nodes, NEW o \in Nodes
    PROVE  LET j == NewMerge(n, o) IN
           /\ j \in Job /\ j.kind = "merge" /\ j.node = n /\ j.other = o
           /\ j.msg = 0 /\ j.rels = EdgesAt(o)
<1>1. EdgesAt(o) \subseteq Edges
  BY DEF EdgesAt
<1> QED
  BY <1>1, NoJobFacts DEF NewMerge, Job

\* The four units of work.
LEMMA StartSteps ==
    ASSUME Typed, NEW s \in Sessions
    PROVE  /\ \A n \in Nodes : \A o \in Contents : Ingest(s, n, o) =>
                 /\ pc[s] \in {"idle", "done"} /\ job[s].kind # "merge"
                 /\ Starts(s, "blurbEvidence", NewIngest(n, o), tx[s])
           /\ \A n \in Nodes : \A c \in {Weak, Strong} : Link(s, n, c) =>
                 /\ pc[s] \in {"idle", "done"} /\ job[s].kind # "merge"
                 /\ Starts(s, "linkEdge", NewLink(n, c), tx[s])
           /\ \A n, o \in Nodes : \A c \in {Weak, Strong} : Correlate(s, n, o, c) =>
                 /\ n # o /\ pc[s] \in {"idle", "done"} /\ job[s].kind # "merge"
                 /\ Starts(s, "correlation", NewSame(n, o, c), tx[s])
           /\ \A n, o \in Nodes : Merge(s, n, o) =>
                 /\ n # o /\ pc[s] = "idle"
                 /\ Starts(s, "mergeEdges", NewMerge(n, o),
                           Fetched(tx[s], o))
<1>1. tx = [tx EXCEPT ![s] = tx[s]] /\ tx \in [Sessions -> Tx]
  BY TypedFacts
<1>2. ASSUME NEW n \in Nodes, NEW o \in Contents, Ingest(s, n, o)
      PROVE  /\ pc[s] \in {"idle", "done"} /\ job[s].kind # "merge"
             /\ Starts(s, "blurbEvidence", NewIngest(n, o), tx[s])
  BY <1>1, <1>2 DEF Ingest, Start, Starts, Moves, Goto, NewIngest
<1>3. ASSUME NEW n \in Nodes, NEW c \in {Weak, Strong}, Link(s, n, c)
      PROVE  /\ pc[s] \in {"idle", "done"} /\ job[s].kind # "merge"
             /\ Starts(s, "linkEdge", NewLink(n, c), tx[s])
  BY <1>1, <1>3 DEF Link, Start, Starts, Moves, Goto, NewLink
<1>4. ASSUME NEW n \in Nodes, NEW o \in Nodes, NEW c \in {Weak, Strong}, Correlate(s, n, o, c)
      PROVE  /\ n # o /\ pc[s] \in {"idle", "done"} /\ job[s].kind # "merge"
             /\ Starts(s, "correlation", NewSame(n, o, c), tx[s])
  BY <1>1, <1>4 DEF Correlate, Start, Starts, Moves, Goto, NewSame
<1>5. ASSUME NEW n \in Nodes, NEW o \in Nodes, Merge(s, n, o)
      PROVE  /\ n # o /\ pc[s] = "idle"
             /\ Starts(s, "mergeEdges", NewMerge(n, o),
                       Fetched(tx[s], o))
  <2>1. tx' = [tx EXCEPT ![s].base = Loaded(o), ![s].mem = Loaded(o)]
    BY <1>5 DEF Merge, Loaded
  <2>2. tx' = [tx EXCEPT ![s] = Fetched(tx[s], o)]
    BY <1>1, <2>1 DEF Tx, Fetched
  <2> QED
    BY <1>5, <2>2 DEF Merge, Start, Starts, Moves, Goto, NewMerge
<1> QED
  BY <1>2, <1>3, <1>4, <1>5

\* What a merge has loaded.
LEMMA LoadedFacts ==
    ASSUME Typed, NEW s \in Sessions, NEW n \in Nodes, NEW o \in Nodes, n # o,
           pc[s] = "idle"
    PROVE  LET u == Fetched(tx[s], o) IN
           /\ u \in Tx /\ u.base = Loaded(o) /\ u.mem = Loaded(o)
           /\ u.dirty = {} /\ u.written = {} /\ u.deleted = {}
           /\ u.added = {} /\ u.moved = {} /\ u.placed = Nowhere
           /\ WellTyped("mergeEdges", NewMerge(n, o), u)
<1> DEFINE u == Fetched(tx[s], o)
<1>1. tx[s] = NoTx /\ tx[s] \in Tx /\ edges \in [Edges -> Confidence]
  BY TypedFacts DEF WellTyped, FitsAt
<1>2. Loaded(o) \in [Edges -> Confidence]
  BY <1>1, ConfidenceFacts DEF Loaded
<1>3. u \in Tx /\ u.base = Loaded(o) /\ u.mem = Loaded(o)
  BY <1>1, <1>2 DEF Tx, Fetched
<1>4. /\ u.dirty = {} /\ u.written = {} /\ u.deleted = {}
      /\ u.added = {} /\ u.moved = {} /\ u.placed = Nowhere
  BY <1>1 DEF NoTx, Fetched
<1>5. \A k \in EdgesAt(o) : k \in Edges /\ o \in {k[1], k[2]} /\ Loaded(o)[k] # 0
  <2> SUFFICES ASSUME NEW k \in EdgesAt(o)
               PROVE  k \in Edges /\ o \in {k[1], k[2]} /\ Loaded(o)[k] # 0
    OBVIOUS
  <2>1. k \in Edges /\ edges[k] > 0 /\ o \in {k[1], k[2]}
    BY DEF EdgesAt
  <2>2. edges[k] # 0
    BY <2>1
  <2> QED
    BY <2>1, <2>2 DEF Loaded
<1> DEFINE j == NewMerge(n, o)
<1>6. /\ j \in Job /\ j.kind = "merge" /\ j.node = n /\ j.other = o /\ j.rels = EdgesAt(o)
  BY NewMergeFacts
<1> HIDE DEF u, j
<1>7. WellTyped("mergeEdges", j, u)
  BY <1>3, <1>4, <1>5, <1>6 DEF WellTyped, FitsAt, Phases, Ingesting, Merging
<1> QED
  BY <1>3, <1>4, <1>7 DEF u, j

LEMMA StartTyped ==
    ASSUME Typed, NEW s \in Sessions,
           \/ \E n \in Nodes : \/ \E o \in Contents : Ingest(s, n, o)
                               \/ \E c \in {Weak, Strong} : Link(s, n, c)
           \/ \E n, o \in Nodes : \/ \E c \in {Weak, Strong} : Correlate(s, n, o, c)
                                  \/ Merge(s, n, o)
    PROVE  Typed'
<1>0. /\ tx[s] \in Tx /\ \A k \in tx[s].dirty : tx[s].mem[k] > 0
      /\ units \in 0..MaxUnits /\ MaxUnits \in Nat /\ overlapped \in BOOLEAN
      /\ faults \in 0..MaxFaults
  BY TypedFacts, GraphAssumption DEF WellTyped, Typed, TypeOK
<1>1. ASSUME NEW p, NEW j, NEW u, Starts(s, p, j, u), WellTyped(p, j, u)
      PROVE  Typed'
  <2>1. units' \in 0..MaxUnits /\ overlapped' \in BOOLEAN /\ faults' \in 0..MaxFaults
    BY <1>0, <1>1 DEF Starts
  <2>2. /\ edges' = edges /\ evidence' = evidence /\ container' = container
        /\ nextMsg' = nextMsg /\ held' = held /\ Moves(s, p, j, u)
    BY <1>1 DEF Starts, tables
  <2> QED
    BY <1>1, <2>1, <2>2, MovesTyped, TypedFacts
<1>2. ASSUME NEW n \in Nodes, NEW o \in Contents, Ingest(s, n, o)
      PROVE  Typed'
  <2> DEFINE j == NewIngest(n, o)
  <2>1. /\ j \in Job /\ j.kind = "ingest" /\ j.node = n /\ j.other = None
        /\ j.seen = o /\ j.msg = 0 /\ j.rels = {}
    BY NewIngestFacts
  <2> HIDE DEF j
  <2>2. WellTyped("blurbEvidence", j, tx[s])
    BY <1>0, <2>1, GraphAssumption DEF WellTyped, FitsAt, Phases, Ingesting, Merging
  <2> QED
    BY <1>1, <1>2, <2>2, StartSteps DEF j
<1>3. ASSUME NEW n \in Nodes, NEW c \in {Weak, Strong}, Link(s, n, c)
      PROVE  Typed'
  <2> DEFINE j == NewLink(n, c)
  <2>1. /\ j \in Job /\ j.kind = "link" /\ j.node = n /\ j.other = None
        /\ j.conf = c /\ j.msg = 0 /\ j.rels = {}
    BY NewLinkFacts
  <2> HIDE DEF j
  <2>2. WellTyped("linkEdge", j, tx[s])
    BY <1>0, <2>1, GraphAssumption DEF WellTyped, FitsAt, Phases, Ingesting, Merging
  <2> QED
    BY <1>1, <1>3, <2>2, StartSteps DEF j
<1>4. ASSUME NEW n \in Nodes, NEW o \in Nodes, NEW c \in {Weak, Strong}, Correlate(s, n, o, c)
      PROVE  Typed'
  <2> DEFINE j == NewSame(n, o, c)
  <2>0. n # o
    BY <1>4, StartSteps
  <2>1. /\ j \in Job /\ j.kind = "same" /\ j.node = n /\ j.other = o
        /\ j.conf = c /\ j.msg = 0 /\ j.rels = {}
    BY NewSameFacts
  <2> HIDE DEF j
  <2>2. WellTyped("correlation", j, tx[s])
    BY <1>0, <2>0, <2>1 DEF WellTyped, FitsAt, Phases, Ingesting, Merging
  <2> QED
    BY <1>1, <1>4, <2>2, StartSteps DEF j
<1>5. ASSUME NEW n \in Nodes, NEW o \in Nodes, Merge(s, n, o)
      PROVE  Typed'
  <2>1. n # o /\ pc[s] = "idle"
    BY <1>5, StartSteps
  <2>2. WellTyped("mergeEdges", NewMerge(n, o),
                  Fetched(tx[s], o))
    BY <2>1, LoadedFacts
  <2> QED
    BY <1>1, <1>5, <2>2, StartSteps
<1> QED
  BY <1>2, <1>3, <1>4, <1>5

\* The end of a unit of work.
LEMMA CloseSteps ==
    ASSUME Typed, NEW s \in Sessions, Close(s)
    PROVE  /\ Moves(s, "idle", NoJob, NoTx)
           /\ UNCHANGED <<nextMsg, units, faults, overlapped>>
BY DEF Close, Moves, Goto

LEMMA NoTxFacts ==
    /\ NoTx \in Tx /\ NoTx.base = NoEdges /\ NoTx.mem = NoEdges
    /\ NoTx.dirty = {} /\ NoTx.written = {} /\ NoTx.deleted = {}
    /\ NoTx.added = {} /\ NoTx.moved = {} /\ NoTx.placed = Nowhere
    /\ WellTyped("idle", NoJob, NoTx)
<1>1. NoEdges \in [Edges -> Confidence] /\ Nowhere \in [Msgs -> Nodes \cup {None}]
  BY ConfidenceFacts DEF NoEdges, Nowhere
<1>2. /\ NoTx \in Tx /\ NoTx.base = NoEdges /\ NoTx.mem = NoEdges
      /\ NoTx.dirty = {} /\ NoTx.written = {} /\ NoTx.deleted = {}
      /\ NoTx.added = {} /\ NoTx.moved = {} /\ NoTx.placed = Nowhere
  BY <1>1 DEF NoTx, Tx
<1>3. FitsAt("idle", NoJob, NoTx)
  BY DEF FitsAt, Ingesting, Merging, NoJob
<1> QED
  BY <1>2, <1>3, NoJobFacts DEF WellTyped, Phases

LEMMA StatementTyped ==
    ASSUME Typed, NEW s \in Sessions, Statement(s)
    PROVE  Typed'
<1>1. StepTyped(s)
  BY SimpleTyped, MessageTyped, RestTyped, MergeEdgeTyped DEF Statement
<1>2. PICK p, j, u : Moves(s, p, j, u) /\ WellTyped(p, j, u)
  BY <1>1 DEF StepTyped
<1>3. /\ edges' = edges /\ evidence' = evidence /\ container' = container
      /\ units' = units /\ faults' = faults /\ overlapped' = overlapped
      /\ nextMsg' \in 0..MaxMsgs
  BY <1>1 DEF Statement, StepTyped, tables
<1>4. held' \in [Sessions -> SUBSET About]
  <2>1. MergeRows(s) \/ held' = held
    BY DEF Statement
  <2> QED
    BY <2>1, MergeRowsSteps, TypedFacts
<1> QED
  BY <1>2, <1>3, <1>4, MovesTyped, TypedFacts DEF Typed, TypeOK

LEMMA RaiseTyped ==
    ASSUME Typed, NEW s \in Sessions, Raise(s)
    PROVE  Typed'
<1> DEFINE p == OnRaise(pc[s])
<1>0. WellTyped(pc[s], job[s], tx[s]) /\ FitsAt(pc[s], job[s], tx[s])
  BY TypedFacts DEF WellTyped
<1>1. pc[s] \notin {"idle", "done", "failed"} /\ Moves(s, p, job[s], tx[s])
  BY TypedFacts DEF Raise, Moves, Goto
<1>2. p \in {"draft", "containerEdge", "done", "failed"}
  BY DEF OnRaise
<1>3. FitsAt(p, job[s], tx[s])
  <2>1. CASE pc[s] \in {"message", "matchEvidence", "matchEdge"}
    BY <1>0, <2>1 DEF OnRaise, FitsAt, Ingesting, Merging
  <2>2. CASE pc[s] = "draft"
    BY <1>0, <2>2 DEF OnRaise, FitsAt, Ingesting, Merging
  <2>3. CASE pc[s] = "containerEdge"
    BY <1>0, <2>3 DEF OnRaise, FitsAt, Ingesting, Merging
  <2>4. CASE pc[s] \notin {"message", "matchEvidence", "matchEdge", "draft", "containerEdge"}
    <3>1. p = "failed"
      BY <2>4 DEF OnRaise
    <3> QED
      BY <1>0, <1>1, <3>1 DEF FitsAt, Ingesting, Merging
  <2> QED
    BY <2>1, <2>2, <2>3, <2>4
<1>4. WellTyped(p, job[s], tx[s])
  BY <1>1, <1>2, <1>3, AdvanceTyped DEF Phases
<1>5. /\ edges' = edges /\ evidence' = evidence /\ container' = container
      /\ nextMsg' = nextMsg /\ units' = units /\ overlapped' = overlapped /\ held' = held
      /\ faults < MaxFaults /\ faults' = faults + 1
  BY DEF Raise, tables
<1>6. faults' \in 0..MaxFaults
  BY <1>5, GraphAssumption DEF Typed, TypeOK
<1> HIDE DEF p
<1> QED
  BY <1>1, <1>4, <1>5, <1>6, MovesTyped, TypedFacts DEF Typed, TypeOK

\* What a commit stores.
LEMMA StoredFacts ==
    ASSUME edges \in [Edges -> Confidence], NEW t \in Tx, NEW k \in Edges
    PROVE  Stored(t, k) \in Confidence
BY ConfidenceFacts DEF Stored, Tx

LEMMA CommitTyped ==
    ASSUME Typed, NEW s \in Sessions, Commit(s)
    PROVE  Typed'
<1>1. Moves(s, "idle", NoJob, NoTx) /\ UNCHANGED <<nextMsg, units, faults, overlapped>>
  BY CloseSteps DEF Commit
<1>2. tx[s] \in Tx
  BY TypedFacts
<1>3. edges' \in [Edges -> Confidence]
  BY <1>2, TypedFacts, StoredFacts DEF Commit
<1>4. evidence' \subseteq Evidence
  BY <1>2, TypedFacts DEF Commit, Tx
<1>5. container' \in [Msgs -> Nodes \cup {None}]
  BY <1>2, TypedFacts DEF Commit, Tx
<1>6. held' \in [Sessions -> SUBSET About]
  <2>1. pc[s] = "done" /\ WellTyped(pc[s], job[s], tx[s])
    BY TypedFacts DEF Commit
  <2>2. job[s].node \in Nodes
    BY <2>1 DEF WellTyped, FitsAt
  <2>3. ASSUME NEW q \in Sessions
        PROVE  Followed(s, held[q]) \subseteq About
    <3>1. held[q] \subseteq About
      BY TypedFacts
    <3> QED
      BY <2>2, <3>1, AboutFacts DEF Followed, MovedTo
  <2> QED
    BY <2>3 DEF Commit
<1> QED
  BY <1>1, <1>3, <1>4, <1>5, <1>6, NoTxFacts, MovesTyped, TypedFacts DEF Typed, TypeOK

LEMMA RollbackTyped ==
    ASSUME Typed, NEW s \in Sessions, Rollback(s)
    PROVE  Typed'
<1>1. /\ Moves(s, "idle", NoJob, NoTx) /\ UNCHANGED <<nextMsg, units, faults, overlapped>>
      /\ UNCHANGED tables
  BY CloseSteps DEF Rollback
<1>2. held' \in [Sessions -> SUBSET About]
  BY TypedFacts DEF Rollback
<1> QED
  BY <1>1, <1>2, NoTxFacts, MovesTyped, TypedFacts DEF Typed, TypeOK, tables

LEMMA InitTyped == Init => Typed
<1> SUFFICES ASSUME Init PROVE Typed
  OBVIOUS
<1>1. \A s \in Sessions : WellTyped(pc[s], job[s], tx[s])
  BY NoTxFacts DEF Init
<1>2. NoEdges \in [Edges -> Confidence] /\ Nowhere \in [Msgs -> Nodes \cup {None}]
  BY ConfidenceFacts DEF NoEdges, Nowhere
<1>3. TypeOK
  <2>1. 0 \in 0..MaxMsgs /\ 0 \in 0..MaxUnits /\ 0 \in 0..MaxFaults
    BY GraphAssumption
  <2>2. pc \in [Sessions -> Phases]
    BY DEF Init, Phases
  <2>3. \A s \in Sessions : /\ job[s] \in Job /\ tx[s] \in Tx /\ pc[s] = "idle"
                            /\ \A k \in tx[s].dirty : tx[s].mem[k] > 0
    BY <1>1, NoTxFacts DEF WellTyped, Init
  <2> QED
    BY <1>2, <2>1, <2>2, <2>3 DEF Init, TypeOK
<1>4. JobsFit
  BY <1>1, NoTxFacts, NoJobFacts DEF Init, JobsFit, WellTyped
<1> QED
  BY <1>3, <1>4 DEF Typed

LEMMA NextTyped == Typed /\ [Next]_vars => Typed'
<1> SUFFICES ASSUME Typed, [Next]_vars PROVE Typed'
  OBVIOUS
<1>1. CASE UNCHANGED vars
  BY <1>1 DEF Typed, TypeOK, JobsFit, vars, tables
<1>2. CASE Next
  BY <1>2, StartTyped, StatementTyped, RaiseTyped, CommitTyped, RollbackTyped DEF Next
<1> QED
  BY <1>1, <1>2

(* Types, with what is true at each place of a unit of work: a merge still *)
(* has both nodes and has loaded every edge it has yet to repoint, a match *)
(* has its message's row (merge_entities, ingest, link, correlate).        *)
THEOREM GraphTyped == Spec => []TypeOK
<1>1. Spec => []Typed
  BY InitTyped, NextTyped, PTL DEF Spec
<1>2. Typed => TypeOK
  BY DEF Typed
<1> QED
  BY <1>1, <1>2, PTL
-----------------------------------------------------------------------------
(* Evidence                                                                *)

LEMMA Distinct ==
    /\ Target \notin Nodes /\ Ioc \notin Nodes /\ None \notin Nodes
    /\ \A m \in Msgs : m \notin Nodes /\ m # Target /\ m # Ioc /\ m # None
<1>1. Msgs \subseteq Nat
  BY DEF Msgs
<1> QED
  BY <1>1, GraphAssumption

LEMMA BackedMore ==
    ASSUME NEW k, NEW E, NEW F, Backed(k, E),
           \A e \in E : e[1] \notin Nodes => e \in F
    PROVE  Backed(k, F)
BY Distinct DEF Backed

\* A statement of s that stores nothing keeps the invariant if it keeps ClaimsAt.
LEMMA MovesClaims ==
    ASSUME Typed, ClaimsInv, NEW s \in Sessions, NEW p, NEW j, NEW u,
           Moves(s, p, j, u), evidence' = evidence, edges' = edges, ClaimsAt(s, p, j, u)
    PROVE  ClaimsInv'
<1>1. /\ pc'[s] = p /\ job'[s] = j /\ tx'[s] = u
      /\ \A q \in Sessions : q # s => pc'[q] = pc[q] /\ job'[q] = job[q] /\ tx'[q] = tx[q]
  BY TypedFacts DEF Moves
<1>2. ClaimsBacked'
  BY DEF ClaimsInv, ClaimsBacked
<1>3. ClaimsAt(s, pc[s], job[s], tx[s])'
  BY <1>1 DEF ClaimsAt, Others
<1>4. ASSUME NEW q \in Sessions, q # s
      PROVE  ClaimsAt(q, pc[q], job[q], tx[q])'
  <2>1. ClaimsAt(q, pc[q], job[q], tx[q]) /\ s \in Others(q) /\ q \in Others(s)
    BY <1>4 DEF ClaimsInv, Others
  <2>2. tx[q].added \cap u.added = {}
    BY <2>1 DEF ClaimsAt
  <2>3. \A r \in Others(q) : tx'[q].added \cap tx'[r].added = {}
    BY <1>1, <1>4, <2>1, <2>2 DEF ClaimsAt, Others
  <2>4. pc'[q] = pc[q] /\ job'[q] = job[q] /\ tx'[q] = tx[q]
    BY <1>1, <1>4
  <2>5. \A r \in Others(q) : tx'[q].added \cap tx'[r].added = {}
    BY <2>3
  <2> HIDE DEF Others
  <2> QED
    BY <2>1, <2>4, <2>5 DEF ClaimsAt, Others
<1> QED
  BY <1>2, <1>3, <1>4 DEF ClaimsInv

\* Until its commit a session has moved no evidence.
LEMMA NothingMoved ==
    ASSUME ClaimsInv, NEW s \in Sessions, job[s].kind # "merge" \/ pc[s] # "done"
    PROVE  tx[s].moved = {}
BY DEF ClaimsInv, ClaimsAt

\* Going on without new edges or evidence.
LEMMA KeepsClaims ==
    ASSUME ClaimsInv, NEW s \in Sessions, tx[s].moved = {}, pc[s] # "failed",
           NEW p, p \notin {"blurbEdge", "matchEdge"}, p = "failed" \/ pc[s] # "linkEvidence",
           NEW j, NEW u, u.added = tx[s].added, u.moved = {},
           \A k \in Edges : u.mem[k] > 0 => tx[s].mem[k] > 0
    PROVE  ClaimsAt(s, p, j, u)
BY DEF ClaimsInv, ClaimsAt

\* Observing an edge that is backed, or a target's before its evidence.
LEMMA ObserveClaims ==
    ASSUME Typed, ClaimsInv, NEW s \in Sessions, NEW k \in Edges, NEW c \in Confidence \ {0},
           NEW p, Observe(s, k, c, p), evidence' = evidence, edges' = edges,
           pc[s] \notin {"failed", "done", "linkEvidence"}, p \notin {"blurbEdge", "matchEdge"},
           Backed(k, evidence \cup tx[s].added) \/ (p = "linkEvidence" /\ k[1] = Target)
    PROVE  ClaimsInv'
<1> DEFINE t == tx[s]
           u == Observed(t, k, c)
<1>1. t.moved = {} /\ t \in Tx /\ edges \in [Edges -> Confidence]
  BY NothingMoved, TypedFacts
<1>2. ClaimsAt(s, "failed", job[s], t)
  BY <1>1, KeepsClaims
<1>3. /\ u.added = t.added /\ u.moved = t.moved
      /\ \A l \in Edges : l # k => u.mem[l] = t.mem[l]
  BY <1>1, ObservedFacts
<1>4. ClaimsAt(s, p, job[s], u)
  <2> HIDE DEF u
  <2>1. ClaimsAt(s, pc[s], job[s], t)
    BY DEF ClaimsInv
  <2>2. \A l \in Edges : u.mem[l] > 0 => \/ Backed(l, evidence \cup u.added)
                                         \/ p = "linkEvidence" /\ l[1] = Target
    BY <1>3, <2>1 DEF ClaimsAt
  <2> QED
    BY <1>1, <1>3, <2>1, <2>2 DEF ClaimsAt
<1>5. Moves(s, "failed", job[s], t) \/ Moves(s, p, job[s], u)
  BY ObserveSteps
<1> QED
  BY <1>2, <1>4, <1>5, MovesClaims

\* Recording evidence, of a target where an edge of it waits for that.
LEMMA RecordClaims ==
    ASSUME Typed, ClaimsInv, NEW s \in Sessions, NEW e \in Evidence, NEW p,
           Record(s, e, p), evidence' = evidence, edges' = edges,
           pc[s] \notin {"failed", "done"}, p # "failed",
           pc[s] = "linkEvidence" => \E n \in Nodes : e = <<Target, n>>,
           p = "blurbEdge" => e = <<Ioc, "blurb">>,
           p = "matchEdge" => e = <<Ioc, "message">>
    PROVE  ClaimsInv'
<1> DEFINE t == tx[s]
           u == Recorded(t, e)
<1>1. /\ t.moved = {} /\ t \in Tx /\ evidence \ t.moved = evidence
      /\ ClaimsAt(s, pc[s], job[s], t)
  BY NothingMoved, TypedFacts DEF ClaimsInv
<1>2. ClaimsAt(s, "failed", job[s], t)
  BY <1>1, KeepsClaims
<1>3. u.added = t.added \cup {e} /\ u.moved = t.moved /\ u.mem = t.mem
  <2>1. t \in Tx
    BY <1>1
  <2> HIDE DEF t
  <2> QED
    BY <2>1, RecordedFacts
<1>4. ASSUME NEW E, evidence \cup t.added \subseteq E, e \in E, NEW k \in Edges, t.mem[k] > 0
      PROVE  Backed(k, E)
  <2>1. Backed(k, evidence \cup t.added) \/ (pc[s] = "linkEvidence" /\ k[1] = Target)
    BY <1>1, <1>4 DEF ClaimsAt
  <2>2. CASE Backed(k, evidence \cup t.added)
    BY <1>4, <2>2, BackedMore
  <2>3. CASE pc[s] = "linkEvidence" /\ k[1] = Target
    <3>1. k[2] \in Nodes
      BY <2>3, EdgeKinds, Distinct
    <3> QED
      BY <1>4, <2>3, <3>1, Distinct DEF Backed
  <2> QED
    BY <2>1, <2>2, <2>3
<1>5. CASE Moves(s, "failed", job[s], t)
  BY <1>2, <1>5, MovesClaims
<1>6. CASE Moves(s, p, job[s], t) /\ e \in evidence \cup t.added
  <2>1. ClaimsAt(s, p, job[s], t)
    BY <1>1, <1>4, <1>6 DEF ClaimsAt
  <2> QED
    BY <1>6, <2>1, MovesClaims
<1>7. CASE /\ Moves(s, p, job[s], u) /\ e \notin evidence
           /\ \A q \in Others(s) : e \notin tx[q].added
  <2> HIDE DEF u
  <2>1. \A k \in Edges : u.mem[k] > 0 => Backed(k, evidence \cup u.added)
    BY <1>3, <1>4
  <2>2. u.added \cap evidence = {} /\ \A q \in Others(s) : u.added \cap tx[q].added = {}
    BY <1>1, <1>3, <1>7 DEF ClaimsAt
  <2>3. ClaimsAt(s, p, job[s], u)
    BY <1>1, <1>3, <2>1, <2>2 DEF ClaimsAt
  <2> QED
    BY <1>7, <2>3, MovesClaims
<1>8. \/ Moves(s, "failed", job[s], t)
      \/ Moves(s, p, job[s], t) /\ e \in evidence \cup t.added
      \/ /\ Moves(s, p, job[s], u) /\ e \notin evidence
         /\ \A q \in Others(s) : e \notin tx[q].added
  BY <1>1, RecordSteps
<1> QED
  BY <1>5, <1>6, <1>7, <1>8

\* The steps of a merge.
LEMMA MergeEdgeClaims ==
    ASSUME Typed, ClaimsInv, NEW s \in Sessions, NEW k \in Edges, MergeEdge(s, k),
           evidence' = evidence, edges' = edges
    PROVE  ClaimsInv'
<1> DEFINE t == tx[s]
           i == Image(s, k)
           j == [job[s] EXCEPT !.rels = @ \ {k}]
           g == Gone(t, k)
           c == t.base[k]
           u == Observed(g, i, c)
           E == evidence \cup t.added
<1>1. /\ pc[s] = "mergeEdges" /\ k \in job[s].rels
      /\ \/ Moves(s, "failed", job[s], t)
         \/ i[1] = i[2] /\ Moves(s, "mergeEdges", j, g)
         \/ i[1] # i[2] /\ Moves(s, "mergeEdges", j, u)
  BY MergeEdgeSteps
<1>2. /\ t \in Tx /\ edges \in [Edges -> Confidence] /\ ClaimsAt(s, pc[s], job[s], t)
      /\ FitsAt(pc[s], job[s], t) /\ t.moved = {} /\ job[s].node # job[s].other
  BY <1>1, TypedFacts, NothingMoved DEF WellTyped, ClaimsInv
<1>3. /\ job[s].node \in Nodes /\ job[s].other \in Nodes
      /\ c \in Confidence \ {0} /\ t.mem[k] # 0 /\ t.mem[k] \in Confidence
  BY <1>1, <1>2 DEF FitsAt, Merging, Tx
<1>4. /\ g \in Tx /\ g.added = t.added /\ g.moved = {}
      /\ g.mem[k] = 0 /\ \A l \in Edges : l # k => g.mem[l] = t.mem[l]
  BY <1>2, GoneFacts
<1>5. \A l \in Edges : g.mem[l] > 0 => t.mem[l] > 0
  BY <1>4
<1>6. ClaimsAt(s, "failed", job[s], t) /\ ClaimsAt(s, "mergeEdges", j, g)
  <2> HIDE DEF g, j
  <2> QED
    BY <1>1, <1>2, <1>4, <1>5, KeepsClaims
<1>7. Backed(k, E)
  <2>1. t.mem[k] > 0
    BY <1>3, ConfidenceFacts
  <2> QED
    BY <1>1, <1>2, <2>1 DEF ClaimsAt
<1>8. ASSUME i[1] # i[2]
      PROVE  ClaimsAt(s, "mergeEdges", j, u)
  <2>1. /\ i \in Edges /\ (k[1] = Target <=> i[1] = Target)
        /\ (k[2] = Ioc <=> i[2] = Ioc) /\ (k[1] \in Nodes <=> i[1] \in Nodes)
    BY <1>2, <1>3, <1>8, ImageFacts
  <2>2. Backed(i, E)
    BY <1>7, <2>1 DEF Backed
  <2> HIDE DEF g, i, c, E, j
  <2>3. /\ u.added = g.added /\ u.moved = g.moved
        /\ \A l \in Edges : l # i => u.mem[l] = g.mem[l]
    <3>1. edges \in [Edges -> Confidence] /\ g \in Tx /\ i \in Edges /\ c \in Confidence \ {0}
      BY <1>2, <1>3, <1>4, <2>1
    <3> QED
      BY <3>1, ObservedFacts
  <2> HIDE DEF u
  <2>4. \A l \in Edges : u.mem[l] > 0 => Backed(l, evidence \cup u.added)
    <3> SUFFICES ASSUME NEW l \in Edges, u.mem[l] > 0
                 PROVE  Backed(l, evidence \cup u.added)
      OBVIOUS
    <3>1. CASE l = i
      BY <1>4, <2>2, <2>3, <3>1 DEF E
    <3>2. CASE l # i
      <4>1. t.mem[l] > 0
        BY <1>5, <2>3, <3>2
      <4> QED
        BY <1>1, <1>2, <1>4, <2>3, <4>1 DEF ClaimsAt
    <3> QED
      BY <3>1, <3>2
  <2> QED
    BY <1>2, <1>4, <2>3, <2>4 DEF ClaimsAt
<1> HIDE DEF g, u, j, t
<1> QED
  BY <1>1, <1>6, <1>8, MovesClaims DEF t

LEMMA MergeMessagesClaims ==
    ASSUME Typed, ClaimsInv, NEW s \in Sessions, MergeMessages(s),
           evidence' = evidence, edges' = edges
    PROVE  ClaimsInv'
<1> DEFINE v == [tx[s] EXCEPT !.placed = [m \in Msgs |-> IF m \in Posted(s, job[s].other)
                                             THEN job[s].node ELSE tx[s].placed[m]]]
<1>1. /\ pc[s] = "mergeMessages"
      /\ \/ Moves(s, "failed", job[s], tx[s])
         \/ Moves(s, "mergeRows", job[s], tx[s])
         \/ Moves(s, "mergeRows", job[s], v)
  BY MergeMessagesSteps
<1>2. tx[s] \in Tx /\ tx[s].moved = {}
  BY <1>1, TypedFacts, NothingMoved
<1>3. v.mem = tx[s].mem /\ v.added = tx[s].added /\ v.moved = {}
  BY <1>2 DEF Tx
<1> HIDE DEF v
<1>4. /\ ClaimsAt(s, "failed", job[s], tx[s]) /\ ClaimsAt(s, "mergeRows", job[s], tx[s])
      /\ ClaimsAt(s, "mergeRows", job[s], v)
  BY <1>1, <1>2, <1>3, KeepsClaims
<1> QED
  BY <1>1, <1>4, MovesClaims

\* The new keys of the rows a merge repoints are nobody's.
LEMMA KeysAreNew ==
    ASSUME HeldInv, NEW s \in Sessions,
           \A e \in held[s] : MovedTo(s, e) \in evidence => MovedTo(s, e) \in held[s]
    PROVE  Keys(s) \cap evidence = {}
<1>1. HeldAt(pc[s], job[s], tx[s], held[s])
  BY DEF HeldInv
<1> SUFFICES ASSUME NEW e \in Away(s), MovedTo(s, e) \in evidence PROVE FALSE
  BY DEF Keys
<1>2. e \in held[s] /\ e[1] # job[s].node /\ MovedTo(s, e) \in held[s]
  BY DEF Away
<1>3. MovedTo(s, e)[1] = job[s].node /\ MovedTo(s, e)[2] = e[2]
  BY DEF MovedTo
<1> QED
  BY <1>1, <1>2, <1>3 DEF HeldAt

LEMMA MergeEvidenceClaims ==
    ASSUME Typed, ClaimsInv, HeldInv, NEW s \in Sessions, MergeEvidence(s),
           evidence' = evidence, edges' = edges
    PROVE  ClaimsInv'
<1> DEFINE t == tx[s]
           u == MovedOn(s)
<1>1. /\ pc[s] = "mergeEvidence"
      /\ \/ Moves(s, "failed", job[s], t)
         \/ /\ Keys(s) \cap evidence = {}
            /\ \A q \in Others(s) : Keys(s) \cap tx[q].added = {}
            /\ Moves(s, "done", job[s], u)
  BY MergeEvidenceSteps, KeysAreNew
<1>2. /\ t \in Tx /\ t.moved = {} /\ FitsAt(pc[s], job[s], t)
      /\ ClaimsAt(s, pc[s], job[s], t)
  BY <1>1, TypedFacts, NothingMoved DEF WellTyped, ClaimsInv
<1>3. job[s].kind = "merge" /\ job[s].node \in Nodes
  BY <1>1, <1>2 DEF FitsAt, Merging
<1>4. /\ u.mem = t.mem /\ u.added = t.added \cup Keys(s) /\ u.moved = Away(s)
      /\ Away(s) \subseteq About
  BY <1>3, MovedFacts
<1>5. \A e \in Away(s) : e[1] \in Nodes /\ <<job[s].node, e[2]>> \in Keys(s)
  BY <1>4, AboutFacts DEF Keys, MovedTo
<1>6. ClaimsAt(s, "failed", job[s], t)
  BY <1>1, <1>2, KeepsClaims
<1>7. ASSUME Keys(s) \cap evidence = {}, \A q \in Others(s) : Keys(s) \cap tx[q].added = {}
      PROVE  ClaimsAt(s, "done", job[s], u)
  <2> HIDE DEF u
  <2>1. /\ u.added \cap evidence = {}
        /\ \A q \in Others(s) : u.added \cap tx[q].added = {}
    BY <1>2, <1>4, <1>7 DEF ClaimsAt
  <2>2. \A l \in Edges : u.mem[l] > 0 => Backed(l, evidence \cup u.added)
    <3> SUFFICES ASSUME NEW l \in Edges, u.mem[l] > 0
                 PROVE  Backed(l, evidence \cup u.added)
      OBVIOUS
    <3>1. Backed(l, evidence \cup t.added)
      BY <1>1, <1>2, <1>4 DEF ClaimsAt
    <3> QED
      BY <1>4, <3>1, BackedMore
  <2> QED
    BY <1>3, <1>4, <1>5, <2>1, <2>2 DEF ClaimsAt
<1> HIDE DEF u
<1> QED
  BY <1>1, <1>6, <1>7, MovesClaims

LEMMA StatementClaims ==
    ASSUME Typed, ClaimsInv, HeldInv, NEW s \in Sessions, Statement(s)
    PROVE  ClaimsInv'
<1>0. /\ WellTyped(pc[s], job[s], tx[s]) /\ FitsAt(pc[s], job[s], tx[s])
      /\ job[s] \in Job /\ tx[s] \in Tx /\ ClaimsAt(s, pc[s], job[s], tx[s])
      /\ pc[s] # "idle" => job[s].node \in Nodes /\ job[s].node # job[s].other
      /\ evidence' = evidence /\ edges' = edges
  BY TypedFacts DEF WellTyped, FitsAt, ClaimsInv, Statement, tables
<1>1. CASE BlurbEvidence(s)
  BY <1>0, <1>1, EdgeFacts, RecordClaims DEF BlurbEvidence
<1>2. CASE BlurbEdge(s)
  <2>1. pc[s] = "blurbEdge" /\ <<job[s].node, Ioc>> \in Edges /\ Weak \in Confidence \ {0}
    BY <1>0, <1>2, EdgeFacts DEF BlurbEdge
  <2>2. Backed(<<job[s].node, Ioc>>, evidence \cup tx[s].added)
    BY <1>0, <2>1, Distinct DEF Backed, ClaimsAt
  <2> QED
    BY <1>0, <1>2, <2>1, <2>2, ObserveClaims DEF BlurbEdge
<1>3. CASE Message(s)
  <2> DEFINE v == Placed(tx[s], nextMsg + 1, job[s].node)
  <2>1. pc[s] = "message" /\ job[s].node \in Nodes /\ tx[s].moved = {}
    BY <1>0, <1>3, MessageSteps, NothingMoved
  <2>2. nextMsg < MaxMsgs => v.mem = tx[s].mem /\ v.added = tx[s].added /\ v.moved = tx[s].moved
    <3>1. nextMsg < MaxMsgs => nextMsg + 1 \in Msgs
      BY TypedFacts DEF Msgs
    <3> QED
      BY <1>0, <2>1, <3>1, PlacedFacts
  <2> HIDE DEF v
  <2>3. \A j : /\ ClaimsAt(s, "failed", j, tx[s]) /\ ClaimsAt(s, "scan", j, tx[s])
               /\ nextMsg < MaxMsgs => ClaimsAt(s, "scan", j, v)
    BY <2>1, <2>2, KeepsClaims
  <2>4. \/ Moves(s, "failed", job[s], tx[s])
        \/ \E j : Moves(s, "scan", j, tx[s]) \/ (nextMsg < MaxMsgs /\ Moves(s, "scan", j, v))
    BY <1>3, MessageSteps DEF v
  <2> QED
    BY <1>0, <2>3, <2>4, MovesClaims
<1>4. CASE Scan(s)
  <2>1. pc[s] = "scan" /\ tx[s].moved = {} /\ Moves(s, "matchEvidence", job[s], tx[s])
    BY <1>4, TypedFacts, NothingMoved DEF Scan, Moves, Goto
  <2>2. ClaimsAt(s, "matchEvidence", job[s], tx[s])
    BY <2>1, KeepsClaims
  <2> QED
    BY <1>0, <2>1, <2>2, MovesClaims
<1>5. CASE MatchEvidence(s)
  BY <1>0, <1>5, EdgeFacts, RecordClaims DEF MatchEvidence
<1>6. CASE MatchEdge(s)
  <2>1. /\ pc[s] = "matchEdge" /\ job[s].msg \in Msgs
        /\ <<job[s].msg, Ioc>> \in Edges /\ Weak \in Confidence \ {0}
    BY <1>0, <1>6, EdgeFacts DEF MatchEdge, FitsAt
  <2>2. Backed(<<job[s].msg, Ioc>>, evidence \cup tx[s].added)
    BY <1>0, <2>1, Distinct DEF Backed, ClaimsAt
  <2> QED
    BY <1>0, <1>6, <2>1, <2>2, ObserveClaims DEF MatchEdge
<1>7. CASE Draft(s)
  <2>1. pc[s] = "draft" /\ <<job[s].node, job[s].seen>> \in Evidence
    BY <1>0, <1>7, EdgeFacts DEF Draft, FitsAt, Ingesting
  <2> QED
    BY <1>0, <1>7, <2>1, RecordClaims DEF Draft
<1>8. CASE ContainerEdge(s)
  <2>1. pc[s] = "containerEdge" /\ tx[s].moved = {}
    BY <1>8, NothingMoved DEF ContainerEdge
  <2>2. CASE job[s].msg = 0
    <3>1. Moves(s, "done", job[s], tx[s])
      BY <1>8, <2>2, TypedFacts DEF ContainerEdge, Moves, Goto
    <3>2. ClaimsAt(s, "done", job[s], tx[s])
      BY <2>1, KeepsClaims
    <3> QED
      BY <1>0, <3>1, <3>2, MovesClaims
  <2>3. CASE job[s].msg # 0
    <3>1. job[s].msg \in Msgs
      BY <1>0, <2>3, TypedFacts DEF Job, Msgs
    <3>2. <<job[s].msg, job[s].node>> \in Edges /\ Strong \in Confidence \ {0}
      BY <1>0, <2>1, <3>1, EdgeFacts
    <3>3. Backed(<<job[s].msg, job[s].node>>, evidence \cup tx[s].added)
      BY <1>0, <2>1, <3>1, Distinct DEF Backed
    <3>4. Observe(s, <<job[s].msg, job[s].node>>, Strong, "done")
      BY <1>8, <2>3 DEF ContainerEdge
    <3> QED
      BY <1>0, <2>1, <3>2, <3>3, <3>4, ObserveClaims
  <2> QED
    BY <2>2, <2>3
<1>9. CASE LinkEdge(s)
  <2>1. /\ pc[s] = "linkEdge" /\ job[s].conf \in Confidence \ {0}
        /\ <<Target, job[s].node>> \in Edges
    BY <1>0, <1>9, EdgeFacts DEF LinkEdge, FitsAt
  <2> QED
    BY <1>0, <1>9, <2>1, ObserveClaims DEF LinkEdge
<1>10. CASE LinkEvidence(s)
  <2>1. /\ pc[s] = "linkEvidence" /\ job[s].node \in Nodes
        /\ <<Target, job[s].node>> \in Evidence
    BY <1>0, <1>10, EdgeFacts DEF LinkEvidence
  <2> QED
    BY <1>0, <1>10, <2>1, RecordClaims DEF LinkEvidence
<1>11. CASE Correlation(s)
  <2>1. pc[s] = "correlation" /\ <<job[s].node, "correlation">> \in Evidence
    BY <1>0, <1>11, EdgeFacts DEF Correlation
  <2> QED
    BY <1>0, <1>11, <2>1, RecordClaims DEF Correlation
<1>12. CASE SameEdge(s)
  <2>1. /\ pc[s] = "sameEdge" /\ job[s].conf \in Confidence \ {0}
        /\ job[s].node \in Nodes /\ job[s].other \in Nodes
        /\ <<job[s].node, job[s].other>> \in Edges
    BY <1>0, <1>12, EdgeFacts DEF SameEdge, FitsAt
  <2>2. Backed(<<job[s].node, job[s].other>>, evidence \cup tx[s].added)
    BY <2>1, Distinct DEF Backed
  <2> QED
    BY <1>0, <1>12, <2>1, <2>2, ObserveClaims DEF SameEdge
<1>13. CASE MergeEdgesDone(s)
  <2>1. pc[s] = "mergeEdges" /\ tx[s].moved = {} /\ Moves(s, "mergeMessages", job[s], tx[s])
    BY <1>13, TypedFacts, NothingMoved DEF MergeEdgesDone, Moves, Goto
  <2>2. ClaimsAt(s, "mergeMessages", job[s], tx[s])
    BY <2>1, KeepsClaims
  <2> QED
    BY <1>0, <2>1, <2>2, MovesClaims
<1>14. CASE MergeMessages(s)
  BY <1>0, <1>14, MergeMessagesClaims
<1>15. CASE MergeEvidence(s)
  BY <1>0, <1>15, MergeEvidenceClaims
<1>16. ASSUME NEW k \in Edges, MergeEdge(s, k)
       PROVE  ClaimsInv'
  BY <1>0, <1>16, MergeEdgeClaims
<1>17. CASE MergeRows(s)
  <2>1. pc[s] = "mergeRows" /\ tx[s].moved = {} /\ Moves(s, "mergeEvidence", job[s], tx[s])
    BY <1>17, MergeRowsSteps, NothingMoved
  <2>2. ClaimsAt(s, "mergeEvidence", job[s], tx[s])
    BY <2>1, KeepsClaims
  <2> QED
    BY <1>0, <2>1, <2>2, MovesClaims
<1> QED
  BY <1>1, <1>2, <1>3, <1>4, <1>5, <1>6, <1>7, <1>8, <1>9, <1>10, <1>11, <1>12, <1>13,
     <1>14, <1>15, <1>16, <1>17 DEF Statement

LEMMA StartClaims ==
    ASSUME Typed, ClaimsInv, NEW s \in Sessions,
           \/ \E n \in Nodes : \/ \E o \in Contents : Ingest(s, n, o)
                               \/ \E c \in {Weak, Strong} : Link(s, n, c)
           \/ \E n, o \in Nodes : \/ \E c \in {Weak, Strong} : Correlate(s, n, o, c)
                                  \/ Merge(s, n, o)
    PROVE  ClaimsInv'
<1>1. ASSUME NEW p, NEW j, p \in {"blurbEvidence", "linkEdge", "correlation"},
             pc[s] \in {"idle", "done"}, job[s].kind # "merge", Starts(s, p, j, tx[s])
      PROVE  ClaimsInv'
  <2>1. tx[s].moved = {}
    BY <1>1, NothingMoved
  <2>2. ClaimsAt(s, p, j, tx[s])
    BY <1>1, <2>1, KeepsClaims
  <2> QED
    BY <1>1, <2>2, MovesClaims DEF Starts, tables
<1>2. ASSUME NEW n \in Nodes, NEW o \in Nodes, Merge(s, n, o)
      PROVE  ClaimsInv'
  <2> DEFINE u == Fetched(tx[s], o)
             j == NewMerge(n, o)
  <2>1. n # o /\ pc[s] = "idle" /\ Starts(s, "mergeEdges", j, u)
    BY <1>2, StartSteps
  <2>2. u.mem = Loaded(o) /\ u.added = {} /\ u.moved = {}
    <3>1. n # o /\ pc[s] = "idle"
      BY <2>1
    <3> QED
      BY <3>1, LoadedFacts
  <2>3. \A k \in Edges : Loaded(o)[k] > 0 => edges[k] > 0
    BY DEF Loaded
  <2> HIDE DEF u, j
  <2>4. ClaimsAt(s, "mergeEdges", j, u)
    <3>1. \A k \in Edges : u.mem[k] > 0 => Backed(k, evidence \cup u.added)
      BY <2>2, <2>3 DEF ClaimsInv, ClaimsBacked, Backed
    <3> QED
      BY <2>2, <3>1 DEF ClaimsAt
  <2> QED
    BY <2>1, <2>4, MovesClaims DEF Starts, tables
<1>3. ASSUME NEW n \in Nodes, NEW o \in Contents, Ingest(s, n, o)
      PROVE  ClaimsInv'
  <2>1. /\ pc[s] \in {"idle", "done"} /\ job[s].kind # "merge"
        /\ Starts(s, "blurbEvidence", NewIngest(n, o), tx[s])
    BY <1>3, StartSteps
  <2> QED
    BY <1>1, <2>1
<1>4. ASSUME NEW n \in Nodes, NEW c \in {Weak, Strong}, Link(s, n, c)
      PROVE  ClaimsInv'
  <2>1. /\ pc[s] \in {"idle", "done"} /\ job[s].kind # "merge"
        /\ Starts(s, "linkEdge", NewLink(n, c), tx[s])
    BY <1>4, StartSteps
  <2> QED
    BY <1>1, <2>1
<1>5. ASSUME NEW n \in Nodes, NEW o \in Nodes, NEW c \in {Weak, Strong}, Correlate(s, n, o, c)
      PROVE  ClaimsInv'
  <2>1. /\ pc[s] \in {"idle", "done"} /\ job[s].kind # "merge"
        /\ Starts(s, "correlation", NewSame(n, o, c), tx[s])
    BY <1>5, StartSteps
  <2> QED
    BY <1>1, <2>1
<1> QED
  BY <1>2, <1>3, <1>4, <1>5

LEMMA RaiseClaims ==
    ASSUME Typed, ClaimsInv, NEW s \in Sessions, Raise(s)
    PROVE  ClaimsInv'
<1> DEFINE p == OnRaise(pc[s])
<1>1. /\ pc[s] \notin {"idle", "done", "failed"} /\ Moves(s, p, job[s], tx[s])
      /\ evidence' = evidence /\ edges' = edges
  BY TypedFacts DEF Raise, Moves, Goto, tables
<1>2. /\ p \in {"draft", "containerEdge", "done", "failed"}
      /\ p = "failed" \/ pc[s] # "linkEvidence"
  BY DEF OnRaise
<1>3. tx[s].moved = {}
  BY <1>1, NothingMoved
<1> HIDE DEF p
<1>4. ClaimsAt(s, p, job[s], tx[s])
  BY <1>1, <1>2, <1>3, KeepsClaims
<1> QED
  BY <1>1, <1>4, MovesClaims

LEMMA NoTxClaims ==
    ASSUME NEW s \in Sessions
    PROVE  ClaimsAt(s, "idle", NoJob, NoTx)
<1>1. \A k \in Edges : ~(NoTx.mem[k] > 0)
  BY NoTxFacts DEF NoEdges
<1> QED
  BY <1>1, NoTxFacts DEF ClaimsAt

LEMMA RollbackClaims ==
    ASSUME Typed, ClaimsInv, NEW s \in Sessions, Rollback(s)
    PROVE  ClaimsInv'
<1>1. Moves(s, "idle", NoJob, NoTx) /\ evidence' = evidence /\ edges' = edges
  BY CloseSteps DEF Rollback, tables
<1> QED
  BY <1>1, NoTxClaims, MovesClaims

LEMMA CommitClaims ==
    ASSUME Typed, ClaimsInv, NEW s \in Sessions, Commit(s)
    PROVE  ClaimsInv'
<1> DEFINE t == tx[s]
<1>1. /\ Moves(s, "idle", NoJob, NoTx) /\ pc[s] = "done"
      /\ edges' = [k \in Edges |-> Stored(t, k)]
      /\ evidence' = (evidence \ t.moved) \cup t.added
  BY CloseSteps DEF Commit
<1>2. /\ t \in Tx /\ edges \in [Edges -> Confidence] /\ ClaimsAt(s, "done", job[s], t)
      /\ t.moved \subseteq Evidence /\ ClaimsBacked /\ FitsAt("done", job[s], t)
  BY <1>1, TypedFacts DEF WellTyped, ClaimsInv, Tx
<1>3. /\ pc'[s] = "idle" /\ job'[s] = NoJob /\ tx'[s] = NoTx
      /\ \A q \in Sessions : q # s => pc'[q] = pc[q] /\ job'[q] = job[q] /\ tx'[q] = tx[q]
  BY <1>1, TypedFacts DEF Moves
<1>4. \A e \in evidence \cup t.added : e[1] \notin Nodes => e \in evidence'
  <2>1. \A e \in t.moved : e[1] \in Nodes
    BY <1>2 DEF ClaimsAt
  <2> QED
    BY <1>1, <2>1
<1>5. ASSUME NEW k, NEW E, Backed(k, evidence \cup E)
      PROVE  Backed(k, evidence' \cup E)
  <2>1. \A e \in evidence \cup E : e[1] \notin Nodes => e \in evidence' \cup E
    BY <1>4
  <2> QED
    BY <1>5, <2>1, BackedMore
<1>6. \A k \in Edges : edges[k] > 0 => Backed(k, evidence')
  <2> SUFFICES ASSUME NEW k \in Edges, edges[k] > 0 PROVE Backed(k, evidence')
    OBVIOUS
  <2>1. Backed(k, evidence)
    BY <1>2 DEF ClaimsBacked, Backed
  <2>2. \A e \in evidence : e[1] \notin Nodes => e \in evidence'
    BY <1>4
  <2> QED
    BY <2>1, <2>2, BackedMore
<1>7. \A k \in Edges : t.mem[k] > 0 => Backed(k, evidence')
  <2> SUFFICES ASSUME NEW k \in Edges, t.mem[k] > 0 PROVE Backed(k, evidence')
    OBVIOUS
  <2>1. Backed(k, evidence \cup t.added)
    BY <1>2 DEF ClaimsAt
  <2> QED
    BY <1>4, <2>1, BackedMore
<1>8. ClaimsBacked'
  <2>1. ASSUME NEW k \in Edges, edges'[k] > 0
        PROVE  Backed(k, evidence')
    <3>1. edges'[k] \in {0, edges[k], t.mem[k]}
      BY <1>1 DEF Stored
    <3> QED
      BY <1>6, <1>7, <2>1, <3>1
  <2> QED
    BY <2>1 DEF ClaimsBacked, Backed
<1>9. ClaimsAt(s, pc[s], job[s], tx[s])'
  <2>1. \A k \in Edges : ~(NoTx.mem[k] > 0)
    BY NoTxFacts DEF NoEdges
  <2> QED
    BY <1>3, <2>1, NoTxFacts DEF ClaimsAt
<1>10. ASSUME NEW q \in Sessions, q # s
       PROVE  ClaimsAt(q, pc[q], job[q], tx[q])'
  <2>1. ClaimsAt(q, pc[q], job[q], tx[q]) /\ q \in Others(s) /\ s \in Others(q)
    BY <1>10 DEF ClaimsInv, Others
  <2>2. \A k \in Edges : Backed(k, evidence \cup tx[q].added)
                          => Backed(k, evidence' \cup tx[q].added)
    BY <1>5
  <2>3. tx[q].added \cap evidence' = {}
    BY <1>1, <1>2, <2>1 DEF ClaimsAt
  <2>4. /\ <<Ioc, "blurb">> \in evidence => <<Ioc, "blurb">> \in evidence'
        /\ <<Ioc, "message">> \in evidence => <<Ioc, "message">> \in evidence'
    BY <1>4, Distinct
  <2>5. \A r \in Others(q) : tx[q].added \cap tx'[r].added = {}
    BY <1>3, <2>1, NoTxFacts DEF ClaimsAt, Others
  <2>6. pc[q] # "failed" => \A k \in Edges : tx[q].mem[k] > 0 =>
           \/ Backed(k, evidence' \cup tx[q].added)
           \/ pc[q] = "linkEvidence" /\ k[1] = Target
    BY <2>1, <2>2 DEF ClaimsAt
  <2> QED
    BY <1>3, <1>10, <2>1, <2>3, <2>4, <2>5, <2>6 DEF ClaimsAt
<1> QED
  BY <1>8, <1>9, <1>10 DEF ClaimsInv

LEMMA InitClaims == Init => ClaimsInv
<1> SUFFICES ASSUME Init PROVE ClaimsInv
  OBVIOUS
<1>1. \A s \in Sessions : ClaimsAt(s, pc[s], job[s], tx[s])
  BY NoTxClaims DEF Init
<1>2. ClaimsBacked
  BY DEF Init, ClaimsBacked, NoEdges
<1> QED
  BY <1>1, <1>2 DEF ClaimsInv

LEMMA NextClaims == Typed /\ ClaimsInv /\ HeldInv /\ [Next]_vars => ClaimsInv'
<1> SUFFICES ASSUME Typed, ClaimsInv, HeldInv, [Next]_vars PROVE ClaimsInv'
  OBVIOUS
<1>1. CASE UNCHANGED vars
  <2>1. ClaimsBacked'
    BY <1>1 DEF ClaimsInv, ClaimsBacked, vars, tables
  <2>2. ASSUME NEW s \in Sessions PROVE ClaimsAt(s, pc[s], job[s], tx[s])'
    <3>1. ClaimsAt(s, pc[s], job[s], tx[s])
      BY DEF ClaimsInv
    <3> QED
      BY <1>1, <3>1 DEF ClaimsAt, vars, tables
  <2> QED
    BY <2>1, <2>2 DEF ClaimsInv
<1>2. CASE Next
  BY <1>2, StartClaims, StatementClaims, RaiseClaims, CommitClaims, RollbackClaims DEF Next
<1> QED
  BY <1>1, <1>2

\* The rows a merge holds.
LEMMA HeldFacts ==
    ASSUME Typed, HeldInv, NEW s \in Sessions
    PROVE  /\ HeldAt(pc[s], job[s], tx[s], held[s])
           /\ job[s].kind # "merge" \/ pc[s] \notin {"mergeEvidence", "done", "failed"} =>
                 held[s] = {} /\ tx[s].moved = {}
BY DEF HeldInv, HeldAt

\* A step of s, under way, that stores nothing and leaves it holding h.
LEMMA MovesHeld ==
    ASSUME Typed, HeldInv, NEW s \in Sessions, pc[s] # "idle", NEW p, NEW j, NEW u,
           NEW h \in SUBSET About, Moves(s, p, j, u), held' = [held EXCEPT ![s] = h],
           evidence' = evidence, overlapped' = overlapped, HeldAt(p, j, u, h),
           \A q \in Others(s) : u.moved \cap tx[q].moved = {}
    PROVE  HeldInv'
<1>1. /\ pc'[s] = p /\ job'[s] = j /\ tx'[s] = u /\ held'[s] = h
      /\ \A q \in Sessions : q # s => /\ pc'[q] = pc[q] /\ job'[q] = job[q]
                                      /\ tx'[q] = tx[q] /\ held'[q] = held[q]
  BY TypedFacts DEF Moves
<1>2. ~overlapped' => \A r, q \in Sessions : pc'[r] # "idle" /\ pc'[q] # "idle" => r = q
  BY <1>1 DEF HeldInv
<1>3. \A r \in Sessions : \A q \in Others(r) : tx'[r].moved \cap tx'[q].moved = {}
  BY <1>1 DEF HeldInv, Others
<1>4. ASSUME NEW q \in Sessions
      PROVE  HeldAt(pc[q], job[q], tx[q], held[q])'
  <2>1. HeldAt(pc[q], job[q], tx[q], held[q])
    BY DEF HeldInv
  <2> QED
    BY <1>1, <2>1 DEF HeldAt
<1> QED
  BY <1>2, <1>3, <1>4 DEF HeldInv, Others

\* Every statement but the two on evidence rows leaves no row held or moved.
LEMMA StatementMoves ==
    ASSUME Typed, NEW s \in Sessions, Statement(s), ~MergeRows(s), ~MergeEvidence(s)
    PROVE  /\ pc[s] \notin {"idle", "mergeEvidence", "done", "failed"}
           /\ \E p, j, u : /\ Moves(s, p, j, u) /\ u.moved = tx[s].moved
                           /\ p \notin {"idle", "mergeEvidence"}
<1> DEFINE Going == /\ pc[s] \notin {"idle", "mergeEvidence", "done", "failed"}
                    /\ \E p, j, u : /\ Moves(s, p, j, u) /\ u.moved = tx[s].moved
                                    /\ p \notin {"idle", "mergeEvidence"}
<1> SUFFICES Going
  OBVIOUS
<1>0. /\ tx[s] \in Tx /\ edges \in [Edges -> Confidence] /\ job[s] \in Job
      /\ WellTyped(pc[s], job[s], tx[s])
      /\ pc[s] # "idle" => job[s].node \in Nodes /\ job[s].node # job[s].other
  BY TypedFacts DEF WellTyped, FitsAt
<1>1. ASSUME NEW k \in Edges, NEW c \in Confidence \ {0}, NEW p, Observe(s, k, c, p),
             p \notin {"idle", "mergeEvidence"},
             pc[s] \notin {"idle", "mergeEvidence", "done", "failed"}
      PROVE  Going
  <2>1. Observed(tx[s], k, c).moved = tx[s].moved
    BY <1>0, <1>1, ObservedFacts
  <2> QED
    BY <1>1, <2>1, ObserveSteps
<1>2. ASSUME NEW e \in Evidence, NEW p, Record(s, e, p), p \notin {"idle", "mergeEvidence"},
             pc[s] \notin {"idle", "mergeEvidence", "done", "failed"}
      PROVE  Going
  <2>1. Recorded(tx[s], e).moved = tx[s].moved
    BY <1>0, RecordedFacts
  <2> QED
    BY <1>2, <2>1, RecordSteps
<1>3. ASSUME NEW p, Moves(s, p, job[s], tx[s]), p \notin {"idle", "mergeEvidence"},
             pc[s] \notin {"idle", "mergeEvidence", "done", "failed"}
      PROVE  Going
  BY <1>3
<1> HIDE DEF Going
<1>4. CASE BlurbEvidence(s) \/ MatchEvidence(s) \/ Draft(s) \/ LinkEvidence(s) \/ Correlation(s)
  <2>1. pc[s] = "draft" => job[s].seen \in Contents
    BY <1>0 DEF WellTyped, FitsAt, Ingesting
  <2> QED
    BY <1>0, <1>2, <1>4, <2>1, EdgeFacts
       DEF BlurbEvidence, MatchEvidence, Draft, LinkEvidence, Correlation
<1>5. CASE BlurbEdge(s) \/ MatchEdge(s) \/ LinkEdge(s) \/ SameEdge(s)
  <2>1. /\ pc[s] = "matchEdge" => job[s].msg \in Msgs
        /\ pc[s] \in {"linkEdge", "sameEdge"} => job[s].conf \in Confidence \ {0}
        /\ pc[s] = "sameEdge" => job[s].other \in Nodes
    BY <1>0, EdgeFacts DEF WellTyped, FitsAt
  <2> QED
    BY <1>0, <1>1, <1>5, <2>1, EdgeFacts DEF BlurbEdge, MatchEdge, LinkEdge, SameEdge
<1>6. CASE Message(s)
  <2>1. nextMsg < MaxMsgs => Placed(tx[s], nextMsg + 1, job[s].node).moved = tx[s].moved
    <3>0. pc[s] = "message" /\ job[s].node \in Nodes
      BY <1>0, <1>6, MessageSteps
    <3>1. nextMsg < MaxMsgs => nextMsg + 1 \in Msgs
      BY TypedFacts DEF Msgs
    <3> QED
      BY <1>0, <3>0, <3>1, PlacedFacts
  <2> DEFINE v == Placed(tx[s], nextMsg + 1, job[s].node)
  <2>2. /\ pc[s] = "message"
        /\ \/ Moves(s, "failed", job[s], tx[s])
           \/ \E m \in Msgs : Moves(s, "scan", [job[s] EXCEPT !.msg = m], tx[s])
           \/ /\ nextMsg < MaxMsgs
              /\ Moves(s, "scan", [job[s] EXCEPT !.msg = nextMsg + 1], v)
    BY <1>6, MessageSteps DEF Posted
  <2> HIDE DEF v
  <2>3. nextMsg < MaxMsgs => v.moved = tx[s].moved
    BY <2>1 DEF v
  <2>4. ASSUME NEW j, Moves(s, "scan", j, tx[s])
        PROVE  Going
    BY <2>2, <2>4 DEF Going
  <2>5. ASSUME NEW j, nextMsg < MaxMsgs, Moves(s, "scan", j, v)
        PROVE  Going
    BY <2>2, <2>3, <2>5 DEF Going
  <2>6. CASE Moves(s, "failed", job[s], tx[s])
    BY <1>3, <2>2, <2>6
  <2> QED
    BY <2>2, <2>4, <2>5, <2>6
<1>7. CASE Scan(s) \/ MergeEdgesDone(s)
  <2>1. \/ pc[s] = "scan" /\ Moves(s, "matchEvidence", job[s], tx[s])
        \/ pc[s] = "mergeEdges" /\ Moves(s, "mergeMessages", job[s], tx[s])
    BY <1>7, TypedFacts DEF Scan, MergeEdgesDone, Moves, Goto
  <2> QED
    BY <1>3, <2>1
<1>8. CASE ContainerEdge(s)
  <2>1. pc[s] = "containerEdge"
    BY <1>8 DEF ContainerEdge
  <2>2. CASE job[s].msg = 0
    <3>1. Moves(s, "done", job[s], tx[s])
      BY <1>8, <2>2, TypedFacts DEF ContainerEdge, Moves, Goto
    <3> QED
      BY <1>3, <2>1, <3>1
  <2>3. CASE job[s].msg # 0
    <3>1. job[s].msg \in Msgs
      BY <1>0, <2>3, TypedFacts DEF Job, Msgs
    <3>2. <<job[s].msg, job[s].node>> \in Edges /\ Strong \in Confidence \ {0}
      BY <1>0, <2>1, <3>1, EdgeFacts
    <3>3. Observe(s, <<job[s].msg, job[s].node>>, Strong, "done")
      BY <1>8, <2>3 DEF ContainerEdge
    <3> QED
      BY <1>1, <2>1, <3>2, <3>3
  <2> QED
    BY <2>2, <2>3
<1>9. CASE MergeMessages(s)
  <2> DEFINE v == [tx[s] EXCEPT !.placed = [m \in Msgs |-> IF m \in Posted(s, job[s].other)
                                             THEN job[s].node ELSE tx[s].placed[m]]]
  <2>1. /\ pc[s] = "mergeMessages"
        /\ \/ Moves(s, "failed", job[s], tx[s])
           \/ Moves(s, "mergeRows", job[s], tx[s])
           \/ Moves(s, "mergeRows", job[s], v)
    BY <1>9, MergeMessagesSteps
  <2>2. v.moved = tx[s].moved
    BY <1>0 DEF Tx
  <2> HIDE DEF v
  <2> QED
    BY <2>1, <2>2 DEF Going
<1>10. ASSUME NEW k \in Edges, MergeEdge(s, k)
       PROVE  Going
  <2> DEFINE i == Image(s, k)
             c == tx[s].base[k]
             g == Gone(tx[s], k)
             u == Observed(g, i, c)
             j == [job[s] EXCEPT !.rels = @ \ {k}]
  <2>1. /\ pc[s] = "mergeEdges" /\ k \in job[s].rels
        /\ \/ Moves(s, "failed", job[s], tx[s])
           \/ i[1] = i[2] /\ Moves(s, "mergeEdges", j, g)
           \/ i[1] # i[2] /\ Moves(s, "mergeEdges", j, u)
    BY <1>10, MergeEdgeSteps
  <2>2. /\ job[s].node \in Nodes /\ job[s].other \in Nodes /\ job[s].node # job[s].other
        /\ c \in Confidence \ {0}
    BY <1>0, <2>1 DEF WellTyped, FitsAt, Merging, Tx
  <2>3. g \in Tx /\ g.moved = tx[s].moved
    BY <1>0, GoneFacts
  <2>4. i[1] # i[2] => i \in Edges
    BY <2>2, ImageFacts
  <2> HIDE DEF i, c, g, j
  <2>5. i[1] # i[2] => u.moved = tx[s].moved
    <3> SUFFICES ASSUME i[1] # i[2] PROVE u.moved = g.moved
      BY <2>3
    <3>1. i \in Edges /\ g \in Tx /\ c \in Confidence \ {0} /\ edges \in [Edges -> Confidence]
      BY <1>0, <2>2, <2>3, <2>4
    <3> QED
      BY <3>1, ObservedFacts
  <2> HIDE DEF u
  <2> QED
    BY <2>1, <2>3, <2>5 DEF Going
<1> QED
  BY <1>4, <1>5, <1>6, <1>7, <1>8, <1>9, <1>10 DEF Statement

LEMMA StatementHeld ==
    ASSUME Typed, ClaimsInv, HeldInv, NEW s \in Sessions, Statement(s)
    PROVE  HeldInv'
<1>0. /\ evidence' = evidence /\ overlapped' = overlapped /\ evidence \subseteq Evidence
      /\ FitsAt(pc[s], job[s], tx[s]) /\ held \in [Sessions -> SUBSET About]
      /\ HeldAt(pc[s], job[s], tx[s], held[s])
      /\ \A q \in Others(s) : tx[s].moved \cap tx[q].moved = {}
  BY TypedFacts DEF WellTyped, HeldInv, Statement, tables
<1>1. CASE MergeRows(s)
  <2> DEFINE h == {e \in evidence : e[1] = job[s].other}
  <2>1. /\ pc[s] = "mergeRows" /\ Moves(s, "mergeEvidence", job[s], tx[s])
        /\ held' = [held EXCEPT ![s] = h] /\ h \subseteq About
    BY <1>1, MergeRowsSteps
  <2>2. job[s].kind = "merge" /\ tx[s].moved = {}
    BY <1>0, <2>1 DEF FitsAt, Merging, HeldAt
  <2>3. \A e, f \in h : e[2] = f[2] => e = f
    <3>1. \A e \in About : e = <<e[1], e[2]>>
      BY DEF About
    <3> QED
      BY <2>1, <3>1
  <2>4. HeldAt("mergeEvidence", job[s], tx[s], h)
    BY <2>2, <2>3 DEF HeldAt
  <2> HIDE DEF h
  <2> QED
    BY <1>0, <2>1, <2>2, <2>4, MovesHeld
<1>2. CASE MergeEvidence(s) /\ ~MergeRows(s)
  <2> DEFINE u == MovedOn(s)
  <2>1. /\ pc[s] = "mergeEvidence"
        /\ \/ Moves(s, "failed", job[s], tx[s])
           \/ /\ \A q \in Others(s) : held[s] \cap Updated(q) = {}
              /\ Moves(s, "done", job[s], u)
    BY <1>2, MergeEvidenceSteps
  <2>2. job[s].kind = "merge" /\ job[s].node \in Nodes
    BY <1>0, <2>1 DEF FitsAt, Merging
  <2>3. u.moved \subseteq held[s]
    BY <2>2, MovedFacts DEF Away
  <2> HIDE DEF u
  <2>4. HeldAt("failed", job[s], tx[s], held[s]) /\ HeldAt("done", job[s], u, held[s])
    BY <1>0, <2>2, <2>3 DEF HeldAt
  <2>5. ASSUME NEW q \in Others(s), held[s] \cap Updated(q) = {}
        PROVE  u.moved \cap tx[q].moved = {}
    <3>1. q \in Sessions /\ HeldAt(pc[q], job[q], tx[q], held[q])
          /\ (pc[q] = "done" \/ tx[q].moved = {})
      BY DEF HeldInv, Others, ClaimsInv, ClaimsAt
    <3> QED
      BY <2>3, <2>5, <3>1 DEF HeldAt, Updated
  <2>6. held' = [held EXCEPT ![s] = held[s]] /\ held[s] \in SUBSET About
    BY <1>0, <1>2 DEF Statement
  <2>7. pc[s] # "idle"
    BY <2>1
  <2>8. CASE Moves(s, "failed", job[s], tx[s])
    BY <1>0, <2>4, <2>6, <2>7, <2>8, MovesHeld
  <2>9. CASE Moves(s, "done", job[s], u) /\ \A q \in Others(s) : held[s] \cap Updated(q) = {}
    <3>1. \A q \in Others(s) : u.moved \cap tx[q].moved = {}
      BY <2>5, <2>9
    <3> QED
      BY <1>0, <2>4, <2>6, <2>7, <2>9, <3>1, MovesHeld
  <2> QED
    BY <2>1, <2>8, <2>9
<1>3. CASE ~MergeEvidence(s) /\ ~MergeRows(s)
  <2>1. pc[s] \notin {"idle", "mergeEvidence", "done", "failed"}
    BY <1>3, StatementMoves
  <2>2. PICK p, j, u : /\ Moves(s, p, j, u) /\ u.moved = tx[s].moved
                       /\ p \notin {"idle", "mergeEvidence"}
    BY <1>3, StatementMoves
  <2>3. held[s] = {} /\ u.moved = {}
    BY <1>0, <2>1, <2>2 DEF HeldAt
  <2>4. HeldAt(p, j, u, {})
    BY <2>2, <2>3 DEF HeldAt
  <2>5. held' = [held EXCEPT ![s] = {}]
    BY <1>0, <1>3, <2>3 DEF Statement
  <2>6. {} \in SUBSET About /\ pc[s] # "idle" /\ \A q \in Others(s) : u.moved \cap tx[q].moved = {}
    BY <2>1, <2>3
  <2> QED
    BY <1>0, <2>2, <2>4, <2>5, <2>6, MovesHeld
<1> QED
  BY <1>1, <1>2, <1>3

LEMMA RaiseHeld ==
    ASSUME Typed, HeldInv, NEW s \in Sessions, Raise(s)
    PROVE  HeldInv'
<1> DEFINE p == OnRaise(pc[s])
<1>1. /\ pc[s] \notin {"idle", "done", "failed"} /\ Moves(s, p, job[s], tx[s])
      /\ evidence' = evidence /\ overlapped' = overlapped /\ held' = held
  BY TypedFacts DEF Raise, Moves, Goto, tables
<1>2. p # "mergeEvidence" /\ (pc[s] = "mergeEvidence" => p = "failed")
  BY DEF OnRaise
<1> HIDE DEF p
<1>3. HeldAt(p, job[s], tx[s], held[s])
  BY <1>1, <1>2 DEF HeldInv, HeldAt
<1>4. held' = [held EXCEPT ![s] = held[s]] /\ held[s] \in SUBSET About
  BY <1>1, TypedFacts
<1>5. \A q \in Others(s) : tx[s].moved \cap tx[q].moved = {}
  BY DEF HeldInv
<1> QED
  BY <1>1, <1>3, <1>4, <1>5, MovesHeld

LEMMA StartHeld ==
    ASSUME Typed, HeldInv, NEW s \in Sessions,
           \/ \E n \in Nodes : \/ \E o \in Contents : Ingest(s, n, o)
                               \/ \E c \in {Weak, Strong} : Link(s, n, c)
           \/ \E n, o \in Nodes : \/ \E c \in {Weak, Strong} : Correlate(s, n, o, c)
                                  \/ Merge(s, n, o)
    PROVE  HeldInv'
<1>1. ASSUME NEW p, NEW j, NEW u, Starts(s, p, j, u), p \notin {"idle", "mergeEvidence"},
             pc[s] = "idle" \/ job[s].kind # "merge", u.moved = {}
      PROVE  HeldInv'
  <2>1. /\ held' = held /\ evidence' = evidence
        /\ ~overlapped' => ~overlapped /\ \A q \in Others(s) : pc[q] = "idle"
    BY <1>1 DEF Starts, tables
  <2>2. /\ pc'[s] = p /\ job'[s] = j /\ tx'[s] = u
        /\ \A q \in Sessions : q # s => pc'[q] = pc[q] /\ job'[q] = job[q] /\ tx'[q] = tx[q]
    BY <1>1, TypedFacts DEF Starts, Moves
  <2>3. held[s] = {}
    BY <1>1, HeldFacts
  <2>4. ASSUME NEW q \in Sessions
        PROVE  HeldAt(pc[q], job[q], tx[q], held[q])'
    <3>1. HeldAt(pc[q], job[q], tx[q], held[q])
      BY DEF HeldInv
    <3> QED
      BY <1>1, <2>1, <2>2, <2>3, <3>1 DEF HeldAt
  <2>5. \A r \in Sessions : \A q \in Others(r) : tx'[r].moved \cap tx'[q].moved = {}
    BY <1>1, <2>2 DEF HeldInv, Others
  <2>6. ~overlapped' => \A r, q \in Sessions : pc'[r] # "idle" /\ pc'[q] # "idle" => r = q
    BY <2>1, <2>2 DEF Others
  <2> QED
    BY <2>4, <2>5, <2>6 DEF HeldInv, Others
<1>2. ASSUME NEW n \in Nodes, NEW o \in Nodes, Merge(s, n, o)
      PROVE  HeldInv'
  <2>1. n # o /\ pc[s] = "idle" /\ Starts(s, "mergeEdges", NewMerge(n, o), Fetched(tx[s], o))
    BY <1>2, StartSteps
  <2>2. Fetched(tx[s], o).moved = {}
    <3>1. n # o /\ pc[s] = "idle"
      BY <2>1
    <3> QED
      BY <3>1, LoadedFacts
  <2> QED
    BY <1>1, <2>1, <2>2
<1>3. job[s].kind # "merge" => tx[s].moved = {}
  BY HeldFacts
<1>4. ASSUME NEW n \in Nodes, NEW o \in Contents, Ingest(s, n, o)
      PROVE  HeldInv'
  <2>1. job[s].kind # "merge" /\ Starts(s, "blurbEvidence", NewIngest(n, o), tx[s])
    BY <1>4, StartSteps
  <2> QED
    BY <1>1, <1>3, <2>1
<1>5. ASSUME NEW n \in Nodes, NEW c \in {Weak, Strong}, Link(s, n, c)
      PROVE  HeldInv'
  <2>1. job[s].kind # "merge" /\ Starts(s, "linkEdge", NewLink(n, c), tx[s])
    BY <1>5, StartSteps
  <2> QED
    BY <1>1, <1>3, <2>1
<1>6. ASSUME NEW n \in Nodes, NEW o \in Nodes, NEW c \in {Weak, Strong}, Correlate(s, n, o, c)
      PROVE  HeldInv'
  <2>1. job[s].kind # "merge" /\ Starts(s, "correlation", NewSame(n, o, c), tx[s])
    BY <1>6, StartSteps
  <2> QED
    BY <1>1, <1>3, <2>1
<1> QED
  BY <1>2, <1>4, <1>5, <1>6

LEMMA RollbackHeld ==
    ASSUME Typed, HeldInv, NEW s \in Sessions, Rollback(s)
    PROVE  HeldInv'
<1>1. /\ Moves(s, "idle", NoJob, NoTx) /\ evidence' = evidence /\ pc[s] # "idle"
      /\ overlapped' = overlapped /\ held' = [held EXCEPT ![s] = {}]
  BY CloseSteps DEF Rollback, tables
<1>2. HeldAt("idle", NoJob, NoTx, {})
  BY NoTxFacts DEF HeldAt
<1> QED
  BY <1>1, <1>2, NoTxFacts, MovesHeld

\* The rows others hold are followed to their new keys.
LEMMA CommitHeld ==
    ASSUME Typed, ClaimsInv, HeldInv, NEW s \in Sessions, Commit(s)
    PROVE  HeldInv'
<1> DEFINE t == tx[s]
           new(e) == IF e \in t.moved THEN MovedTo(s, e) ELSE e
<1>1. /\ Moves(s, "idle", NoJob, NoTx) /\ pc[s] = "done"
      /\ evidence' = (evidence \ t.moved) \cup t.added /\ overlapped' = overlapped
      /\ held' = [q \in Sessions |-> IF q = s THEN {} ELSE Followed(s, held[q])]
  BY CloseSteps DEF Commit
<1>2. /\ pc'[s] = "idle" /\ tx'[s] = NoTx /\ held'[s] = {}
      /\ \A q \in Sessions : q # s => /\ pc'[q] = pc[q] /\ job'[q] = job[q] /\ tx'[q] = tx[q]
                                      /\ held'[q] = {new(e) : e \in held[q]}
  BY <1>1, TypedFacts DEF Moves, Followed
<1>3. \A e \in t.moved : MovedTo(s, e) \in t.added
  BY DEF ClaimsInv, ClaimsAt, MovedTo
<1>4. \A e \in evidence : new(e) \in evidence' /\ new(e)[2] = e[2]
  BY <1>1, <1>3 DEF MovedTo
<1>5. ASSUME NEW q \in Sessions, q # s
      PROVE  HeldAt(pc[q], job[q], tx[q], held[q])'
  <2>1. HeldAt(pc[q], job[q], tx[q], held[q]) /\ tx[q].moved \cap t.moved = {}
    BY <1>5 DEF HeldInv, Others
  <2>2. ~overlapped => pc[q] = "idle"
    BY <1>1, <1>5 DEF HeldInv
  <2>3. ~overlapped => held[q] = {} /\ pc[q] # "mergeEvidence"
    BY <2>1, <2>2 DEF HeldAt
  <2>4. {new(e) : e \in held[q]} \subseteq evidence'
    BY <1>4, <2>1 DEF HeldAt
  <2>5. \A e, f \in {new(x) : x \in held[q]} : e[2] = f[2] => e = f
    <3> SUFFICES ASSUME NEW x \in held[q], NEW y \in held[q], new(x)[2] = new(y)[2]
                 PROVE  new(x) = new(y)
      OBVIOUS
    <3>1. x \in evidence /\ y \in evidence
      BY <2>1 DEF HeldAt
    <3>2. x[2] = y[2]
      BY <1>4, <3>1
    <3>3. x = y
      BY <2>1, <3>2 DEF HeldAt
    <3> QED
      BY <3>3
  <2>6. tx[q].moved \subseteq {new(e) : e \in held[q]}
    BY <2>1 DEF HeldAt
  <2>7. held[q] = {} => {new(e) : e \in held[q]} = {}
    OBVIOUS
  <2>8. /\ pc'[q] = pc[q] /\ job'[q] = job[q] /\ tx'[q] = tx[q] /\ overlapped' = overlapped
        /\ held'[q] = {new(e) : e \in held[q]}
    BY <1>1, <1>2, <1>5
  <2> HIDE DEF new
  <2>9. /\ held'[q] # {} => job'[q].kind = "merge" /\ pc'[q] \in {"mergeEvidence", "done", "failed"}
        /\ tx'[q].moved \subseteq held'[q]
        /\ ~overlapped' => held'[q] = {} /\ pc'[q] # "mergeEvidence"
    BY <2>1, <2>3, <2>6, <2>7, <2>8 DEF HeldAt
  <2>10. held'[q] \subseteq evidence' /\ \A e, f \in held'[q] : e[2] = f[2] => e = f
    BY <2>4, <2>5, <2>8
  <2> QED
    BY <2>9, <2>10 DEF HeldAt
<1>6. HeldAt(pc[s], job[s], tx[s], held[s])'
  BY <1>2, NoTxFacts DEF HeldAt
<1>7. \A r \in Sessions : \A q \in Others(r) : tx'[r].moved \cap tx'[q].moved = {}
  BY <1>2, NoTxFacts DEF HeldInv, Others
<1>8. ~overlapped' => \A r, q \in Sessions : pc'[r] # "idle" /\ pc'[q] # "idle" => r = q
  BY <1>1, <1>2 DEF HeldInv
<1> QED
  BY <1>5, <1>6, <1>7, <1>8 DEF HeldInv, Others

LEMMA NextHeld == Typed /\ ClaimsInv /\ HeldInv /\ [Next]_vars => HeldInv'
<1> SUFFICES ASSUME Typed, ClaimsInv, HeldInv, [Next]_vars PROVE HeldInv'
  OBVIOUS
<1>1. CASE UNCHANGED vars
  BY <1>1 DEF HeldInv, HeldAt, Others, vars, tables
<1>2. CASE Next
  BY <1>2, StartHeld, StatementHeld, RaiseHeld, CommitHeld, RollbackHeld DEF Next
<1> QED
  BY <1>1, <1>2

LEMMA InitHeld == Init => HeldInv
BY NoTxFacts DEF Init, HeldInv, HeldAt

LEMMA ClaimsAlways == Spec => [](Typed /\ ClaimsInv /\ HeldInv)
<1>1. Init => Typed /\ ClaimsInv /\ HeldInv
  BY InitTyped, InitClaims, InitHeld
<1>2. Typed /\ ClaimsInv /\ HeldInv /\ [Next]_vars => Typed' /\ ClaimsInv' /\ HeldInv'
  BY NextTyped, NextClaims, NextHeld
<1> QED
  BY <1>1, <1>2, PTL DEF Spec

(* Every edge to an indicator or from a target is backed by evidence,      *)
(* whichever units of work interleave, fail, are skipped over or merge:    *)
(* a session's unflushed edges are backed by what is committed or by what  *)
(* it records itself, and a merge moves rows of entities only, never the   *)
(* rows of an indicator or a target (enrich.py, link, merge_entities).     *)
THEOREM GraphIsBacked == Spec => []ClaimsBacked
BY ClaimsAlways, PTL DEF ClaimsInv

\* One step.
LEMMA EvidenceStep ==
    ASSUME Typed, ClaimsInv, HeldInv, [Next]_vars
    PROVE  \A e \in evidence :
              \/ e \in evidence'
              \/ \E s \in Sessions :
                    /\ job[s].kind = "merge"
                    /\ MovedTo(s, e) \in evidence' \ evidence
                    /\ job[s].other = e[1] \/ (overlapped /\ e \in held[s])
<1>1. CASE evidence' = evidence
  BY <1>1
<1>2. CASE \E s \in Sessions : Commit(s)
  <2> SUFFICES ASSUME NEW s \in Sessions, Commit(s), NEW e \in evidence, e \notin evidence'
               PROVE  /\ job[s].kind = "merge"
                      /\ MovedTo(s, e) \in evidence' \ evidence
                      /\ job[s].other = e[1] \/ (overlapped /\ e \in held[s])
    BY <1>2
  <2>1. evidence' = (evidence \ tx[s].moved) \cup tx[s].added
    BY DEF Commit
  <2>2. ClaimsAt(s, pc[s], job[s], tx[s]) /\ e \in tx[s].moved
    BY <2>1 DEF ClaimsInv
  <2>3. job[s].kind = "merge" /\ MovedTo(s, e) \in evidence' \ evidence
    BY <2>1, <2>2 DEF ClaimsAt, MovedTo
  <2>4. e \in held[s] /\ (~overlapped => e[1] = job[s].other)
    BY <2>2 DEF HeldInv, HeldAt
  <2> QED
    BY <2>3, <2>4
<1>3. ASSUME NEW s \in Sessions, Statement(s) \/ Raise(s) \/ Rollback(s)
      PROVE  evidence' = evidence
  <2>1. Statement(s) => evidence' = evidence
    BY DEF Statement, tables
  <2>2. Raise(s) \/ Rollback(s) => evidence' = evidence
    BY DEF Raise, Rollback, tables
  <2> QED
    BY <1>3, <2>1, <2>2
<1>4. ASSUME NEW s \in Sessions, NEW n \in Nodes,
             \/ \E o \in Contents : Ingest(s, n, o)
             \/ \E c \in {Weak, Strong} : Link(s, n, c)
      PROVE  evidence' = evidence
  BY <1>4, StartSteps DEF Starts, tables
<1>5. ASSUME NEW s \in Sessions, NEW n \in Nodes, NEW o \in Nodes,
             \/ \E c \in {Weak, Strong} : Correlate(s, n, o, c)
             \/ Merge(s, n, o)
      PROVE  evidence' = evidence
  BY <1>5, StartSteps DEF Starts, tables
<1>6. Next => evidence' = evidence \/ \E s \in Sessions : Commit(s)
  BY <1>3, <1>4, <1>5 DEF Next
<1>7. UNCHANGED vars => evidence' = evidence
  BY DEF vars, tables
<1> QED
  BY <1>1, <1>2, <1>6, <1>7

(* No observation is lost, and none is collapsed into another: a row      *)
(* leaves its key only in the commit of a merge, whose survivor has it     *)
(* then under a key that was nobody's; it is about the dropped node or was *)
(* when that merge, overlapping another, loaded it (EvidenceRepository,    *)
(* block_evidence_mutation, merge_entities).  That needs what merges hold: *)
(* rows that are there, one for each key to be, and no row in two of them. *)
THEOREM NoObservationLost == Spec => EvidenceKept
<1>1. Typed /\ ClaimsInv /\ HeldInv /\ [Next]_vars =>
         [\A e \in evidence :
             \/ e \in evidence'
             \/ \E s \in Sessions :
                   /\ job[s].kind = "merge"
                   /\ MovedTo(s, e) \in evidence' \ evidence
                   /\ job[s].other = e[1] \/ (overlapped /\ e \in held[s])]_vars
  BY EvidenceStep
<1> QED
  BY <1>1, ClaimsAlways, PTL DEF Spec, EvidenceKept
-----------------------------------------------------------------------------
(* Units of work that do not overlap                                       *)

LEMMA NumberFacts ==
    ASSUME edges \in [Edges -> Confidence], NEW u \in Tx, NEW k \in Edges
    PROVE  u.mem[k] \in Nat /\ u.base[k] \in Nat /\ edges[k] \in Nat
<1>1. u.mem[k] \in Confidence /\ u.base[k] \in Confidence /\ edges[k] \in Confidence
  BY DEF Tx
<1> QED
  BY <1>1, ConfidenceFacts

\* A step of s that stores nothing.
LEMMA MovesAlone ==
    ASSUME Typed, AloneInv, NEW s \in Sessions, NEW p, NEW j, NEW u,
           Moves(s, p, j, u), UNCHANGED tables, overlapped' = overlapped, pc[s] # "idle",
           ~overlapped => p \in {"idle", "failed"} \/ AloneAt(p, j, u)
    PROVE  AloneInv'
<1> SUFFICES ASSUME ~overlapped PROVE AloneInv'
  BY DEF AloneInv
<1>1. /\ pc'[s] = p /\ job'[s] = j /\ tx'[s] = u
      /\ \A q \in Sessions : q # s => pc'[q] = pc[q] /\ job'[q] = job[q] /\ tx'[q] = tx[q]
  BY TypedFacts DEF Moves
<1>2. \A q \in Sessions : q # s => pc'[q] = "idle"
  BY <1>1 DEF AloneInv
<1>3. MessagesMatch'
  BY DEF AloneInv, MessagesMatch, tables
<1>4. \A q, r \in Sessions : pc'[q] # "idle" /\ pc'[r] # "idle" => q = r
  BY <1>2
<1>5. AloneAt(p, j, u) => AloneAt(pc[s], job[s], tx[s])'
  BY <1>1 DEF AloneAt, EdgesAlone, MergeAlone, PostedAlone, Seen, Has, tables
<1>6. \A q \in Sessions : pc'[q] \notin {"idle", "failed"} => AloneAt(pc[q], job[q], tx[q])'
  BY <1>1, <1>2, <1>5
<1> QED
  BY <1>3, <1>4, <1>6 DEF AloneInv

\* What a session that is alone knows.
LEMMA AloneFacts ==
    ASSUME Typed, AloneInv, NEW s \in Sessions, ~overlapped, pc[s] \notin {"idle", "failed"}
    PROVE  /\ AloneAt(pc[s], job[s], tx[s]) /\ EdgesAlone(job[s], tx[s])
           /\ MergeAlone(pc[s], job[s], tx[s]) /\ PostedAlone(pc[s], job[s], tx[s])
           /\ \A q \in Sessions : q # s => pc[q] = "idle"
           /\ tx[s] \in Tx /\ job[s] \in Job /\ edges \in [Edges -> Confidence]
           /\ FitsAt(pc[s], job[s], tx[s]) /\ job[s].node # job[s].other
BY TypedFacts DEF AloneInv, AloneAt, WellTyped

\* A statement of other work than a merge that leaves edges and messages alone.
LEMMA PlainAlone ==
    ASSUME NEW p, NEW q, NEW j, NEW t, NEW u, AloneAt(p, j, t), j.kind # "merge",
           p \notin Merging, q \in Ingesting => p \in Ingesting,
           u.base = t.base, u.mem = t.mem, u.deleted = t.deleted, u.placed = t.placed,
           u.written \cup u.dirty = t.written \cup t.dirty
    PROVE  AloneAt(q, j, u)
<1>1. EdgesAlone(j, u)
  BY DEF AloneAt, EdgesAlone
<1>2. PostedAlone(q, j, u)
  BY DEF AloneAt, PostedAlone, Has, Seen, Merging
<1> QED
  BY <1>1, <1>2 DEF AloneAt, MergeAlone

\* Observing weakens no edge, in memory or stored, and one edge is new.
LEMMA ObservedAlone ==
    ASSUME edges \in [Edges -> Confidence], NEW j, NEW t \in Tx, NEW k \in Edges,
           NEW c \in Confidence \ {0}, EdgesAlone(j, t), k \notin t.deleted
    PROVE  LET u == Observed(t, k, c) IN
           /\ EdgesAlone(j, u)
           /\ u.deleted = t.deleted /\ u.placed = t.placed /\ u.added = t.added
           /\ u.moved = t.moved
           /\ u.mem[k] >= c
           /\ \A l \in Edges : u.mem[l] >= t.mem[l]
           /\ \A l \in Edges : Has(u, l) => l = k \/ Has(t, l)
<1> DEFINE u == Observed(t, k, c)
<1>0. /\ u \in Tx /\ u.deleted = t.deleted
      /\ u.added = t.added /\ u.moved = t.moved /\ u.placed = t.placed
      /\ u.mem[k] >= c /\ u.mem[k] > 0
      /\ \A l \in Edges : l # k => u.mem[l] = t.mem[l] /\ u.base[l] = t.base[l]
      /\ t.written \cup t.dirty \cup {k} = u.written \cup u.dirty
  BY ObservedFacts
<1>1. Visible(t, k) =>
         /\ u.mem[k] >= t.mem[k]
         /\ u.base[k] = IF t.mem[k] > 0 THEN t.base[k] ELSE edges[k]
         /\ u.mem[k] = Highest(IF t.mem[k] > 0 THEN t.mem[k] ELSE edges[k], c)
  BY ObservedFacts
<1>2. ~Visible(t, k) => u.base[k] = 0 /\ u.mem[k] = c
  BY ObservedFacts
<1> HIDE DEF u
<1>3. /\ \A l \in Edges : t.mem[l] \in Nat /\ t.base[l] \in Nat /\ edges[l] \in Nat
      /\ \A l \in Edges : u.mem[l] \in Nat /\ u.base[l] \in Nat
      /\ c \in Nat /\ c > 0
  <2>1. c \in Nat /\ c # 0
    BY ConfidenceFacts
  <2> QED
    BY <1>0, <2>1, NumberFacts
<1>4. /\ t.base[k] # 0 => t.base[k] = edges[k]
      /\ t.mem[k] # 0 /\ t.base[k] = 0 => edges[k] = 0
      /\ t.mem[k] >= t.base[k]
      /\ t.mem[k] # t.base[k] => k \in t.written \cup t.dirty \cup t.deleted
  BY DEF EdgesAlone
<1>5. /\ u.base[k] # 0 => u.base[k] = edges[k]
      /\ u.mem[k] # 0 /\ u.base[k] = 0 => edges[k] = 0
      /\ u.mem[k] >= u.base[k] /\ u.mem[k] >= t.mem[k]
  <2>1. CASE Visible(t, k) /\ t.mem[k] > 0
    BY <1>1, <1>3, <1>4, <2>1
  <2>2. CASE Visible(t, k) /\ ~(t.mem[k] > 0)
    <3>1. edges[k] > 0
      BY <2>2 DEF Visible
    <3>2. u.base[k] = edges[k] /\ u.mem[k] = Highest(edges[k], c)
      BY <1>1, <2>2
    <3>3. u.mem[k] >= edges[k]
      BY <1>3, <3>2 DEF Highest
    <3> QED
      BY <1>1, <1>3, <2>2, <3>1, <3>2, <3>3
  <2>3. CASE ~Visible(t, k)
    <3>1. edges[k] = 0 /\ ~(t.base[k] = 0 /\ t.mem[k] > 0)
      BY <1>3, <2>3 DEF Visible
    <3>2. t.mem[k] = 0
      BY <1>3, <1>4, <3>1
    <3> QED
      BY <1>2, <1>3, <2>3, <3>1, <3>2
  <2> QED
    BY <2>1, <2>2, <2>3
<1>6. EdgesAlone(j, u)
  <2> SUFFICES ASSUME NEW l \in Edges
               PROVE  /\ u.base[l] # 0 => u.base[l] = edges[l]
                      /\ u.mem[l] # 0 /\ u.base[l] = 0 => edges[l] = 0
                      /\ l \notin u.deleted => u.mem[l] >= u.base[l]
                      /\ l \in u.deleted => u.mem[l] = 0 /\ j.kind = "merge" /\ j.other \in Ends(l)
                      /\ u.mem[l] # u.base[l] => l \in u.written \cup u.dirty \cup u.deleted
    BY DEF EdgesAlone
  <2>1. CASE l = k
    BY <1>0, <1>5, <2>1
  <2>2. CASE l # k
    BY <1>0, <2>2 DEF EdgesAlone
  <2> QED
    BY <2>1, <2>2
<1>7. \A l \in Edges : u.mem[l] >= t.mem[l]
  BY <1>0, <1>3, <1>5
<1>8. \A l \in Edges : Has(u, l) => l = k \/ Has(t, l)
  BY <1>0 DEF Has
<1> QED
  BY <1>0, <1>6, <1>7, <1>8 DEF u

\* Observing in other work than a merge: an edge that says where a message was
\* posted must be right.
LEMMA ObserveAlone ==
    ASSUME Typed, AloneInv, NEW s \in Sessions, pc[s] \notin {"idle", "failed"}, NEW k \in Edges,
           NEW c \in Confidence \ {0}, NEW p, Observe(s, k, c, p), UNCHANGED tables,
           overlapped' = overlapped, job[s].kind # "merge",
           p \in Ingesting => pc[s] \in Ingesting,
           ~overlapped => \A m \in Msgs, n \in Nodes : k = <<m, n>> => Seen(tx[s], m) = n
    PROVE  AloneInv'
<1> DEFINE t == tx[s]
           u == Observed(t, k, c)
<1>1. ASSUME ~overlapped PROVE AloneAt(p, job[s], u)
  <2>1. /\ EdgesAlone(job[s], t) /\ PostedAlone(pc[s], job[s], t)
        /\ t \in Tx /\ edges \in [Edges -> Confidence] /\ FitsAt(pc[s], job[s], t)
    BY <1>1, AloneFacts
  <2>2. k \notin t.deleted /\ pc[s] \notin Merging
    BY <2>1 DEF EdgesAlone, FitsAt
  <2>3. /\ EdgesAlone(job[s], u) /\ u.placed = t.placed
        /\ \A l \in Edges : Has(u, l) => l = k \/ Has(t, l)
    BY <2>1, <2>2, ObservedAlone
  <2> HIDE DEF u
  <2>4. \A m : Seen(u, m) = Seen(t, m)
    BY <2>3 DEF Seen
  <2>5. \A m \in Msgs, n \in Nodes : Has(u, <<m, n>>) => Seen(u, m) = n
    <3> SUFFICES ASSUME NEW m \in Msgs, NEW n \in Nodes, Has(u, <<m, n>>)
                 PROVE  Seen(u, m) = n
      OBVIOUS
    <3>1. <<m, n>> = k \/ Has(t, <<m, n>>)
      BY <2>3, EdgeFacts
    <3>2. Has(t, <<m, n>>) => Seen(t, m) = n
      BY <2>1, <2>2 DEF PostedAlone, Merging
    <3> QED
      BY <1>1, <2>4, <3>1, <3>2
  <2>6. p \in Ingesting /\ job[s].msg # 0 => Seen(u, job[s].msg) = job[s].node
    BY <2>1, <2>4 DEF PostedAlone
  <2> QED
    BY <2>3, <2>5, <2>6 DEF AloneAt, MergeAlone, PostedAlone
<1>2. Moves(s, "failed", job[s], t) \/ Moves(s, p, job[s], u)
  BY ObserveSteps
<1> HIDE DEF u
<1> QED
  BY <1>1, <1>2, MovesAlone

LEMMA RecordAlone ==
    ASSUME Typed, AloneInv, NEW s \in Sessions, pc[s] \notin {"idle", "failed"},
           NEW e \in Evidence, NEW p, Record(s, e, p), UNCHANGED tables,
           overlapped' = overlapped, job[s].kind # "merge",
           p \in Ingesting => pc[s] \in Ingesting
    PROVE  AloneInv'
<1> DEFINE t == tx[s]
           u == Recorded(t, e)
<1>1. ASSUME ~overlapped PROVE AloneAt(p, job[s], u) /\ AloneAt(p, job[s], t)
  <2>1. AloneAt(pc[s], job[s], t) /\ t \in Tx /\ FitsAt(pc[s], job[s], t)
    BY <1>1, AloneFacts
  <2>2. pc[s] \notin Merging
    BY <2>1 DEF FitsAt
  <2>3. /\ u.base = t.base /\ u.mem = t.mem /\ u.dirty = {}
        /\ u.written = t.written \cup t.dirty /\ u.deleted = t.deleted /\ u.placed = t.placed
    BY <2>1, RecordedFacts
  <2>4. u.written \cup u.dirty = t.written \cup t.dirty
    BY <2>3
  <2> HIDE DEF u
  <2> QED
    BY <2>1, <2>2, <2>3, <2>4, PlainAlone
<1>2. Moves(s, "failed", job[s], t) \/ Moves(s, p, job[s], t) \/ Moves(s, p, job[s], u)
  BY RecordSteps
<1> HIDE DEF u
<1> QED
  BY <1>1, <1>2, MovesAlone

\* Every message row has been inserted.
LEMMA MessageAlone ==
    ASSUME Typed, AloneInv, Unplaced, NEW s \in Sessions, Message(s), UNCHANGED tables,
           overlapped' = overlapped
    PROVE  AloneInv'
<1> DEFINE t == tx[s]
           n == job[s].node
           m0 == nextMsg + 1
           v == Placed(t, m0, n)
           j(m) == [job[s] EXCEPT !.msg = m]
<1>1. /\ pc[s] = "message"
      /\ \/ Moves(s, "failed", job[s], t)
         \/ \E m \in Posted(s, n) : Moves(s, "scan", j(m), t)
         \/ nextMsg < MaxMsgs /\ Moves(s, "scan", j(m0), v)
  BY MessageSteps
<1>2. /\ job[s] \in Job /\ t \in Tx /\ n \in Nodes /\ job[s].kind = "ingest"
      /\ nextMsg < MaxMsgs => m0 \in Msgs
  BY <1>1, TypedFacts DEF WellTyped, FitsAt, Ingesting, Msgs
<1>3. \A m : /\ j(m).kind = "ingest" /\ j(m).node = n /\ j(m).msg = m
             /\ j(m).other = job[s].other
  BY <1>2 DEF Job
<1>4. ASSUME ~overlapped, NEW m \in Posted(s, n)
      PROVE  AloneAt("scan", j(m), t)
  <2>1. EdgesAlone(job[s], t) /\ PostedAlone("message", job[s], t)
    BY <1>1, <1>4, AloneFacts
  <2>2. Seen(t, m) = n
    BY <1>4 DEF Posted, Seen
  <2> HIDE DEF t, n, j
  <2>3. EdgesAlone(j(m), t)
    BY <1>2, <1>3, <2>1 DEF EdgesAlone
  <2>4. PostedAlone("scan", j(m), t)
    BY <1>3, <2>1, <2>2 DEF PostedAlone
  <2> QED
    BY <1>3, <2>3, <2>4 DEF AloneAt, MergeAlone
<1>5. ASSUME ~overlapped, nextMsg < MaxMsgs
      PROVE  AloneAt("scan", j(m0), v)
  <2>1. EdgesAlone(job[s], t) /\ PostedAlone("message", job[s], t)
    BY <1>1, <1>5, AloneFacts
  <2>2. /\ v.base = t.base /\ v.mem = t.mem /\ v.dirty = {}
        /\ v.written = t.written \cup t.dirty /\ v.deleted = t.deleted
        /\ v.placed[m0] = n /\ \A l \in Msgs : l # m0 => v.placed[l] = t.placed[l]
    BY <1>2, <1>5, PlacedFacts
  <2>3. Seen(t, m0) = None
    BY <1>2, <1>5, TypedFacts DEF Unplaced, Seen
  <2>4. n # None
    BY <1>2, Distinct
  <2> HIDE DEF t, n, j, v, m0
  <2>5. Seen(v, m0) = n /\ \A l \in Msgs : l # m0 => Seen(v, l) = Seen(t, l)
    BY <2>2, <2>4 DEF Seen
  <2>6. EdgesAlone(j(m0), v)
    BY <1>2, <1>3, <2>1, <2>2 DEF EdgesAlone
  <2>7. ASSUME NEW m \in Msgs, NEW r \in Nodes, Has(v, <<m, r>>)
        PROVE  Seen(v, m) = r
    <3>1. Has(t, <<m, r>>)
      BY <2>2, <2>7 DEF Has
    <3>2. Seen(t, m) = r
      BY <2>1, <3>1 DEF PostedAlone
    <3> QED
      BY <2>3, <2>5, <3>2, Distinct
  <2>8. PostedAlone("scan", j(m0), v)
    BY <1>3, <2>5, <2>7 DEF PostedAlone
  <2> QED
    BY <1>3, <2>6, <2>8 DEF AloneAt, MergeAlone
<1> HIDE DEF t, n, j, v, m0
<1> QED
  BY <1>1, <1>4, <1>5, MovesAlone

\* The steps of a merge.
LEMMA MergeEdgeAlone ==
    ASSUME Typed, AloneInv, NEW s \in Sessions, NEW k \in Edges, MergeEdge(s, k),
           UNCHANGED tables, overlapped' = overlapped
    PROVE  AloneInv'
<1> DEFINE t == tx[s]
           i == Image(s, k)
           o == job[s].other
           j == [job[s] EXCEPT !.rels = @ \ {k}]
           g == Gone(t, k)
           c == t.base[k]
           u == Observed(g, i, c)
<1>1. /\ pc[s] = "mergeEdges" /\ k \in job[s].rels
      /\ \/ Moves(s, "failed", job[s], t)
         \/ i[1] = i[2] /\ Moves(s, "mergeEdges", j, g)
         \/ i[1] # i[2] /\ Moves(s, "mergeEdges", j, u)
  BY MergeEdgeSteps
<1>2. /\ t \in Tx /\ job[s] \in Job /\ edges \in [Edges -> Confidence]
      /\ FitsAt("mergeEdges", job[s], t) /\ job[s].node # o
  BY <1>1, TypedFacts DEF WellTyped
<1>3. /\ job[s].node \in Nodes /\ o \in Nodes /\ job[s].kind = "merge"
      /\ c \in Confidence \ {0} /\ t.mem[k] # 0 /\ o \in Ends(k)
  BY <1>1, <1>2 DEF FitsAt, Merging, Tx, Ends
<1>4. /\ j.node = job[s].node /\ j.other = o /\ j.kind = "merge" /\ j.rels = job[s].rels \ {k}
  <2>1. job[s] \in Job
    BY <1>2
  <2>2. j.node = job[s].node /\ j.other = o /\ j.kind = job[s].kind /\ j.rels = job[s].rels \ {k}
    BY <2>1 DEF Job
  <2> QED
    BY <1>3, <2>2
<1>5. /\ g \in Tx /\ g.base = t.base /\ g.dirty = {}
      /\ g.written = t.written \cup t.dirty \cup {k}
      /\ g.deleted = t.deleted \cup {k}
      /\ g.added = t.added /\ g.moved = t.moved /\ g.placed = t.placed
      /\ g.mem[k] = 0 /\ \A l \in Edges : l # k => g.mem[l] = t.mem[l]
  BY <1>2, GoneFacts
<1>6. ASSUME ~overlapped
      PROVE  /\ EdgesAlone(j, t) /\ MergeAlone("mergeEdges", job[s], t)
             /\ PostedAlone("mergeEdges", job[s], t)
  <2>1. /\ EdgesAlone(job[s], t) /\ MergeAlone("mergeEdges", job[s], t)
        /\ PostedAlone("mergeEdges", job[s], t)
    BY <1>1, <1>6, AloneFacts
  <2>2. EdgesAlone(j, t)
    BY <1>3, <1>4, <2>1 DEF EdgesAlone
  <2> QED
    BY <2>1, <2>2
<1>7. /\ i = <<New(job[s], k[1]), New(job[s], k[2])>> /\ o \notin Ends(i)
      /\ i[1] # i[2] => i \in Edges
  BY <1>2, <1>3, ImageFacts DEF Image, Repointed, New, Ends
<1>8. t.mem[k] > 0 /\ Has(t, k)
  BY <1>2, <1>3, NumberFacts DEF Has
\* What it takes for w to be what the step leaves.
<1>9. ASSUME ~overlapped, NEW w, EdgesAlone(j, w), w.added = t.added, w.placed = t.placed,
             \A l \in Edges : Has(w, l) => (l = i /\ i[1] # i[2]) \/ (Has(t, l) /\ l # k),
             \A l \in Edges : o \notin Ends(l) => w.mem[l] >= t.mem[l],
             \A l \in Edges : w.mem[l] \in Nat,
             i[1] = i[2] \/ w.mem[i] >= c
      PROVE  AloneAt("mergeEdges", j, w)
  <2> HIDE DEF t, i, j, o, c
  <2>1. \A m : Seen(w, m) = Seen(t, m)
    BY <1>9 DEF Seen
  <2>2. \A l \in Edges : o \in Ends(l) /\ Has(w, l) => l \in j.rels
    BY <1>3, <1>4, <1>6, <1>7, <1>9 DEF MergeAlone, o
  <2>3. ASSUME NEW l \in Edges, edges[l] > 0, o \in Ends(l), l \notin j.rels
        PROVE  LET i1 == <<New(j, l[1]), New(j, l[2])>>
               IN  i1[1] = i1[2] \/ w.mem[i1] >= edges[l]
    <3> DEFINE i1 == <<New(j, l[1]), New(j, l[2])>>
    <3>0. i1 = <<New(job[s], l[1]), New(job[s], l[2])>>
      BY <1>4 DEF New, o
    <3>1. CASE l = k
      <4>1. c = edges[k]
        BY <1>3, <1>6, <1>9 DEF EdgesAlone, c
      <4> QED
        BY <1>7, <1>9, <3>0, <3>1, <4>1
    <3>2. CASE l # k
      <4>1. l \notin job[s].rels
        BY <1>4, <2>3, <3>2
      <4>2. i1[1] = i1[2] \/ t.mem[i1] >= edges[l]
        BY <1>3, <1>6, <1>9, <2>3, <3>0, <4>1 DEF MergeAlone, o
      <4>3. /\ i1 = Image(s, l) /\ o \notin Ends(i1)
            /\ i1[1] # i1[2] => i1 \in Edges
        BY <1>2, <1>3, <3>0, ImageFacts DEF Image, Repointed, New, Ends, o
      <4> HIDE DEF i1
      <4>4. i1 \in Edges => w.mem[i1] >= t.mem[i1] /\ t.mem[i1] \in Nat
        BY <1>2, <1>9, <4>3, NumberFacts
      <4>5. edges[l] \in Nat
        BY <1>2, NumberFacts
      <4> QED
        BY <1>9, <4>2, <4>3, <4>4, <4>5 DEF i1
    <3> QED
      BY <3>1, <3>2
  <2>4. MergeAlone("mergeEdges", j, w)
    <3>1. w.added = {}
      BY <1>3, <1>6, <1>9 DEF MergeAlone
    <3> QED
      BY <1>4, <2>2, <2>3, <3>1 DEF MergeAlone
  <2>5. ASSUME NEW m \in Msgs, NEW n \in Nodes, Has(w, <<m, n>>)
        PROVE  Seen(w, m) = n \/ (n = j.node /\ Seen(w, m) = j.other)
    <3>1. CASE Has(t, <<m, n>>)
      BY <1>4, <1>6, <1>9, <2>1, <3>1 DEF PostedAlone, o
    <3>2. CASE <<m, n>> = i
      <4>1. /\ k = <<k[1], k[2]>> /\ k[1] = m /\ k[2] = o /\ n = job[s].node
        <5>1. i[1] = m /\ i[2] = n
          BY <3>2
        <5>2. /\ k = <<k[1], k[2]>> /\ m \notin Nodes
              /\ k[1] = o \/ k[2] = o
          BY <1>3, EdgeKinds, Distinct DEF Ends
        <5>3. i[1] = New(job[s], k[1]) /\ i[2] = New(job[s], k[2])
          BY <1>7
        <5>4. k[1] = m
          BY <1>3, <5>1, <5>2, <5>3 DEF New, o
        <5>5. k[2] = o /\ n = job[s].node
          BY <1>3, <5>1, <5>2, <5>3, <5>4 DEF New, o
        <5> QED
          BY <5>2, <5>4, <5>5
      <4>2. Has(t, <<m, o>>)
        BY <1>8, <4>1
      <4>3. Seen(t, m) = o
        BY <1>2, <1>3, <1>6, <1>9, <4>2 DEF PostedAlone, o
      <4>4. Seen(w, m) = o
        BY <2>1, <4>3
      <4>5. j.node = job[s].node /\ j.other = o /\ n = job[s].node
        BY <1>4, <4>1
      <4> QED
        BY <4>4, <4>5
    <3>3. Has(t, <<m, n>>) \/ <<m, n>> = i
      BY <1>9, <2>5, EdgeFacts
    <3> QED
      BY <3>1, <3>2, <3>3
  <2>6. PostedAlone("mergeEdges", j, w)
    BY <2>5 DEF PostedAlone, Ingesting
  <2> QED
    BY <1>9, <2>4, <2>6 DEF AloneAt
<1>10. ASSUME ~overlapped PROVE EdgesAlone(j, g)
  <2> HIDE DEF g, t, j, o
  <2> SUFFICES ASSUME NEW l \in Edges
               PROVE  /\ g.base[l] # 0 => g.base[l] = edges[l]
                      /\ g.mem[l] # 0 /\ g.base[l] = 0 => edges[l] = 0
                      /\ l \notin g.deleted => g.mem[l] >= g.base[l]
                      /\ l \in g.deleted => g.mem[l] = 0 /\ j.kind = "merge" /\ j.other \in Ends(l)
                      /\ g.mem[l] # g.base[l] => l \in g.written \cup g.dirty \cup g.deleted
    BY DEF EdgesAlone
  <2>1. CASE l = k
    BY <1>3, <1>4, <1>5, <1>6, <1>10, <2>1 DEF EdgesAlone, o
  <2>2. CASE l # k
    BY <1>5, <1>6, <1>10, <2>2 DEF EdgesAlone
  <2> QED
    BY <2>1, <2>2
<1>11. ASSUME ~overlapped, i[1] = i[2]
       PROVE  AloneAt("mergeEdges", j, g)
  <2> HIDE DEF g, t, j, o, i
  <2>1. \A l \in Edges : Has(g, l) => Has(t, l) /\ l # k
    BY <1>5 DEF Has
  <2>2. \A l \in Edges : /\ g.mem[l] \in Nat /\ t.mem[l] \in Nat
                         /\ o \notin Ends(l) => g.mem[l] >= t.mem[l]
    BY <1>2, <1>3, <1>5, NumberFacts
  <2> QED
    BY <1>5, <1>9, <1>10, <1>11, <2>1, <2>2
<1>12. ASSUME ~overlapped, i[1] # i[2]
       PROVE  AloneAt("mergeEdges", j, u)
  <2>1. i \in Edges /\ i \notin g.deleted
    <3>1. \A l \in t.deleted : l \in Edges => o \in Ends(l)
      BY <1>4, <1>6, <1>12 DEF EdgesAlone
    <3> QED
      BY <1>3, <1>5, <1>7, <1>12, <3>1
  <2> HIDE DEF g, t, j, o, i, c
  <2>2. EdgesAlone(j, g)
    BY <1>10, <1>12
  <2>3. /\ EdgesAlone(j, u)
        /\ u.deleted = g.deleted /\ u.placed = g.placed /\ u.added = g.added
        /\ u.mem[i] >= c
        /\ \A l \in Edges : u.mem[l] >= g.mem[l]
        /\ \A l \in Edges : Has(u, l) => l = i \/ Has(g, l)
    BY <1>2, <1>3, <1>5, <2>1, <2>2, ObservedAlone
  <2>4. u \in Tx
    BY <1>2, <1>3, <1>5, <2>1, ObservedFacts
  <2> HIDE DEF u
  <2>5. \A l \in Edges : Has(u, l) => (l = i /\ i[1] # i[2]) \/ (Has(t, l) /\ l # k)
    BY <1>5, <1>12, <2>3 DEF Has
  <2>6. \A l \in Edges : /\ u.mem[l] \in Nat
                         /\ o \notin Ends(l) => u.mem[l] >= t.mem[l]
    BY <1>2, <1>3, <1>5, <2>3, <2>4, NumberFacts
  <2> QED
    BY <1>5, <1>9, <1>12, <2>3, <2>5, <2>6
<1>13. pc[s] # "idle"
  BY <1>1
<1> HIDE DEF g, t, j, u, i
<1> QED
  BY <1>1, <1>11, <1>12, <1>13, MovesAlone

LEMMA MergeDoneAlone ==
    ASSUME Typed, AloneInv, NEW s \in Sessions, MergeEdgesDone(s), UNCHANGED tables,
           overlapped' = overlapped
    PROVE  AloneInv'
<1>1. /\ pc[s] = "mergeEdges" /\ job[s].rels = {}
      /\ Moves(s, "mergeMessages", job[s], tx[s])
  BY TypedFacts DEF MergeEdgesDone, Moves, Goto
<1>2. ASSUME ~overlapped PROVE AloneAt("mergeMessages", job[s], tx[s])
  <2>1. AloneAt("mergeEdges", job[s], tx[s])
    BY <1>1, <1>2, AloneFacts
  <2> QED
    BY <1>1, <2>1 DEF AloneAt, MergeAlone, PostedAlone, Ingesting
<1> QED
  BY <1>1, <1>2, MovesAlone

LEMMA MergeMessagesAlone ==
    ASSUME Typed, AloneInv, NEW s \in Sessions, MergeMessages(s), UNCHANGED tables,
           overlapped' = overlapped
    PROVE  AloneInv'
<1> DEFINE t == tx[s]
           n == job[s].node
           o == job[s].other
           v == [t EXCEPT !.placed = [m \in Msgs |-> IF m \in Posted(s, o) THEN n
                                                     ELSE t.placed[m]]]
<1>1. /\ pc[s] = "mergeMessages"
      /\ \/ Moves(s, "failed", job[s], t)
         \/ Posted(s, o) = {} /\ Moves(s, "mergeRows", job[s], t)
         \/ Moves(s, "mergeRows", job[s], v)
  BY MergeMessagesSteps
<1>2. /\ job[s].kind = "merge" /\ n \in Nodes /\ o \in Nodes /\ n # o /\ t \in Tx
  BY <1>1, TypedFacts DEF WellTyped, FitsAt, Merging
<1>3. \A m \in Msgs : m \in Posted(s, o) <=> Seen(t, m) = o
  BY DEF Posted, Seen
<1>4. ASSUME ~overlapped
      PROVE  /\ EdgesAlone(job[s], t) /\ MergeAlone("mergeMessages", job[s], t)
             /\ PostedAlone("mergeMessages", job[s], t)
  BY <1>1, <1>4, AloneFacts
<1>5. ASSUME ~overlapped, NEW m \in Msgs PROVE ~Has(t, <<m, o>>)
  <2>1. <<m, o>> \in Edges /\ o \in Ends(<<m, o>>)
    BY <1>2, EdgeFacts DEF Ends
  <2> QED
    BY <1>2, <1>4, <1>5, <2>1 DEF MergeAlone
\* What it takes for w to be what the step leaves.
<1>6. ASSUME ~overlapped, NEW w, w.base = t.base, w.mem = t.mem, w.deleted = t.deleted,
             w.written = t.written, w.dirty = t.dirty, w.added = t.added,
             \A m \in Msgs : Seen(w, m) = IF Seen(t, m) = o THEN n ELSE Seen(t, m)
      PROVE  AloneAt("mergeRows", job[s], w)
  <2> HIDE DEF t
  <2>1. EdgesAlone(job[s], w)
    BY <1>4, <1>6 DEF EdgesAlone
  <2>2. MergeAlone("mergeRows", job[s], w)
    BY <1>2, <1>4, <1>6 DEF MergeAlone, Has
  <2>3. ASSUME NEW m \in Msgs, NEW r \in Nodes, Has(w, <<m, r>>)
        PROVE  Seen(w, m) = r
    <3>1. Has(t, <<m, r>>)
      BY <1>6, <2>3 DEF Has
    <3>2. r # o
      BY <1>5, <1>6, <3>1
    <3>3. Seen(t, m) = r \/ (r = n /\ Seen(t, m) = o)
      BY <1>4, <1>6, <3>1 DEF PostedAlone
    <3> QED
      BY <1>6, <3>2, <3>3
  <2>4. PostedAlone("mergeRows", job[s], w)
    BY <2>3 DEF PostedAlone, Ingesting
  <2> QED
    BY <2>1, <2>2, <2>4 DEF AloneAt
<1>7. ASSUME ~overlapped, Posted(s, o) = {} PROVE AloneAt("mergeRows", job[s], t)
  <2>1. \A m \in Msgs : Seen(t, m) = IF Seen(t, m) = o THEN n ELSE Seen(t, m)
    BY <1>3, <1>7
  <2> QED
    BY <1>6, <1>7, <2>1
<1>8. ASSUME ~overlapped PROVE AloneAt("mergeRows", job[s], v)
  <2>1. /\ v.base = t.base /\ v.mem = t.mem /\ v.deleted = t.deleted
        /\ v.written = t.written /\ v.dirty = t.dirty /\ v.added = t.added
        /\ v.placed = [m \in Msgs |-> IF m \in Posted(s, o) THEN n ELSE t.placed[m]]
    BY <1>2 DEF Tx
  <2> HIDE DEF v, t
  <2>2. n # None
    BY <1>2, Distinct
  <2>3. ASSUME NEW m \in Msgs
        PROVE  Seen(v, m) = IF Seen(t, m) = o THEN n ELSE Seen(t, m)
    <3>1. v.placed[m] = IF Seen(t, m) = o THEN n ELSE t.placed[m]
      BY <1>3, <2>1
    <3> QED
      BY <2>2, <3>1 DEF Seen
  <2> QED
    BY <1>6, <1>8, <2>1, <2>3
<1> HIDE DEF v
<1> QED
  BY <1>1, <1>7, <1>8, MovesAlone

LEMMA MergeRowsAlone ==
    ASSUME Typed, AloneInv, NEW s \in Sessions, MergeRows(s), UNCHANGED tables,
           overlapped' = overlapped
    PROVE  AloneInv'
<1>1. pc[s] = "mergeRows" /\ Moves(s, "mergeEvidence", job[s], tx[s])
  BY MergeRowsSteps
<1>2. ASSUME ~overlapped PROVE AloneAt("mergeEvidence", job[s], tx[s])
  <2>1. AloneAt("mergeRows", job[s], tx[s])
    BY <1>1, <1>2, AloneFacts
  <2> QED
    BY <2>1 DEF AloneAt, MergeAlone, PostedAlone, Ingesting
<1> QED
  BY <1>1, <1>2, MovesAlone

LEMMA MergeEvidenceAlone ==
    ASSUME Typed, HeldInv, AloneInv, NEW s \in Sessions, MergeEvidence(s), UNCHANGED tables,
           overlapped' = overlapped
    PROVE  AloneInv'
<1> DEFINE t == tx[s]
           u == MovedOn(s)
<1>1. /\ pc[s] = "mergeEvidence"
      /\ Moves(s, "failed", job[s], t) \/ Moves(s, "done", job[s], u)
  BY MergeEvidenceSteps
<1>2. /\ job[s].kind = "merge" /\ job[s].node \in Nodes /\ job[s].other \in Nodes
      /\ job[s].node # job[s].other
  BY <1>1, TypedFacts DEF WellTyped, FitsAt, Merging
<1>3. /\ u.base = t.base /\ u.mem = t.mem /\ u.dirty = {}
      /\ u.written = t.written \cup t.dirty /\ u.deleted = t.deleted
      /\ u.added = t.added \cup Keys(s) /\ u.moved = Away(s) /\ u.placed = t.placed
  BY <1>2, MovedFacts
<1>4. \A e \in Keys(s) : e[1] = job[s].node
  BY DEF Keys, MovedTo
<1>5. ASSUME ~overlapped PROVE \A e \in evidence : e[1] = job[s].other => e \in Away(s)
  <2>1. \A e \in evidence : e[1] = job[s].other => e \in held[s]
    BY <1>1, <1>5, HeldFacts DEF HeldAt
  <2> QED
    BY <1>2, <2>1 DEF Away
<1>6. ASSUME ~overlapped PROVE AloneAt("done", job[s], u)
  <2>1. /\ EdgesAlone(job[s], t) /\ MergeAlone("mergeEvidence", job[s], t)
        /\ PostedAlone("mergeEvidence", job[s], t)
    BY <1>1, <1>6, AloneFacts
  <2>2. \A e \in evidence : e[1] = job[s].other => e \in Away(s)
    BY <1>5, <1>6
  <2> HIDE DEF u, t
  <2>3. EdgesAlone(job[s], u)
    BY <1>3, <2>1 DEF EdgesAlone
  <2>4. \A m : Seen(u, m) = Seen(t, m)
    BY <1>3 DEF Seen
  <2>5. \A k : Has(u, k) <=> Has(t, k)
    BY <1>3 DEF Has
  <2>6. u.added = Keys(s)
    BY <1>2, <1>3, <2>1 DEF MergeAlone
  <2>7. MergeAlone("done", job[s], u)
    BY <1>2, <1>3, <1>4, <2>1, <2>2, <2>4, <2>5, <2>6 DEF MergeAlone
  <2>8. PostedAlone("done", job[s], u)
    BY <2>1, <2>4, <2>5 DEF PostedAlone, Ingesting
  <2> QED
    BY <2>3, <2>7, <2>8 DEF AloneAt
<1> HIDE DEF u
<1> QED
  BY <1>1, <1>6, MovesAlone

LEMMA StatementAlone ==
    ASSUME Typed, HeldInv, AloneInv, Unplaced, NEW s \in Sessions, Statement(s)
    PROVE  AloneInv'
<1>0. /\ WellTyped(pc[s], job[s], tx[s]) /\ FitsAt(pc[s], job[s], tx[s])
      /\ job[s] \in Job
      /\ pc[s] # "idle" => job[s].node \in Nodes /\ job[s].node # job[s].other
      /\ UNCHANGED tables /\ overlapped' = overlapped
  BY TypedFacts DEF WellTyped, FitsAt, Statement
<1>1. CASE BlurbEvidence(s)
  <2>1. pc[s] = "blurbEvidence" /\ job[s].kind # "merge"
    BY <1>0, <1>1 DEF BlurbEvidence, FitsAt, Ingesting
  <2> QED
    BY <1>0, <1>1, <2>1, EdgeFacts, RecordAlone DEF BlurbEvidence, Ingesting
<1>2. CASE BlurbEdge(s)
  <2>1. /\ pc[s] = "blurbEdge" /\ job[s].kind # "merge" /\ job[s].node \in Nodes
        /\ <<job[s].node, Ioc>> \in Edges /\ Weak \in Confidence \ {0}
    BY <1>0, <1>2, EdgeFacts DEF BlurbEdge, FitsAt, Ingesting
  <2>2. \A m \in Msgs, n \in Nodes : <<job[s].node, Ioc>> # <<m, n>>
    BY Distinct
  <2> QED
    BY <1>0, <1>2, <2>1, <2>2, ObserveAlone DEF BlurbEdge, Ingesting
<1>3. CASE Message(s)
  BY <1>0, <1>3, MessageAlone
<1>4. CASE Scan(s)
  <2>1. pc[s] = "scan" /\ job[s].kind # "merge" /\ Moves(s, "matchEvidence", job[s], tx[s])
    BY <1>0, <1>4, TypedFacts DEF Scan, Moves, Goto, FitsAt, Ingesting
  <2>2. ~overlapped => AloneAt("matchEvidence", job[s], tx[s])
    BY <2>1, AloneFacts, PlainAlone DEF Merging, Ingesting
  <2> QED
    BY <1>0, <2>1, <2>2, MovesAlone
<1>5. CASE MatchEvidence(s)
  <2>1. pc[s] = "matchEvidence" /\ job[s].kind # "merge"
    BY <1>0, <1>5 DEF MatchEvidence, FitsAt, Ingesting
  <2> QED
    BY <1>0, <1>5, <2>1, EdgeFacts, RecordAlone DEF MatchEvidence, Ingesting
<1>6. CASE MatchEdge(s)
  <2>1. /\ pc[s] = "matchEdge" /\ job[s].kind # "merge" /\ job[s].msg \in Msgs
        /\ <<job[s].msg, Ioc>> \in Edges /\ Weak \in Confidence \ {0}
    BY <1>0, <1>6, EdgeFacts DEF MatchEdge, FitsAt, Ingesting
  <2>2. \A m \in Msgs, n \in Nodes : <<job[s].msg, Ioc>> # <<m, n>>
    BY Distinct
  <2> QED
    BY <1>0, <1>6, <2>1, <2>2, ObserveAlone DEF MatchEdge, Ingesting
<1>7. CASE Draft(s)
  <2>1. /\ pc[s] = "draft" /\ job[s].kind # "merge"
        /\ <<job[s].node, job[s].seen>> \in Evidence
    BY <1>0, <1>7, EdgeFacts DEF Draft, FitsAt, Ingesting
  <2> QED
    BY <1>0, <1>7, <2>1, RecordAlone DEF Draft, Ingesting
<1>8. CASE ContainerEdge(s)
  <2>1. pc[s] = "containerEdge" /\ job[s].kind # "merge" /\ job[s].node \in Nodes
    BY <1>0, <1>8 DEF ContainerEdge, FitsAt, Ingesting
  <2>2. CASE job[s].msg = 0
    <3>1. Moves(s, "done", job[s], tx[s])
      BY <1>8, <2>2, TypedFacts DEF ContainerEdge, Moves, Goto
    <3>2. ~overlapped => AloneAt("done", job[s], tx[s])
      BY <2>1, AloneFacts, PlainAlone DEF Merging, Ingesting
    <3> QED
      BY <1>0, <2>1, <3>1, <3>2, MovesAlone
  <2>3. CASE job[s].msg # 0
    <3>1. job[s].msg \in Msgs
      BY <1>0, <2>3, TypedFacts DEF Job, Msgs
    <3>2. <<job[s].msg, job[s].node>> \in Edges /\ Strong \in Confidence \ {0}
      BY <2>1, <3>1, EdgeFacts
    <3>3. Observe(s, <<job[s].msg, job[s].node>>, Strong, "done")
      BY <1>8, <2>3 DEF ContainerEdge
    <3>4. ~overlapped => Seen(tx[s], job[s].msg) = job[s].node
      BY <2>1, <2>3, AloneFacts DEF PostedAlone, Ingesting
    <3>5. ~overlapped => \A m \in Msgs, n \in Nodes :
             <<job[s].msg, job[s].node>> = <<m, n>> => Seen(tx[s], m) = n
      BY <3>4
    <3> QED
      BY <1>0, <2>1, <3>2, <3>3, <3>5, ObserveAlone DEF Ingesting
  <2> QED
    BY <2>2, <2>3
<1>9. CASE LinkEdge(s)
  <2>1. /\ pc[s] = "linkEdge" /\ job[s].kind # "merge" /\ job[s].conf \in Confidence \ {0}
        /\ <<Target, job[s].node>> \in Edges
    BY <1>0, <1>9, EdgeFacts DEF LinkEdge, FitsAt
  <2>2. \A m \in Msgs, n \in Nodes : <<Target, job[s].node>> # <<m, n>>
    BY Distinct
  <2> QED
    BY <1>0, <1>9, <2>1, <2>2, ObserveAlone DEF LinkEdge, Ingesting
<1>10. CASE LinkEvidence(s)
  <2>1. /\ pc[s] = "linkEvidence" /\ job[s].kind # "merge"
        /\ <<Target, job[s].node>> \in Evidence
    BY <1>0, <1>10, EdgeFacts DEF LinkEvidence, FitsAt
  <2> QED
    BY <1>0, <1>10, <2>1, RecordAlone DEF LinkEvidence, Ingesting
<1>11. CASE Correlation(s)
  <2>1. /\ pc[s] = "correlation" /\ job[s].kind # "merge"
        /\ <<job[s].node, "correlation">> \in Evidence
    BY <1>0, <1>11, EdgeFacts DEF Correlation, FitsAt
  <2> QED
    BY <1>0, <1>11, <2>1, RecordAlone DEF Correlation, Ingesting
<1>12. CASE SameEdge(s)
  <2>0. /\ pc[s] = "sameEdge" /\ job[s].kind # "merge" /\ job[s].conf \in {Weak, Strong}
        /\ job[s].node \in Nodes /\ job[s].other \in Nodes /\ job[s].node # job[s].other
    BY <1>0, <1>12 DEF SameEdge, FitsAt
  <2>1. /\ pc[s] = "sameEdge" /\ job[s].kind # "merge" /\ job[s].conf \in Confidence \ {0}
        /\ job[s].node \in Nodes /\ <<job[s].node, job[s].other>> \in Edges
    BY <2>0, EdgeFacts
  <2>2. \A m \in Msgs, n \in Nodes : <<job[s].node, job[s].other>> # <<m, n>>
    BY <2>1, Distinct
  <2> QED
    BY <1>0, <1>12, <2>1, <2>2, ObserveAlone DEF SameEdge, Ingesting
<1>13. CASE MergeEdgesDone(s) \/ MergeMessages(s) \/ MergeRows(s) \/ MergeEvidence(s)
  BY <1>0, <1>13, MergeDoneAlone, MergeMessagesAlone, MergeRowsAlone, MergeEvidenceAlone
<1>14. ASSUME NEW k \in Edges, MergeEdge(s, k)
       PROVE  AloneInv'
  BY <1>0, <1>14, MergeEdgeAlone
<1> QED
  BY <1>1, <1>2, <1>3, <1>4, <1>5, <1>6, <1>7, <1>8, <1>9, <1>10, <1>11, <1>12, <1>13,
     <1>14 DEF Statement

LEMMA RaiseAlone ==
    ASSUME Typed, AloneInv, NEW s \in Sessions, Raise(s)
    PROVE  AloneInv'
<1> DEFINE p == OnRaise(pc[s])
<1>1. /\ pc[s] \notin {"idle", "done", "failed"} /\ Moves(s, p, job[s], tx[s])
      /\ UNCHANGED tables /\ overlapped' = overlapped
  BY TypedFacts DEF Raise, Moves, Goto
<1>2. p = "failed" \/ (pc[s] \in Ingesting /\ p \in {"draft", "containerEdge", "done"})
  BY DEF OnRaise, Ingesting
<1>3. pc[s] \in Ingesting => job[s].kind # "merge" /\ pc[s] \notin Merging
  BY <1>1, TypedFacts DEF WellTyped, FitsAt, Ingesting, Merging
<1> HIDE DEF p
<1>4. ~overlapped => p = "failed" \/ AloneAt(p, job[s], tx[s])
  BY <1>1, <1>2, <1>3, AloneFacts, PlainAlone
<1> QED
  BY <1>1, <1>4, MovesAlone

\* s is idle again, and so is everybody else.
LEMMA ClosesAlone ==
    ASSUME Typed, AloneInv, NEW s \in Sessions, pc[s] # "idle", Moves(s, "idle", NoJob, NoTx),
           overlapped' = overlapped, ~overlapped => MessagesMatch'
    PROVE  AloneInv'
<1> SUFFICES ASSUME ~overlapped PROVE AloneInv'
  BY DEF AloneInv
<1>1. pc'[s] = "idle" /\ \A q \in Sessions : q # s => pc'[q] = pc[q]
  BY TypedFacts DEF Moves
<1>2. \A q \in Sessions : pc'[q] = "idle"
  BY <1>1 DEF AloneInv
<1> QED
  BY <1>2 DEF AloneInv

LEMMA RollbackAlone ==
    ASSUME Typed, AloneInv, NEW s \in Sessions, Rollback(s)
    PROVE  AloneInv'
<1>1. /\ pc[s] # "idle" /\ Moves(s, "idle", NoJob, NoTx) /\ overlapped' = overlapped
      /\ UNCHANGED tables
  BY CloseSteps DEF Rollback
<1>2. ~overlapped => MessagesMatch'
  BY <1>1 DEF AloneInv, MessagesMatch, tables
<1> QED
  BY <1>1, <1>2, ClosesAlone

\* What a session that is alone stores is what it has seen.
LEMMA StoredAlone ==
    ASSUME edges \in [Edges -> Confidence], NEW j, NEW t \in Tx, NEW k \in Edges,
           EdgesAlone(j, t)
    PROVE  /\ Stored(t, k) > 0 => Has(t, k)
           /\ k \notin t.deleted => Stored(t, k) >= edges[k] /\ Stored(t, k) >= t.mem[k]
           /\ Stored(t, k) \in Nat
<1>1. t.mem[k] \in Nat /\ t.base[k] \in Nat /\ edges[k] \in Nat
  BY NumberFacts
<1>2. /\ t.base[k] # 0 => t.base[k] = edges[k]
      /\ t.mem[k] # 0 /\ t.base[k] = 0 => edges[k] = 0
      /\ k \notin t.deleted => t.mem[k] >= t.base[k]
      /\ t.mem[k] # t.base[k] => k \in t.written \cup t.dirty \cup t.deleted
  BY DEF EdgesAlone
<1> DEFINE x == Stored(t, k)
<1>3. CASE k \in t.deleted
  <2>1. x = 0
    BY <1>3 DEF Stored
  <2> QED
    BY <1>3, <2>1
<1>4. CASE k \notin t.deleted /\ t.mem[k] # t.base[k]
  <2>1. x = t.mem[k]
    BY <1>2, <1>4 DEF Stored
  <2>2. t.mem[k] >= edges[k] /\ (t.mem[k] > 0 => Has(t, k))
    BY <1>1, <1>2, <1>4 DEF Has
  <2> HIDE DEF x
  <2> QED
    BY <1>1, <1>4, <2>1, <2>2 DEF x
<1>5. CASE k \notin t.deleted /\ t.mem[k] = t.base[k]
  <2>1. x = edges[k]
    BY <1>5 DEF Stored
  <2>2. edges[k] >= t.mem[k] /\ (edges[k] > 0 => Has(t, k))
    BY <1>1, <1>2, <1>5 DEF Has
  <2> HIDE DEF x
  <2> QED
    BY <1>1, <1>5, <2>1, <2>2 DEF x
<1> QED
  BY <1>3, <1>4, <1>5

LEMMA CommitSteps ==
    ASSUME Typed, AloneInv, NEW s \in Sessions, Commit(s), ~overlapped
    PROVE  /\ pc[s] = "done" /\ AloneAt("done", job[s], tx[s])
           /\ tx[s] \in Tx /\ edges \in [Edges -> Confidence]
           /\ \A k \in Edges : edges'[k] = Stored(tx[s], k)
           /\ \A m \in Msgs : container'[m] = Seen(tx[s], m)
           /\ evidence' = (evidence \ tx[s].moved) \cup tx[s].added
<1>1. pc[s] = "done"
  BY DEF Commit
<1>2. /\ AloneAt("done", job[s], tx[s]) /\ tx[s] \in Tx /\ edges \in [Edges -> Confidence]
  BY <1>1, AloneFacts
<1>3. /\ \A k \in Edges : edges'[k] = Stored(tx[s], k)
      /\ \A m \in Msgs : container'[m] = Seen(tx[s], m)
      /\ evidence' = (evidence \ tx[s].moved) \cup tx[s].added
  BY DEF Commit, Seen
<1> QED
  BY <1>1, <1>2, <1>3

LEMMA CommitAlone ==
    ASSUME Typed, AloneInv, NEW s \in Sessions, Commit(s)
    PROVE  AloneInv'
<1>1. pc[s] # "idle" /\ Moves(s, "idle", NoJob, NoTx) /\ overlapped' = overlapped
  BY CloseSteps DEF Commit
<1>2. ASSUME ~overlapped, NEW m \in Msgs, NEW n \in Nodes, edges'[<<m, n>>] > 0
      PROVE  container'[m] = n
  <2>1. /\ EdgesAlone(job[s], tx[s]) /\ PostedAlone("done", job[s], tx[s])
        /\ tx[s] \in Tx /\ edges \in [Edges -> Confidence]
        /\ edges'[<<m, n>>] = Stored(tx[s], <<m, n>>)
        /\ container'[m] = Seen(tx[s], m)
    BY <1>2, CommitSteps, EdgeFacts DEF AloneAt
  <2>2. Has(tx[s], <<m, n>>)
    BY <1>2, <2>1, StoredAlone, EdgeFacts
  <2> QED
    BY <2>1, <2>2 DEF PostedAlone
<1>3. ~overlapped => MessagesMatch'
  BY <1>1, <1>2 DEF MessagesMatch
<1> QED
  BY <1>1, <1>3, ClosesAlone

\* A unit of work that starts alone.
LEMMA StartsAlone ==
    ASSUME Typed, AloneInv, NEW s \in Sessions, NEW p, NEW j, NEW u, Starts(s, p, j, u),
           ~overlapped => AloneAt(p, j, u)
    PROVE  AloneInv'
<1> SUFFICES ASSUME ~overlapped' PROVE AloneInv'
  BY DEF AloneInv
<1>1. ~overlapped /\ \A q \in Sessions : q # s => pc[q] = "idle"
  BY DEF Starts, Others
<1>2. /\ pc'[s] = p /\ job'[s] = j /\ tx'[s] = u
      /\ \A q \in Sessions : q # s => pc'[q] = "idle"
      /\ UNCHANGED tables
  BY <1>1, TypedFacts DEF Starts, Moves, tables
<1>3. MessagesMatch'
  BY <1>1, <1>2 DEF AloneInv, MessagesMatch, tables
<1>4. AloneAt(pc[s], job[s], tx[s])'
  <2>1. AloneAt(p, j, u)
    BY <1>1
  <2> QED
    BY <1>2, <2>1 DEF AloneAt, EdgesAlone, MergeAlone, PostedAlone, Seen, Has, tables
<1>5. \A q \in Sessions : pc'[q] \notin {"idle", "failed"} => AloneAt(pc[q], job[q], tx[q])'
  BY <1>2, <1>4
<1> QED
  BY <1>2, <1>3, <1>5 DEF AloneInv

\* Other work than a merge starts from what is committed, or goes on.
LEMMA PlainStart ==
    ASSUME Typed, AloneInv, ~overlapped, NEW s \in Sessions, pc[s] \in {"idle", "done"},
           job[s].kind # "merge", NEW p, NEW j, j.kind # "merge", j.msg = 0
    PROVE  AloneAt(p, j, tx[s])
<1> DEFINE t == tx[s]
<1>1. CASE pc[s] = "idle"
  <2>1. t = NoTx /\ edges \in [Edges -> Confidence]
    BY <1>1, TypedFacts DEF WellTyped, FitsAt
  <2>2. /\ \A k \in Edges : t.base[k] = 0 /\ t.mem[k] = 0
        /\ t.dirty = {} /\ t.written = {} /\ t.deleted = {}
        /\ \A m \in Msgs : t.placed[m] = None
    BY <2>1, NoTxFacts DEF NoEdges, Nowhere
  <2>3. MessagesMatch
    BY DEF AloneInv
  <2> HIDE DEF t
  <2>4. EdgesAlone(j, t)
    BY <2>2 DEF EdgesAlone
  <2>5. PostedAlone(p, j, t)
    <3>0. \A k \in Edges : Has(t, k) => edges[k] > 0
      BY <2>2 DEF Has
    <3>1. \A m \in Msgs, n \in Nodes : Has(t, <<m, n>>) => edges[<<m, n>>] > 0
      BY <3>0, EdgeFacts
    <3>2. \A m \in Msgs : Seen(t, m) = container[m]
      BY <2>2 DEF Seen
    <3> QED
      BY <2>3, <3>1, <3>2 DEF PostedAlone, MessagesMatch
  <2> QED
    BY <2>4, <2>5 DEF AloneAt, MergeAlone, t
<1>2. CASE pc[s] = "done"
  <2>1. EdgesAlone(job[s], t) /\ PostedAlone("done", job[s], t)
    BY <1>2, AloneFacts
  <2> HIDE DEF t
  <2>2. EdgesAlone(j, t)
    BY <2>1 DEF EdgesAlone
  <2>3. PostedAlone(p, j, t)
    BY <2>1 DEF PostedAlone
  <2> QED
    BY <2>2, <2>3 DEF AloneAt, MergeAlone, t
<1> QED
  BY <1>1, <1>2

LEMMA StartAlone ==
    ASSUME Typed, AloneInv, NEW s \in Sessions,
           \/ \E n \in Nodes : \/ \E o \in Contents : Ingest(s, n, o)
                               \/ \E c \in {Weak, Strong} : Link(s, n, c)
           \/ \E n, o \in Nodes : \/ \E c \in {Weak, Strong} : Correlate(s, n, o, c)
                                  \/ Merge(s, n, o)
    PROVE  AloneInv'
<1>1. ASSUME NEW n \in Nodes, NEW o \in Contents, Ingest(s, n, o)
      PROVE  AloneInv'
  <2> DEFINE j == NewIngest(n, o)
  <2>1. /\ pc[s] \in {"idle", "done"} /\ job[s].kind # "merge"
        /\ Starts(s, "blurbEvidence", j, tx[s])
    BY <1>1, StartSteps
  <2>2. j.kind # "merge" /\ j.msg = 0
    BY NewIngestFacts
  <2> HIDE DEF j
  <2>3. ~overlapped => AloneAt("blurbEvidence", j, tx[s])
    BY <2>1, <2>2, PlainStart
  <2> QED
    BY <2>1, <2>3, StartsAlone
<1>2. ASSUME NEW n \in Nodes, NEW c \in {Weak, Strong}, Link(s, n, c)
      PROVE  AloneInv'
  <2> DEFINE j == NewLink(n, c)
  <2>1. /\ pc[s] \in {"idle", "done"} /\ job[s].kind # "merge"
        /\ Starts(s, "linkEdge", j, tx[s])
    BY <1>2, StartSteps
  <2>2. j.kind # "merge" /\ j.msg = 0
    BY NewLinkFacts
  <2> HIDE DEF j
  <2>3. ~overlapped => AloneAt("linkEdge", j, tx[s])
    BY <2>1, <2>2, PlainStart
  <2> QED
    BY <2>1, <2>3, StartsAlone
<1>3. ASSUME NEW n \in Nodes, NEW o \in Nodes, NEW c \in {Weak, Strong}, Correlate(s, n, o, c)
      PROVE  AloneInv'
  <2> DEFINE j == NewSame(n, o, c)
  <2>1. /\ pc[s] \in {"idle", "done"} /\ job[s].kind # "merge"
        /\ Starts(s, "correlation", j, tx[s])
    BY <1>3, StartSteps
  <2>2. j.kind # "merge" /\ j.msg = 0
    BY NewSameFacts
  <2> HIDE DEF j
  <2>3. ~overlapped => AloneAt("correlation", j, tx[s])
    BY <2>1, <2>2, PlainStart
  <2> QED
    BY <2>1, <2>3, StartsAlone
<1>4. ASSUME NEW n \in Nodes, NEW o \in Nodes, Merge(s, n, o)
      PROVE  AloneInv'
  <2> DEFINE j == NewMerge(n, o)
             u == Fetched(tx[s], o)
  <2>1. n # o /\ pc[s] = "idle" /\ Starts(s, "mergeEdges", j, u)
    BY <1>4, StartSteps
  <2>2. j.kind = "merge" /\ j.node = n /\ j.other = o /\ j.rels = EdgesAt(o)
    BY NewMergeFacts
  <2>3. n # o /\ pc[s] = "idle"
    BY <2>1
  <2>4. /\ u.base = Loaded(o) /\ u.mem = Loaded(o)
        /\ u.dirty = {} /\ u.written = {} /\ u.deleted = {}
        /\ u.added = {} /\ u.placed = Nowhere
    BY <2>3, LoadedFacts
  <2>5. \A k \in Edges : /\ Loaded(o)[k] \in Nat /\ edges[k] \in Nat
                         /\ Loaded(o)[k] # 0 => Loaded(o)[k] = edges[k] /\ k \in EdgesAt(o)
    <3>1. \A k \in Edges : edges[k] \in Nat
      BY TypedFacts, ConfidenceFacts
    <3> QED
      BY <3>1 DEF Loaded
  <2> HIDE DEF u, j
  <2>6. EdgesAlone(j, u)
    BY <2>4, <2>5 DEF EdgesAlone
  <2>7. \A k \in Edges : Has(u, k) => edges[k] > 0
    BY <2>4, <2>5 DEF Has
  <2>8. \A k \in Edges : edges[k] > 0 /\ o \in Ends(k) => k \in EdgesAt(o)
    BY DEF EdgesAt, Ends
  <2>9. MergeAlone("mergeEdges", j, u)
    BY <2>2, <2>4, <2>7, <2>8 DEF MergeAlone
  <2>10. ~overlapped => PostedAlone("mergeEdges", j, u)
    <3>1. \A m \in Msgs : Seen(u, m) = container[m]
      BY <2>4 DEF Seen, Nowhere
    <3> QED
      BY <2>7, <3>1, EdgeFacts DEF PostedAlone, AloneInv, MessagesMatch, Ingesting
  <2> QED
    BY <2>1, <2>6, <2>9, <2>10, StartsAlone DEF AloneAt
<1> QED
  BY <1>1, <1>2, <1>3, <1>4

LEMMA NextAlone == Typed /\ HeldInv /\ AloneInv /\ Unplaced /\ [Next]_vars => AloneInv'
<1> SUFFICES ASSUME Typed, HeldInv, AloneInv, Unplaced, [Next]_vars PROVE AloneInv'
  OBVIOUS
<1>1. CASE UNCHANGED vars
  BY <1>1 DEF AloneInv, MessagesMatch, AloneAt, EdgesAlone, MergeAlone, PostedAlone, Seen, Has,
              vars, tables
<1>2. CASE Next
  BY <1>2, StartAlone, StatementAlone, RaiseAlone, CommitAlone, RollbackAlone DEF Next
<1> QED
  BY <1>1, <1>2

\* Only the insertion of a message, a merge and the end of a session change
\* where messages are placed.
SamePlaced(s) == nextMsg' = nextMsg /\ \A q \in Sessions : tx'[q].placed = tx[q].placed

LEMMA ObservePlaced ==
    ASSUME Typed, NEW s \in Sessions, NEW k, NEW c, NEW p, Observe(s, k, c, p)
    PROVE  SamePlaced(s)
<1>1. tx[s] \in Tx /\ tx \in [Sessions -> Tx]
  BY TypedFacts
<1>2. Observed(tx[s], k, c).placed = tx[s].placed
  BY <1>1 DEF Observed, Bump, Insert, Flushed, Tx
<1>3. /\ nextMsg' = nextMsg
      /\ tx' = tx \/ tx' = [tx EXCEPT ![s] = Observed(tx[s], k, c)]
  BY DEF Observe, FlushFails
<1> QED
  BY <1>1, <1>2, <1>3 DEF SamePlaced

LEMMA RecordPlaced ==
    ASSUME Typed, NEW s \in Sessions, NEW e, NEW p, Record(s, e, p)
    PROVE  SamePlaced(s)
<1>1. tx[s] \in Tx /\ tx \in [Sessions -> Tx]
  BY TypedFacts
<1>2. Recorded(tx[s], e).placed = tx[s].placed
  BY <1>1 DEF Recorded, Flushed, Tx
<1>3. /\ nextMsg' = nextMsg
      /\ tx' = tx \/ tx' = [tx EXCEPT ![s] = Recorded(tx[s], e)]
  BY DEF Record, FlushFails, Recorded
<1> QED
  BY <1>1, <1>2, <1>3 DEF SamePlaced

LEMMA UnplacedKept ==
    ASSUME Unplaced, NEW s \in Sessions, SamePlaced(s), container' = container
    PROVE  Unplaced'
BY DEF Unplaced, SamePlaced

LEMMA MovesUnplaced ==
    ASSUME Typed, Unplaced, NEW s \in Sessions, NEW p, NEW j, NEW u, Moves(s, p, j, u),
           nextMsg' \in Nat, nextMsg' >= nextMsg,
           \A m \in Msgs : m > nextMsg' => u.placed[m] = None /\ container'[m] = None
    PROVE  Unplaced'
<1>1. /\ tx'[s] = u /\ \A q \in Sessions : q # s => tx'[q] = tx[q]
      /\ nextMsg \in Nat
  BY TypedFacts DEF Moves
<1>2. \A m \in Msgs : m > nextMsg' => m > nextMsg
  BY <1>1 DEF Msgs
<1> QED
  BY <1>1, <1>2 DEF Unplaced

LEMMA StatementUnplaced ==
    ASSUME Typed, Unplaced, NEW s \in Sessions, Statement(s)
    PROVE  Unplaced'
<1>0. /\ container' = container /\ tx[s] \in Tx /\ tx \in [Sessions -> Tx]
      /\ nextMsg \in Nat /\ FitsAt(pc[s], job[s], tx[s])
  BY TypedFacts DEF Statement, tables, WellTyped
<1>1. CASE \/ BlurbEvidence(s) \/ BlurbEdge(s) \/ MatchEvidence(s) \/ MatchEdge(s)
           \/ Draft(s) \/ LinkEdge(s) \/ LinkEvidence(s) \/ Correlation(s) \/ SameEdge(s)
  BY <1>0, <1>1, ObservePlaced, RecordPlaced, UnplacedKept
     DEF BlurbEvidence, BlurbEdge, MatchEvidence, MatchEdge, Draft, LinkEdge, LinkEvidence,
         Correlation, SameEdge
<1>2. CASE Scan(s) \/ MergeEdgesDone(s) \/ MergeRows(s)
  BY <1>0, <1>2, UnplacedKept DEF Scan, MergeEdgesDone, MergeRows, SamePlaced
<1>3. CASE ContainerEdge(s)
  <2>1. SamePlaced(s)
    BY <1>3, ObservePlaced DEF ContainerEdge, SamePlaced
  <2> QED
    BY <1>0, <2>1, UnplacedKept
<1>4. CASE Message(s)
  <2> DEFINE v == Placed(tx[s], nextMsg + 1, job[s].node)
  <2>1. \/ Moves(s, "failed", job[s], tx[s]) /\ nextMsg' = nextMsg
        \/ \E m \in Posted(s, job[s].node) :
              Moves(s, "scan", [job[s] EXCEPT !.msg = m], tx[s]) /\ nextMsg' = nextMsg
        \/ /\ nextMsg < MaxMsgs /\ nextMsg' = nextMsg + 1
           /\ Moves(s, "scan", [job[s] EXCEPT !.msg = nextMsg + 1], v)
    BY <1>4, MessageSteps
  <2>2. CASE nextMsg' = nextMsg /\ \E p, j : Moves(s, p, j, tx[s])
    BY <1>0, <2>2, MovesUnplaced DEF Unplaced
  <2>3. CASE nextMsg' = nextMsg + 1 /\ nextMsg < MaxMsgs /\ \E p, j : Moves(s, p, j, v)
    <3>1. pc[s] = "message" /\ job[s].node \in Nodes /\ nextMsg + 1 \in Msgs
      BY <1>0, <1>4, <2>3, TypedFacts DEF Message, FitsAt, Ingesting, Msgs
    <3>2. \A l \in Msgs : l # nextMsg + 1 => v.placed[l] = tx[s].placed[l]
      BY <1>0, <3>1, PlacedFacts
    <3> HIDE DEF v
    <3>3. \A m \in Msgs : m > nextMsg' => m > nextMsg /\ m # nextMsg + 1
      BY <1>0, <2>3 DEF Msgs
    <3>4. \A m \in Msgs : m > nextMsg' => v.placed[m] = None /\ container'[m] = None
      BY <1>0, <3>2, <3>3 DEF Unplaced
    <3>5. nextMsg' \in Nat /\ nextMsg' >= nextMsg
      BY <1>0, <2>3
    <3> QED
      BY <2>3, <3>4, <3>5, MovesUnplaced
  <2> QED
    BY <2>1, <2>2, <2>3
<1>5. CASE MergeMessages(s)
  <2> DEFINE v == [tx[s] EXCEPT !.placed = [m \in Msgs |-> IF m \in Posted(s, job[s].other)
                                             THEN job[s].node ELSE tx[s].placed[m]]]
  <2>1. /\ pc[s] = "mergeMessages" /\ nextMsg' = nextMsg
        /\ \/ Moves(s, "failed", job[s], tx[s])
           \/ Moves(s, "mergeRows", job[s], tx[s])
           \/ Moves(s, "mergeRows", job[s], v)
    BY <1>5, MergeMessagesSteps
  <2>2. job[s].other \in Nodes
    BY <1>0, <2>1 DEF FitsAt, Merging
  <2>3. \A m \in Msgs : m > nextMsg => m \notin Posted(s, job[s].other)
    BY <2>2, Distinct DEF Unplaced, Posted
  <2>4. \A m \in Msgs : v.placed[m] = IF m \in Posted(s, job[s].other)
                                      THEN job[s].node ELSE tx[s].placed[m]
    BY <1>0 DEF Tx
  <2> HIDE DEF v
  <2>5. \A m \in Msgs : m > nextMsg =>
           tx[s].placed[m] = None /\ v.placed[m] = None /\ container'[m] = None
    BY <1>0, <2>3, <2>4 DEF Unplaced
  <2> QED
    BY <1>0, <2>1, <2>5, MovesUnplaced
<1>6. CASE MergeEvidence(s)
  <2>1. /\ pc[s] = "mergeEvidence" /\ nextMsg' = nextMsg
        /\ Moves(s, "failed", job[s], tx[s]) \/ Moves(s, "done", job[s], MovedOn(s))
    BY <1>6, MergeEvidenceSteps
  <2>2. job[s].node \in Nodes
    BY <1>0, <2>1 DEF FitsAt, Merging
  <2>3. MovedOn(s).placed = tx[s].placed
    BY <2>2, MovedFacts
  <2>4. \A m \in Msgs : m > nextMsg =>
           tx[s].placed[m] = None /\ MovedOn(s).placed[m] = None /\ container'[m] = None
    BY <1>0, <2>3 DEF Unplaced
  <2> QED
    BY <1>0, <2>1, <2>4, MovesUnplaced
<1>7. ASSUME NEW k \in Edges, MergeEdge(s, k)
      PROVE  Unplaced'
  <2> DEFINE i == Image(s, k)
             g == Gone(tx[s], k)
             u == Observed(g, i, tx[s].base[k])
  <2>1. nextMsg' = nextMsg /\ \E p, j : \/ Moves(s, p, j, tx[s])
                                        \/ Moves(s, p, j, g) \/ Moves(s, p, j, u)
    BY <1>7, MergeEdgeSteps
  <2>2. g \in Tx /\ g.placed = tx[s].placed
    BY <1>0, GoneFacts
  <2> HIDE DEF g
  <2>3. u.placed = tx[s].placed
    BY <2>2 DEF Observed, Bump, Insert, Flushed, Tx
  <2> HIDE DEF u
  <2>4. \A m \in Msgs : m > nextMsg =>
           /\ tx[s].placed[m] = None /\ g.placed[m] = None /\ u.placed[m] = None
           /\ container'[m] = None
    BY <1>0, <2>2, <2>3 DEF Unplaced
  <2> QED
    BY <1>0, <2>1, <2>4, MovesUnplaced
<1> QED
  BY <1>1, <1>2, <1>3, <1>4, <1>5, <1>6, <1>7 DEF Statement

LEMMA NextUnplaced == Typed /\ Unplaced /\ [Next]_vars => Unplaced'
<1> SUFFICES ASSUME Typed, Unplaced, [Next]_vars PROVE Unplaced'
  OBVIOUS
<1>0. nextMsg \in Nat /\ tx \in [Sessions -> Tx]
  BY TypedFacts
<1>1. CASE UNCHANGED vars
  BY <1>1 DEF Unplaced, vars, tables
<1>2. ASSUME NEW s \in Sessions, NEW p, NEW j, NEW u, Starts(s, p, j, u),
             u.placed = tx[s].placed \/ u.placed = Nowhere
      PROVE  Unplaced'
  <2>1. nextMsg' = nextMsg /\ container' = container /\ Moves(s, p, j, u)
    BY <1>2 DEF Starts, tables
  <2>2. \A m \in Msgs : m > nextMsg' => u.placed[m] = None /\ container'[m] = None
    BY <1>2, <2>1 DEF Unplaced, Nowhere
  <2> QED
    BY <1>0, <2>1, <2>2, MovesUnplaced
<1>3. ASSUME NEW s \in Sessions,
             \/ \E n \in Nodes : \/ \E o \in Contents : Ingest(s, n, o)
                                 \/ \E c \in {Weak, Strong} : Link(s, n, c)
             \/ \E n, o \in Nodes : \E c \in {Weak, Strong} : Correlate(s, n, o, c)
      PROVE  Unplaced'
  <2>1. tx' = tx /\ nextMsg' = nextMsg /\ container' = container
    <3>1. ASSUME NEW n \in Nodes, NEW o \in Contents, Ingest(s, n, o)
          PROVE  tx' = tx /\ nextMsg' = nextMsg /\ container' = container
      BY <3>1 DEF Ingest, Start, tables
    <3>2. ASSUME NEW n \in Nodes, NEW c \in {Weak, Strong}, Link(s, n, c)
          PROVE  tx' = tx /\ nextMsg' = nextMsg /\ container' = container
      BY <3>2 DEF Link, Start, tables
    <3>3. ASSUME NEW n \in Nodes, NEW o \in Nodes, NEW c \in {Weak, Strong},
                 Correlate(s, n, o, c)
          PROVE  tx' = tx /\ nextMsg' = nextMsg /\ container' = container
      BY <3>3 DEF Correlate, Start, tables
    <3> QED
      BY <1>3, <3>1, <3>2, <3>3
  <2> QED
    BY <2>1 DEF Unplaced
<1>4. ASSUME NEW s \in Sessions, NEW n \in Nodes, NEW o \in Nodes, Merge(s, n, o)
      PROVE  Unplaced'
  <2>1. n # o /\ pc[s] = "idle" /\ Starts(s, "mergeEdges", NewMerge(n, o), Fetched(tx[s], o))
    BY <1>4, StartSteps
  <2>2. n # o /\ pc[s] = "idle"
    BY <2>1
  <2>3. Fetched(tx[s], o).placed = Nowhere
    BY <2>2, LoadedFacts
  <2> QED
    BY <1>2, <2>1, <2>3
<1>5. ASSUME NEW s \in Sessions, Raise(s)
      PROVE  Unplaced'
  BY <1>5 DEF Raise, Unplaced, tables
<1>6. ASSUME NEW s \in Sessions, Commit(s) \/ Rollback(s)
      PROVE  Unplaced'
  <2>1. Moves(s, "idle", NoJob, NoTx) /\ nextMsg' = nextMsg
    BY <1>6, CloseSteps DEF Commit, Rollback
  <2>2. \A m \in Msgs : m > nextMsg => container'[m] = None
    BY <1>6 DEF Commit, Rollback, Unplaced, tables
  <2>3. \A m \in Msgs : NoTx.placed[m] = None
    BY NoTxFacts DEF Nowhere
  <2> QED
    BY <1>0, <2>1, <2>2, <2>3, MovesUnplaced
<1>7. CASE Next
  BY <1>3, <1>4, <1>5, <1>6, <1>7, StatementUnplaced DEF Next
<1> QED
  BY <1>1, <1>7

LEMMA InitAlone == Init => AloneInv /\ Unplaced
<1> SUFFICES ASSUME Init PROVE AloneInv /\ Unplaced
  OBVIOUS
<1>1. AloneInv
  <2>1. \A k \in Edges : ~(edges[k] > 0)
    BY DEF Init, NoEdges
  <2>2. MessagesMatch
    BY <2>1, EdgeFacts DEF MessagesMatch
  <2>3. \A s \in Sessions : pc[s] = "idle"
    BY DEF Init
  <2> QED
    BY <2>2, <2>3 DEF AloneInv
<1>2. Unplaced
  BY NoTxFacts DEF Init, Unplaced, Nowhere
<1> QED
  BY <1>1, <1>2

LEMMA AloneAlways == Spec => [](Typed /\ ClaimsInv /\ HeldInv /\ AloneInv /\ Unplaced)
<1>1. Init => Typed /\ ClaimsInv /\ HeldInv /\ AloneInv /\ Unplaced
  BY InitTyped, InitClaims, InitHeld, InitAlone
<1>2. Typed /\ ClaimsInv /\ HeldInv /\ AloneInv /\ Unplaced /\ [Next]_vars
         => Typed' /\ ClaimsInv' /\ HeldInv' /\ AloneInv' /\ Unplaced'
  BY NextTyped, NextClaims, NextHeld, NextAlone, NextUnplaced
<1> QED
  BY <1>1, <1>2, PTL DEF Spec

(* The graph agrees with the rows it is drawn from: every claim is backed  *)
(* by evidence, and, as long as units of work do not overlap, an edge that *)
(* says where a message was posted agrees with the message's row, also     *)
(* after a merge, which repoints the one and then the other                *)
(* (IngestionService, TargetResolver, merge_entities).                     *)
THEOREM GraphAgrees == Spec => []GraphConsistent
<1>1. Typed /\ ClaimsInv /\ HeldInv /\ AloneInv /\ Unplaced => GraphConsistent
  BY DEF ClaimsInv, AloneInv, GraphConsistent, MessagesMatch
<1> QED
  BY <1>1, AloneAlways, PTL

\* A commit of work done alone lowers no edge, nor what takes its place.
LEMMA CommitKeepsConfidence ==
    ASSUME Typed, AloneInv, NEW s \in Sessions, Commit(s), ~overlapped,
           NEW k \in Edges, edges[k] > 0
    PROVE  LET i == IF job[s].kind = "merge" THEN Image(s, k) ELSE k
           IN  i[1] = i[2] \/ edges'[i] >= edges[k]
<1> DEFINE t == tx[s]
           i == Image(s, k)
<1>1. /\ pc[s] = "done" /\ EdgesAlone(job[s], t) /\ MergeAlone("done", job[s], t)
      /\ t \in Tx /\ edges \in [Edges -> Confidence]
      /\ \A l \in Edges : edges'[l] = Stored(t, l)
  BY CommitSteps DEF AloneAt
<1>2. FitsAt("done", job[s], t) /\ job[s].node # job[s].other /\ job[s].node \in Nodes
  BY <1>1, TypedFacts DEF WellTyped, FitsAt
<1> HIDE DEF t
<1>3. ASSUME k \notin t.deleted PROVE edges'[k] >= edges[k]
  BY <1>1, <1>3, StoredAlone
<1>4. CASE job[s].kind # "merge"
  <2>1. k \notin t.deleted
    BY <1>1, <1>4 DEF EdgesAlone
  <2> QED
    BY <1>3, <1>4, <2>1
<1>5. CASE job[s].kind = "merge"
  <2>0. job[s].other \in Nodes
    BY <1>2, <1>5 DEF FitsAt
  <2>1. /\ i = <<New(job[s], k[1]), New(job[s], k[2])>> /\ job[s].other \notin Ends(i)
        /\ i[1] # i[2] => i \in Edges
        /\ job[s].other \notin Ends(k) => i = k
    BY <1>2, <2>0, ImageFacts DEF Image, Repointed, New, Ends
  <2>2. CASE job[s].other \notin Ends(k)
    <3>1. k \notin t.deleted
      BY <1>1, <2>2 DEF EdgesAlone
    <3> QED
      BY <1>3, <1>5, <2>1, <2>2, <3>1
  <2>3. CASE job[s].other \in Ends(k) /\ i[1] # i[2]
    <3>1. job[s].rels = {}
      BY <1>1, <1>5 DEF MergeAlone
    <3>2. t.mem[i] >= edges[k]
      BY <1>1, <1>5, <2>1, <2>3, <3>1 DEF MergeAlone
    <3>3. i \in Edges /\ i \notin t.deleted
      BY <1>1, <2>1, <2>3 DEF EdgesAlone
    <3> HIDE DEF i
    <3>4. edges'[i] = Stored(t, i) /\ Stored(t, i) >= t.mem[i] /\ Stored(t, i) \in Nat
      BY <1>1, <3>3, StoredAlone
    <3>5. t.mem[i] \in Nat /\ edges[k] \in Nat
      BY <1>1, <3>3, NumberFacts
    <3>6. edges'[i] >= edges[k]
      BY <3>2, <3>4, <3>5
    <3> QED
      BY <1>5, <3>6 DEF i
  <2>4. CASE i[1] = i[2]
    BY <1>5, <2>4
  <2> QED
    BY <2>2, <2>3, <2>4
<1> QED
  BY <1>4, <1>5

\* A merge that worked alone leaves nothing of the node it drops.
LEMMA CommitCompletesMerge ==
    ASSUME Typed, AloneInv, NEW s \in Sessions, Commit(s), ~overlapped, job[s].kind = "merge"
    PROVE  LET o == job[s].other
           IN  /\ \A k \in Edges : o \in {k[1], k[2]} => edges'[k] = 0
               /\ \A e \in evidence' : e[1] # o
               /\ \A m \in Msgs : container'[m] # o
<1> DEFINE t == tx[s]
           o == job[s].other
<1>1. /\ EdgesAlone(job[s], t) /\ MergeAlone("done", job[s], t)
      /\ t \in Tx /\ edges \in [Edges -> Confidence]
      /\ \A k \in Edges : edges'[k] = Stored(t, k)
      /\ \A m \in Msgs : container'[m] = Seen(t, m)
      /\ evidence' = (evidence \ t.moved) \cup t.added
  BY CommitSteps DEF AloneAt
<1> HIDE DEF t
<1>2. ASSUME NEW k \in Edges, o \in {k[1], k[2]} PROVE edges'[k] = 0
  <2>1. ~Has(t, k)
    BY <1>1, <1>2 DEF MergeAlone, Ends
  <2>2. ~(Stored(t, k) > 0) /\ Stored(t, k) \in Nat
    BY <1>1, <2>1, StoredAlone
  <2> QED
    BY <1>1, <2>2
<1>3. /\ \A e \in evidence' : e[1] # o
      /\ \A m \in Msgs : container'[m] # o
  BY <1>1 DEF MergeAlone
<1> QED
  BY <1>2, <1>3

(* Units of work one after another only add to the graph: a commit lowers  *)
(* no edge's confidence, a merge leaves an edge at least as strong between *)
(* the survivors, and when it commits no edge, evidence or message row     *)
(* mentions the dropped node any more (observe, merge_entities).           *)
THEOREM SerialWorkOnlyAdds == Spec => SerialWorkKeeps
<1>1. Typed /\ ClaimsInv /\ HeldInv /\ AloneInv /\ Unplaced /\ [Next]_vars =>
         [\A s \in Sessions : Commit(s) /\ ~overlapped =>
             \A k \in Edges : edges[k] > 0 =>
                 LET i == IF job[s].kind = "merge" THEN Image(s, k) ELSE k
                 IN  i[1] = i[2] \/ edges'[i] >= edges[k]]_vars
  BY CommitKeepsConfidence
<1>2. Typed /\ ClaimsInv /\ HeldInv /\ AloneInv /\ Unplaced /\ [Next]_vars =>
         [\A s \in Sessions : Commit(s) /\ ~overlapped /\ job[s].kind = "merge" =>
             LET o == job[s].other
             IN  /\ \A k \in Edges : o \in {k[1], k[2]} => edges'[k] = 0
                 /\ \A e \in evidence' : e[1] # o
                 /\ \A m \in Msgs : container'[m] # o]_vars
  BY CommitCompletesMerge
<1>3. Spec => ConfidenceKept
  BY <1>1, AloneAlways, PTL DEF Spec, ConfidenceKept
<1>4. Spec => MergeComplete
  BY <1>2, AloneAlways, PTL DEF Spec, MergeComplete
<1> QED
  BY <1>3, <1>4 DEF SerialWorkKeeps
=============================================================================
