--------------------------- MODULE EvidenceGraph ----------------------------
(***************************************************************************)
(* The evidence graph: edges (RelationshipRepository.observe), evidence    *)
(* (EvidenceRepository.record) and message rows, as ingestion              *)
(* (intelligence/ingest.py, intelligence/ioc/enrich.py), target linking    *)
(* and username correlation write them, and as merge_entities              *)
(* (intelligence/entity_resolution/resolver.py) repoints them.             *)
(*                                                                         *)
(* Nodes are entities of one type that may turn out to be the same.  Each  *)
(* has one public message and a blurb, both naming the indicator Ioc.  An  *)
(* edge is a pair whose rel_type follows from its ends; its row is reduced *)
(* to the confidence, 0 where there is no row (observation_count and the   *)
(* timestamps change with every observation and no guard reads them).      *)
(* A session does not autoflush: a bumped edge is written at the next      *)
(* SAVEPOINT or at the commit, with values computed from what was loaded.  *)
(***************************************************************************)
EXTENDS Naturals, FiniteSets

CONSTANTS Sessions,     \* units of work in progress at the same time
          Nodes,        \* graph entities of one type
          Target, Ioc,  \* a user's target, and an indicator
          Contents,     \* what a collector may observe about a node
          Weak, Strong, \* confidences of an observation
          None,         \* no node, no content
          MaxUnits,     \* bound: units of work
          MaxMsgs,      \* bound: message rows ever inserted
          MaxFaults     \* bound: statements that raise

ASSUME GraphAssumption ==
    /\ {Target, Ioc, None} \cap Nodes = {}
    /\ (Nodes \cup {Target, Ioc, None}) \cap Nat = {}   \* message rows are numbers
    /\ Weak \in Nat \ {0} /\ Strong \in Nat /\ Weak <= Strong
    /\ MaxUnits \in Nat /\ MaxMsgs \in Nat /\ MaxFaults \in Nat

Msgs == 1..MaxMsgs
Confidence == {0, Weak, Strong}

(* TARGET_IS_ACCOUNT, ACCOUNT_LINKED_TO_WEBSITE, ACCOUNT_POSSIBLY_SAME_AS, *)
(* MESSAGE_CONTAINS_IOC and MESSAGE_IN_CHANNEL.                            *)
Edges == ({Target} \X Nodes) \cup (Nodes \X {Ioc})
         \cup {k \in Nodes \X Nodes : k[1] # k[2]}
         \cup (Msgs \X {Ioc}) \cup (Msgs \X Nodes)

(* Evidence by its unique key: the entity, and field with content.         *)
About == Nodes \X (Contents \cup {"correlation"})
Evidence == About
            \cup ({Ioc} \X {"blurb", "message"}) \cup ({Target} \X Nodes)

VARIABLES
    edges,       \* committed edges: confidence
    evidence,    \* committed evidence
    container,   \* committed messages: the node each was posted in
    nextMsg,     \* message rows inserted so far, rolled back ones included
    pc,          \* per session: where it is
    job,         \* per session: what it is doing
    tx,          \* per session: its identity map and uncommitted writes
    held,        \* per session: evidence rows a merge has loaded, by current key
    units, faults,
    overlapped   \* history: two units of work have run at the same time

tables == <<edges, evidence, container>>
vars == <<tables, nextMsg, pc, job, tx, held, units, faults, overlapped>>

Phases == {"idle", "blurbEvidence", "blurbEdge", "message", "scan",
           "matchEvidence", "matchEdge", "draft", "containerEdge", "linkEdge", "linkEvidence",
           "correlation", "sameEdge", "mergeEdges", "mergeMessages",
           "mergeRows", "mergeEvidence", "done", "failed"}

(* node: what it is about; other: the dropped, or similar, one; seen:      *)
(* content and conf: confidence observed; msg: the message row resolved;   *)
(* rels: edges still to repoint.                                           *)
Job == [kind : {"none", "ingest", "link", "same", "merge"},
        node : Nodes \cup {None}, other : Nodes \cup {None},
        conf : Confidence, seen : Contents \cup {None},
        msg : 0..MaxMsgs, rels : SUBSET Edges]

NoJob == [kind |-> "none", node |-> None, other |-> None, conf |-> 0,
          seen |-> None, msg |-> 0, rels |-> {}]

(* base, mem: edges as loaded and as they are in memory; dirty: changed    *)
(* and not flushed; written, deleted: flushed and not committed.  added,   *)
(* moved: evidence inserted (or repointed) here, and repointed away.       *)
(* placed: messages inserted or repointed.                                 *)
Tx == [base : [Edges -> Confidence], mem : [Edges -> Confidence],
       dirty : SUBSET Edges, written : SUBSET Edges, deleted : SUBSET Edges,
       added : SUBSET Evidence, moved : SUBSET Evidence,
       placed : [Msgs -> Nodes \cup {None}]]

NoEdges == [k \in Edges |-> 0]
Nowhere == [m \in Msgs |-> None]

NoTx == [base |-> NoEdges, mem |-> NoEdges, dirty |-> {}, written |-> {},
         deleted |-> {}, added |-> {}, moved |-> {}, placed |-> Nowhere]

(* Types; in particular nothing is merged with or likened to itself, and   *)
(* only edges in memory have unflushed changes (merge_entities, observe).  *)
TypeOK == /\ edges \in [Edges -> Confidence]
          /\ evidence \subseteq Evidence
          /\ container \in [Msgs -> Nodes \cup {None}]
          /\ nextMsg \in 0..MaxMsgs
          /\ pc \in [Sessions -> Phases]
          /\ \A s \in Sessions :
                /\ job[s] \in Job
                /\ pc[s] # "idle" => job[s].node # job[s].other
                /\ tx[s] \in Tx
                /\ \A k \in tx[s].dirty : tx[s].mem[k] > 0
          /\ held \in [Sessions -> SUBSET About]
          /\ units \in 0..MaxUnits
          /\ faults \in 0..MaxFaults
          /\ overlapped \in BOOLEAN

Init == /\ edges = NoEdges
        /\ evidence = {}
        /\ container = Nowhere
        /\ nextMsg = 0
        /\ pc = [s \in Sessions |-> "idle"]
        /\ job = [s \in Sessions |-> NoJob]
        /\ tx = [s \in Sessions |-> NoTx]
        /\ held = [s \in Sessions |-> {}]
        /\ units = 0
        /\ faults = 0
        /\ overlapped = FALSE
-----------------------------------------------------------------------------
(* Repositories: each operates on a session's uncommitted state t.         *)

Others(s) == Sessions \ {s}

(* An edge another session has flushed and not committed.                  *)
LockedFor(s, ks) == \E q \in Others(s) : tx[q].written \cap ks # {}

(* A row loaded here that another session has deleted since: the UPDATE    *)
(* matches no row (StaleDataError).                                        *)
Stale(t) == \E k \in t.dirty : t.base[k] > 0 /\ edges[k] = 0

Flushed(t) == [t EXCEPT !.written = @ \cup t.dirty, !.dirty = {}]

(* The edge a SELECT finds.                                                *)
Visible(t, k) == \/ edges[k] > 0 /\ k \notin t.deleted
                 \/ t.base[k] = 0 /\ t.mem[k] > 0

(* Mutant: the last confidence wins.                                       *)
LastConfidence(a, b) == b

Highest(a, b) == IF a >= b THEN a ELSE b

(* The existing edge: its confidence becomes the highest observed.         *)
Bump(t, k, c) ==
    LET loaded == IF t.mem[k] > 0 THEN t.mem[k] ELSE edges[k]
    IN  [t EXCEPT !.base[k] = IF t.mem[k] > 0 THEN @ ELSE edges[k],
                  !.mem[k] = Highest(loaded, c),
                  !.dirty = @ \cup {k}]

(* A new edge; its SAVEPOINT flushes what is pending.                      *)
Insert(t, k, c) ==
    LET f == Flushed(t)
    IN  [f EXCEPT !.base[k] = 0, !.mem[k] = c, !.written = @ \cup {k}]

(* What observe leaves.                                                    *)
Observed(t, k, c) == IF Visible(t, k) THEN Bump(t, k, c) ELSE Insert(t, k, c)

(* A flush waits for rows another session has written.                     *)
MustWait(s, t, ks) == LockedFor(s, t.dirty \cup ks)

(* The session goes on, or is unusable because its flush failed.           *)
Goto(s, p) == pc' = [pc EXCEPT ![s] = p]

FlushFails(s) == /\ Stale(tx[s])
                 /\ Goto(s, "failed")
                 /\ UNCHANGED <<job, tx, nextMsg>>

(* RelationshipRepository.observe, then the caller goes on at p.           *)
Observe(s, k, c, p) ==
    LET t == tx[s]
    IN  \/ /\ ~Visible(t, k)
           /\ ~MustWait(s, t, {k})
           /\ FlushFails(s)
        \/ /\ Visible(t, k) \/ ~(MustWait(s, t, {k}) \/ Stale(t))
           /\ tx' = [tx EXCEPT ![s] = Observed(t, k, c)]
           /\ Goto(s, p)
           /\ UNCHANGED <<job, nextMsg>>

(* EvidenceRepository.record: the identical observation, or a new row.     *)
Record(s, e, p) ==
    LET t == tx[s]
    IN  \/ /\ e \in (evidence \ t.moved) \cup t.added
           /\ Goto(s, p)
           /\ UNCHANGED <<job, tx, nextMsg>>
        \/ /\ e \notin (evidence \ t.moved) \cup t.added
           /\ ~MustWait(s, t, {})
           /\ \A q \in Others(s) : e \notin tx[q].added
           /\ \/ FlushFails(s)
              \/ /\ ~Stale(t)
                 /\ tx' = [tx EXCEPT ![s] = [Flushed(t) EXCEPT !.added = @ \cup {e}]]
                 /\ Goto(s, p)
                 /\ UNCHANGED <<job, nextMsg>>

(* Messages a session finds in n; and an uncommitted one it must wait for. *)
Posted(s, n) == {m \in Msgs : n = IF tx[s].placed[m] # None THEN tx[s].placed[m]
                                  ELSE container[m]}

Posting(s, n) == \E q \in Others(s) : \E m \in Msgs : tx[q].placed[m] = n
-----------------------------------------------------------------------------
(* Units of work.  A caller may do several of the first three in one       *)
(* transaction (UsernameOsintService.run, TelegramIntelService).           *)

Start(s, p, j) ==
    /\ units < MaxUnits
    /\ units' = units + 1
    /\ Goto(s, p)
    /\ job' = [job EXCEPT ![s] = j]
    /\ overlapped' = (overlapped \/ \E q \in Others(s) : pc[q] # "idle")
    /\ UNCHANGED <<tables, nextMsg, held, faults>>

(* IngestionService.ingest: n with a blurb, its message and a draft.       *)
Ingest(s, n, o) ==
    /\ pc[s] \in {"idle", "done"} /\ job[s].kind # "merge"
    /\ Start(s, "blurbEvidence",
             [NoJob EXCEPT !.kind = "ingest", !.node = n, !.conf = Weak, !.seen = o])
    /\ UNCHANGED tx

(* TargetResolver.link; its callers pass different confidences.            *)
Link(s, n, c) ==
    /\ pc[s] \in {"idle", "done"} /\ job[s].kind # "merge"
    /\ Start(s, "linkEdge", [NoJob EXCEPT !.kind = "link", !.node = n, !.conf = c])
    /\ UNCHANGED tx

(* Correlation evidence and ACCOUNT_POSSIBLY_SAME_AS of two accounts.      *)
Correlate(s, n, o, c) ==
    /\ n # o
    /\ pc[s] \in {"idle", "done"} /\ job[s].kind # "merge"
    /\ Start(s, "correlation",
             [NoJob EXCEPT !.kind = "same", !.node = n, !.other = o, !.conf = c])
    /\ UNCHANGED tx

(* Mutant: only outgoing edges.                                            *)
EdgesFrom(n) == {k \in Edges : edges[k] > 0 /\ n = k[1]}

(* Committed edges at either end of n.                                     *)
EdgesAt(n) == {k \in Edges : edges[k] > 0 /\ n \in {k[1], k[2]}}

(* Mutant: without the check that the two differ.                          *)
MergeAnything(s, n, o) ==
    /\ pc[s] = "idle"
    /\ Start(s, "mergeEdges", [NoJob EXCEPT !.kind = "merge", !.node = n, !.other = o])
    /\ UNCHANGED tx

(* merge_entities(keep = n, drop = o) refuses n = o, then loads the edges. *)
Merge(s, n, o) ==
    /\ n # o
    /\ pc[s] = "idle"
    /\ Start(s, "mergeEdges", [NoJob EXCEPT !.kind = "merge", !.node = n,
                                            !.other = o, !.rels = EdgesAt(o)])
    /\ tx' = [tx EXCEPT ![s].base = [k \in Edges |->
                                       IF k \in EdgesAt(o) THEN edges[k] ELSE 0],
                        ![s].mem = [k \in Edges |->
                                      IF k \in EdgesAt(o) THEN edges[k] ELSE 0]]
-----------------------------------------------------------------------------
(* Statements, in the order the code executes them                         *)

(* enrich_entity_text                                                      *)
BlurbEvidence(s) == /\ pc[s] = "blurbEvidence"
                    /\ Record(s, <<Ioc, "blurb">>, "blurbEdge")

BlurbEdge(s) == /\ pc[s] = "blurbEdge"
                /\ Observe(s, <<job[s].node, Ioc>>, Weak, "message")

(* MessageRepository.upsert: the row of this message, or a new one.        *)
Message(s) ==
    LET n == job[s].node
        t == tx[s]
    IN  /\ pc[s] = "message"
        /\ \/ \E m \in Posted(s, n) :
                 /\ job' = [job EXCEPT ![s].msg = m]
                 /\ Goto(s, "scan")
                 /\ UNCHANGED <<tx, nextMsg>>
           \/ /\ Posted(s, n) = {}
              /\ ~MustWait(s, t, {}) /\ ~Posting(s, n)
              /\ \/ FlushFails(s)
                 \/ /\ ~Stale(t)
                    /\ nextMsg < MaxMsgs
                    /\ nextMsg' = nextMsg + 1
                    /\ tx' = [tx EXCEPT ![s] =
                                [Flushed(t) EXCEPT !.placed[nextMsg + 1] = n]]
                    /\ job' = [job EXCEPT ![s].msg = nextMsg + 1]
                    /\ Goto(s, "scan")

(* extract_iocs, called outside the loop that catches a match's failure.   *)
Scan(s) == /\ pc[s] = "scan"
           /\ Goto(s, "matchEvidence")
           /\ UNCHANGED <<job, tx, nextMsg>>

(* _ingest_match                                                           *)
MatchEvidence(s) == /\ pc[s] = "matchEvidence"
                    /\ Record(s, <<Ioc, "message">>, "matchEdge")

MatchEdge(s) == /\ pc[s] = "matchEdge"
                /\ Observe(s, <<job[s].msg, Ioc>>, Weak, "draft")

(* _record_evidence                                                        *)
Draft(s) == /\ pc[s] = "draft"
            /\ Record(s, <<job[s].node, job[s].seen>>, "containerEdge")

(* _observe_relationship; a message that was skipped has no edge.          *)
ContainerEdge(s) ==
    /\ pc[s] = "containerEdge"
    /\ \/ /\ job[s].msg = 0
          /\ Goto(s, "done")
          /\ UNCHANGED <<job, tx, nextMsg>>
       \/ /\ job[s].msg # 0
          /\ Observe(s, <<job[s].msg, job[s].node>>, Strong, "done")

LinkEdge(s) == /\ pc[s] = "linkEdge"
               /\ Observe(s, <<Target, job[s].node>>, job[s].conf, "linkEvidence")

LinkEvidence(s) == /\ pc[s] = "linkEvidence"
                   /\ Record(s, <<Target, job[s].node>>, "done")

Correlation(s) == /\ pc[s] = "correlation"
                  /\ Record(s, <<job[s].node, "correlation">>, "sameEdge")

SameEdge(s) == /\ pc[s] = "sameEdge"
               /\ Observe(s, <<job[s].node, job[s].other>>, job[s].conf, "done")

(* merge_entities: the survivor takes the place of the dropped node.       *)
Repointed(s, x) == IF x = job[s].other THEN job[s].node ELSE x

Image(s, k) == <<Repointed(s, k[1]), Repointed(s, k[2])>>

(* One loaded edge: deleted, and observed again between the new ends       *)
(* unless that is a self-loop.                                             *)
MergeEdge(s, k) ==
    LET t == tx[s]
        gone == [Flushed(t) EXCEPT !.deleted = @ \cup {k}, !.mem[k] = 0,
                                   !.written = @ \cup t.dirty \cup {k}]
        i == Image(s, k)
    IN  /\ pc[s] = "mergeEdges"
        /\ k \in job[s].rels
        /\ ~MustWait(s, t, {k})
        /\ UNCHANGED nextMsg
        /\ \/ /\ Stale(t)
              /\ Goto(s, "failed")
              /\ UNCHANGED <<job, tx>>
           \/ /\ ~Stale(t)
              /\ \/ i[1] = i[2] /\ tx' = [tx EXCEPT ![s] = gone]
                 \/ /\ i[1] # i[2]
                    /\ Visible(gone, i) \/ ~LockedFor(s, {i})
                    /\ tx' = [tx EXCEPT ![s] = Observed(gone, i, t.base[k])]
              /\ job' = [job EXCEPT ![s].rels = @ \ {k}]
              /\ UNCHANGED pc

MergeEdgesDone(s) == /\ pc[s] = "mergeEdges"
                     /\ job[s].rels = {}
                     /\ Goto(s, "mergeMessages")
                     /\ UNCHANGED <<job, tx, nextMsg>>

(* Mutant: messages stay with the dropped node.                            *)
MergeMessagesNot(s) == /\ pc[s] = "mergeMessages"
                       /\ Goto(s, "mergeRows")
                       /\ UNCHANGED <<job, tx, nextMsg>>

(* One UPDATE for the messages, which waits for rows another session has   *)
(* written; the survivor may already have a row of the same number.        *)
(* author_account_id is never set.                                         *)
MergeMessages(s) ==
    LET n == job[s].node
        o == job[s].other
    IN  /\ pc[s] = "mergeMessages"
        /\ UNCHANGED <<job, nextMsg>>
        /\ \/ /\ Posted(s, o) = {}
              /\ Goto(s, "mergeRows")
              /\ UNCHANGED tx
           \/ /\ Posted(s, o) # {}
              /\ ~Posting(s, n)
              /\ \A q \in Others(s) : \A m \in Posted(s, o) \cup Posted(s, n) :
                    tx[q].placed[m] = None
              /\ \/ /\ Posted(s, n) # {}
                    /\ Goto(s, "failed")
                    /\ UNCHANGED tx
                 \/ /\ Posted(s, n) = {}
                    /\ tx' = [tx EXCEPT ![s].placed =
                                [m \in Msgs |-> IF m \in Posted(s, o) THEN n ELSE @[m]]]
                    /\ Goto(s, "mergeRows")

(* The evidence of the dropped node is loaded ...                          *)
MergeRows(s) ==
    /\ pc[s] = "mergeRows"
    /\ held' = [held EXCEPT ![s] = {e \in evidence : e[1] = job[s].other}]
    /\ Goto(s, "mergeEvidence")
    /\ UNCHANGED <<job, tx, nextMsg>>

(* The key of a row after the UPDATE, by its id, of the merge in s.        *)
MovedTo(s, e) == <<job[s].node, e[2]>>

(* Rows whose UPDATE s has flushed and not committed.                      *)
Updated(s) == IF pc[s] = "done" THEN held[s] ELSE {}

(* Mutant: an observation both nodes hold collapses into one row.          *)
MergeEvidenceAnyway(s) ==
    /\ pc[s] = "mergeEvidence"
    /\ \A q \in Others(s) : held[s] \cap Updated(q) = {}
    /\ tx' = [tx EXCEPT ![s] = [Flushed(@) EXCEPT
                          !.moved = held[s],
                          !.added = @ \cup {MovedTo(s, e) : e \in held[s]}]]
    /\ Goto(s, "done")
    /\ UNCHANGED <<job, nextMsg>>

(* ... and repointed row by row, wherever a row is by then (the sanctioned *)
(* repointing); the survivor may hold the same observation.                *)
MergeEvidence(s) ==
    LET images == {MovedTo(s, e) : e \in held[s]}
        away == {e \in held[s] : e[1] # job[s].node}
    IN  /\ pc[s] = "mergeEvidence"
        /\ ~MustWait(s, tx[s], {})
        /\ \A q \in Others(s) : /\ held[s] \cap Updated(q) = {}
                              /\ images \cap (tx[q].added \cup tx[q].moved) = {}
        /\ UNCHANGED <<job, nextMsg>>
        /\ \/ /\ images \cap (evidence \ held[s]) # {} \/ Stale(tx[s])
              /\ Goto(s, "failed")
              /\ UNCHANGED tx
           \/ /\ images \cap (evidence \ held[s]) = {} /\ ~Stale(tx[s])
              /\ tx' = [tx EXCEPT ![s] =
                    [Flushed(tx[s]) EXCEPT !.moved = away,
                                           !.added = @ \cup {MovedTo(s, e) : e \in away}]]
              /\ Goto(s, "done")
-----------------------------------------------------------------------------
(* Ends                                                                    *)

(* Mutant: a match whose evidence failed goes on to its edge.              *)
OnRaiseCarriesOn(p) ==
    CASE p = "message" -> "draft"
      [] p = "matchEvidence" -> "matchEdge"
      [] p = "matchEdge" -> "draft"
      [] p = "draft" -> "containerEdge"
      [] p = "containerEdge" -> "done"
      [] OTHER -> "failed"

(* Who catches an exception: the loops over messages, matches, drafts and  *)
(* relationships do; a raise while an entity's blurb or a message's text   *)
(* is scanned, or from link or a merge, ends the unit of work.             *)
OnRaise(p) ==
    CASE p \in {"message", "matchEvidence", "matchEdge"} -> "draft"
      [] p = "draft" -> "containerEdge"
      [] p = "containerEdge" -> "done"
      [] OTHER -> "failed"

(* A statement raises on its own account: its SAVEPOINT is rolled back.    *)
Raise(s) == /\ pc[s] \notin {"idle", "done", "failed"}
            /\ faults < MaxFaults
            /\ faults' = faults + 1
            /\ Goto(s, OnRaise(pc[s]))
            /\ UNCHANGED <<tables, nextMsg, job, tx, held, units, overlapped>>

Close(s) == /\ Goto(s, "idle")
            /\ job' = [job EXCEPT ![s] = NoJob]
            /\ tx' = [tx EXCEPT ![s] = NoTx]
            /\ UNCHANGED <<nextMsg, units, faults, overlapped>>

(* What an UPDATE, INSERT or DELETE leaves of an edge.                     *)
Stored(t, k) ==
    IF k \in t.deleted THEN 0
    ELSE IF k \in t.written \cup t.dirty /\ t.mem[k] # t.base[k] THEN t.mem[k]
    ELSE edges[k]

(* Rows that s has repointed, under their new key.                         *)
Followed(s, rows) == {IF e \in tx[s].moved THEN MovedTo(s, e) ELSE e : e \in rows}

Commit(s) ==
    LET t == tx[s]
    IN  /\ pc[s] = "done"
        /\ ~MustWait(s, t, {})
        /\ ~Stale(t)
        /\ edges' = [k \in Edges |-> Stored(t, k)]
        /\ evidence' = (evidence \ t.moved) \cup t.added
        /\ container' = [m \in Msgs |-> IF t.placed[m] # None THEN t.placed[m]
                                        ELSE container[m]]
        /\ held' = [q \in Sessions |-> IF q = s THEN {} ELSE Followed(s, held[q])]
        /\ Close(s)

(* A failure nobody caught, a stale flush at the commit, a deadlock, a     *)
(* crash.                                                                  *)
Rollback(s) == /\ pc[s] # "idle"
               /\ Close(s)
               /\ held' = [held EXCEPT ![s] = {}]
               /\ UNCHANGED tables

Statement(s) ==
    /\ \/ MergeRows(s)
       \/ /\ \/ BlurbEvidence(s) \/ BlurbEdge(s) \/ Message(s) \/ Scan(s)
             \/ MatchEvidence(s) \/ MatchEdge(s) \/ Draft(s) \/ ContainerEdge(s)
             \/ LinkEdge(s) \/ LinkEvidence(s) \/ Correlation(s) \/ SameEdge(s)
             \/ MergeEdgesDone(s) \/ MergeMessages(s) \/ MergeEvidence(s)
             \/ \E k \in Edges : MergeEdge(s, k)
          /\ UNCHANGED held
    /\ UNCHANGED <<tables, units, faults, overlapped>>

Next ==
    \E s \in Sessions :
        \/ \E n \in Nodes : \/ \E o \in Contents : Ingest(s, n, o)
                            \/ \E c \in {Weak, Strong} : Link(s, n, c)
        \/ \E n, o \in Nodes : \/ \E c \in {Weak, Strong} : Correlate(s, n, o, c)
                               \/ Merge(s, n, o)
        \/ Statement(s) \/ Raise(s) \/ Commit(s) \/ Rollback(s)

Spec == Init /\ [][Next]_vars
-----------------------------------------------------------------------------
(* Properties                                                              *)

(* Every claim the graph makes is backed: an edge to an indicator or from  *)
(* a target is only ever stored with evidence of it, whatever is skipped,  *)
(* rolled back, merged or done at the same time (enrich.py, link).         *)
ClaimsBacked ==
    \A k \in Edges : edges[k] > 0 =>
        /\ k[2] = Ioc /\ k[1] \in Nodes => <<Ioc, "blurb">> \in evidence
        /\ k[2] = Ioc /\ k[1] \notin Nodes => <<Ioc, "message">> \in evidence
        /\ k[1] = Target => \E n \in Nodes : <<Target, n>> \in evidence

(* No observation is lost: evidence stays what it is until a merge         *)
(* repoints its row, and the survivor of that merge then has that row and  *)
(* had none like it, never one for two.  The row is about the dropped node *)
(* or, if merges overlap, was when it was loaded (block_evidence_mutation, *)
(* merge_entities).                                                        *)
EvidenceKept ==
    [][\A e \in evidence :
          \/ e \in evidence'
          \/ \E s \in Sessions :
                /\ job[s].kind = "merge"
                /\ MovedTo(s, e) \in evidence' \ evidence
                /\ job[s].other = e[1] \/ (overlapped /\ e \in held[s])]_vars

(* An edge that says where a message was posted agrees with the message's  *)
(* row, merges included, as long as units of work do not overlap.          *)
MessagesMatch ==
    ~overlapped => \A m \in Msgs : \A n \in Nodes :
                      edges[<<m, n>>] > 0 => container[m] = n

(* "confidence is kept at the maximum ever observed" (observe): a commit   *)
(* lowers no edge, and a merge leaves one at least as strong between the   *)
(* survivors, as long as units of work do not overlap.                     *)
ConfidenceKept ==
    [][\A s \in Sessions : Commit(s) /\ ~overlapped =>
          \A k \in Edges : edges[k] > 0 =>
              LET i == IF job[s].kind = "merge" THEN Image(s, k) ELSE k
              IN  i[1] = i[2] \/ edges'[i] >= edges[k]]_vars

(* "repoint every relationship / message / evidence row to the survivor"   *)
(* (resolver.py:7): when a merge commits nothing mentions the dropped node *)
(* any more, as long as units of work do not overlap.                      *)
MergeComplete ==
    [][\A s \in Sessions : Commit(s) /\ ~overlapped /\ job[s].kind = "merge" =>
          LET o == job[s].other
          IN  /\ \A k \in Edges : o \in {k[1], k[2]} => edges'[k] = 0
              /\ \A e \in evidence' : e[1] # o
              /\ \A m \in Msgs : container'[m] # o]_vars

(* The graph agrees with the rows it is drawn from, evidence and messages  *)
(* (IngestionService, IocEnricher, TargetResolver).                        *)
GraphConsistent == ClaimsBacked /\ MessagesMatch

(* Units of work one after another only add to the graph: none weakens an  *)
(* edge, and a merge leaves nothing of the dropped node (observe,          *)
(* merge_entities).                                                        *)
SerialWorkKeeps == ConfidenceKept /\ MergeComplete
=============================================================================
