----------------------------- MODULE GraphView ------------------------------
(***************************************************************************)
(* GraphService._bfs (intelligence/relationships/graph.py): the view of a  *)
(* target's or an entity's neighbourhood, one SELECT per node, while other *)
(* sessions commit edges.  Relationships are taken as undirected: _bfs     *)
(* follows both ends, and the direction is only shown.                     *)
(***************************************************************************)
EXTENDS Naturals, Sequences, FiniteSets

CONSTANTS GraphNodes,   \* entities
          NodeLimits,   \* max_nodes, as callers give it
          EdgeLimit,    \* the LIMIT of _edges_for
          Depths,       \* depths asked for, within 1.._MAX_DEPTH
          MaxGrowth     \* bound: edges committed meanwhile

ASSUME GraphViewAssumption == /\ IsFiniteSet(GraphNodes)
                              /\ NodeLimits \subseteq Nat \ {0} /\ EdgeLimit \in Nat \ {0}
                              /\ Depths \subseteq 1..3 /\ MaxGrowth \in Nat

Relations == {{p[1], p[2]} : p \in {q \in GraphNodes \X GraphNodes : q[1] # q[2]}}

VARIABLES
    graph,     \* committed relationships
    before,    \* history: those committed when the view was asked for
    bfs        \* the traversal

viewVars == <<graph, before, bfs>>

(* queue: nodes to visit with their distance; nodes, links: what the view  *)
(* has; cut: history, a node had more relationships than EdgeLimit.        *)
NewBfs(at, seeds, depth, limit) ==
    [at |-> at, queue |-> [i \in DOMAIN seeds |-> <<seeds[i], 0>>], seeds |-> seeds, depth |-> depth,
     limit |-> limit, nodes |-> {}, links |-> {}, truncated |-> FALSE, cut |-> FALSE]

(* Types; in particular a view never has more nodes than were asked for.   *)
ViewTypeOK == /\ graph \subseteq Relations
              /\ before \subseteq graph
              /\ bfs.queue \in Seq(GraphNodes \X (0..3))
              /\ bfs.nodes \subseteq GraphNodes
              /\ Cardinality(bfs.nodes) <= bfs.limit
              /\ bfs.links \subseteq graph
              /\ bfs.truncated \in BOOLEAN /\ bfs.cut \in BOOLEAN
              /\ bfs.at \in {"idle", "running", "done"}

(* neighbourhood starts at one entity, for_target at the target and the    *)
(* entities resolved to it.                                                *)
Seeds == {<<a>> : a \in GraphNodes}
         \cup {<<p[1], p[2]>> : p \in {q \in GraphNodes \X GraphNodes : q[1] # q[2]}}

ViewInit ==
    /\ graph \in SUBSET Relations
    /\ before = graph
    /\ bfs = NewBfs("idle", <<>>, 0, 0)

AskView == /\ bfs.at = "idle"
           /\ \E s \in Seeds, d \in Depths, m \in NodeLimits : bfs' = NewBfs("running", s, d, m)
           /\ UNCHANGED <<graph, before>>

Grow == /\ bfs.at = "running"
        /\ Cardinality(graph \ before) < MaxGrowth
        /\ \E l \in Relations \ graph : graph' = graph \cup {l}
        /\ UNCHANGED <<before, bfs>>

(* _edges_for: the relationships of the highest confidence; which those    *)
(* are is left open.                                                       *)
EdgesOf(n) == {l \in graph : n \in l}

Limited(n) == {S \in SUBSET EdgesOf(n) :
                 Cardinality(S) = IF Cardinality(EdgesOf(n)) > EdgeLimit THEN EdgeLimit
                                  ELSE Cardinality(EdgesOf(n))}

(* The neighbours, in an order in which their rows may come.               *)
Queued(nodes, d) == {q \in [1..Cardinality(nodes) -> nodes \X {d}] :
                       \A i, j \in DOMAIN q : i # j => q[i] # q[j]}

(* Mutant: the node queued last is visited first.                          *)
PopLast(b) == [next |-> b.queue[Len(b.queue)],
               rest |-> SubSeq(b.queue, 1, Len(b.queue) - 1)]

PopLeft(b) == [next |-> Head(b.queue), rest |-> Tail(b.queue)]

Ends == bfs.queue = <<>>

(* Mutant: one node more than was asked for.                               *)
FullBeyond(nodes) == Cardinality(nodes) > bfs.limit

(* The view has as many nodes as were asked for.                           *)
Full(nodes) == Cardinality(nodes) >= bfs.limit

(* One turn of the loop.                                                   *)
Visit ==
    /\ bfs.at = "running" /\ ~Ends /\ ~bfs.truncated
    /\ LET n == PopLeft(bfs).next[1]
           d == PopLeft(bfs).next[2]
           rest == PopLeft(bfs).rest
           nodes == bfs.nodes \cup {n}
       IN  \/ n \in bfs.nodes /\ bfs' = [bfs EXCEPT !.queue = rest]
           \/ /\ n \notin bfs.nodes /\ Full(nodes)
              /\ bfs' = [bfs EXCEPT !.queue = rest, !.nodes = nodes, !.truncated = TRUE]
           \/ /\ n \notin bfs.nodes /\ ~Full(nodes) /\ d >= bfs.depth
              /\ bfs' = [bfs EXCEPT !.queue = rest, !.nodes = nodes]
           \/ /\ n \notin bfs.nodes /\ ~Full(nodes) /\ d < bfs.depth
              /\ \E S \in Limited(n) : \E more \in Queued((UNION S) \ nodes, d + 1) :
                    bfs' = [bfs EXCEPT !.queue = rest \o more, !.nodes = nodes,
                                       !.links = @ \cup S,
                                       !.cut = @ \/ S # EdgesOf(n)]
    /\ UNCHANGED <<graph, before>>

(* Only the edges with both ends among the nodes are kept.                 *)
Kept(b) == {l \in b.links : l \subseteq b.nodes}

Return == /\ bfs.at = "running" /\ (Ends \/ bfs.truncated)
          /\ bfs' = [bfs EXCEPT !.at = "done", !.links = Kept(bfs)]
          /\ UNCHANGED <<graph, before>>

ViewNext == AskView \/ Grow \/ Visit \/ Return
-----------------------------------------------------------------------------
(* Properties.                                                             *)

(* The entities within a distance of the seeds.                            *)
Ball(links, seeds, depth) ==
    LET ball[k \in 0..3] ==
          IF k = 0 THEN {seeds[i] : i \in DOMAIN seeds}
          ELSE ball[k - 1] \cup UNION {l \in links : l \cap ball[k - 1] # {}}
    IN  ball[depth]

(* A view that was neither truncated nor short of relationships holds all  *)
(* that was within its depth when it was asked for, and nothing that is    *)
(* not within it when it returns; truncated or not, its edges join its     *)
(* nodes (graph.py:183 "keep only edges whose both ends are in the node    *)
(* set").                                                                  *)
ViewIsNeighbourhood ==
    bfs.at = "done" =>
        /\ \A l \in bfs.links : l \subseteq bfs.nodes
        /\ bfs.nodes \subseteq Ball(graph, bfs.seeds, bfs.depth)
        /\ bfs.truncated \/ bfs.cut \/ Ball(before, bfs.seeds, bfs.depth) \subseteq bfs.nodes
=============================================================================
