-------------------------------- MODULE Explain --------------------------------
(***************************************************************************)
(* explain: the causal neighborhood of a record, by breadth-first search   *)
(* over lineage edges in both directions, under limits on depth, nodes and *)
(* edges. Both kernels' searches, with each loop as a recursive function   *)
(* of the number of its rounds, and what they should find.                 *)
(***************************************************************************)
EXTENDS Integers, FiniteSets, SequencesExt

CONSTANTS
    MaxNodes,   \* 500 in the code
    MaxEdges    \* 2000 in the code

ASSUME ExplainAssumption == MaxNodes \in Nat \ {0} /\ MaxEdges \in Nat

Touching(S, e) == e.from \in S \/ e.to \in S

\* The edges at a set of nodes, by their places in the order of creation: the first
\* of them, and whether there are more than the query returns.
EdgesAt(lineage, S) ==
    LET all == {i \in DOMAIN lineage : Touching(S, lineage[i])} IN
    [places    |-> {i \in all : Cardinality(all \cap (1..i)) <= MaxEdges},
     truncated |-> Cardinality(all) > MaxEdges]

\* The ends of an edge that are not queued yet, as a sequence.
NewNeighbors(s, e) ==
    (IF e.from \in s.queued THEN <<>> ELSE <<e.from>>)
        \o (IF e.to \in s.queued THEN <<>> ELSE <<e.to>>)

\* Mutant: what a full answer leaves out is not told.
IncludeEdgeSilently(s, e) ==
    LET new == NewNeighbors(s, e) IN
    IF e \in s.edges \/ Cardinality(s.edges) >= MaxEdges
                     \/ Cardinality(s.queued) + Len(new) > MaxNodes
    THEN s
    ELSE [s EXCEPT !.edges = @ \cup {e}, !.queued = @ \cup ToSet(new), !.next = @ \o new]

\* One edge of a result: included unless a limit is reached, together with the
\* node that it leads to.
IncludeEdge(s, e) ==
    LET new == NewNeighbors(s, e) IN
    CASE e \in s.edges -> s
      [] e \notin s.edges /\ Cardinality(s.edges) >= MaxEdges -> [s EXCEPT !.truncated = TRUE]
      [] e \notin s.edges /\ Cardinality(s.edges) < MaxEdges
            /\ Cardinality(s.queued) + Len(new) > MaxNodes -> [s EXCEPT !.truncated = TRUE]
      [] OTHER -> [s EXCEPT !.edges = @ \cup {e}, !.queued = @ \cup ToSet(new),
                            !.next = @ \o new]

\* What there is after n places of the lineage, those of a result among them.
Including(lineage, places, s) ==
    LET after[n \in 0..Len(lineage)] ==
            IF n = 0 THEN s
            ELSE LET before == after[n - 1] IN
                 IF n \in places THEN IncludeEdge(before, lineage[n]) ELSE before
    IN after

IncludeEdges(lineage, places, s) ==
    Including(lineage, places, [s EXCEPT !.next = <<>>])[Len(lineage)]

\* A search begins: the frontier holds what will be loaded next, in the embedded
\* kernel with the depth at which it was found.
Search(root, first) ==
    [nodes |-> {}, edges |-> {}, queued |-> {root}, truncated |-> FALSE,
     missing |-> FALSE, frontier |-> <<first>>, next |-> <<>>]

\* loadTraceNodes: the records of a level; the call fails if one of them is missing.
LoadTraceNodes(records, s, depth) ==
    [s EXCEPT !.nodes = @ \cup {[ref |-> n, depth |-> depth] : n \in ToSet(s.frontier)},
              !.missing = @ \/ ~(ToSet(s.frontier) \subseteq records)]

\* One level of the production kernel's search. When the edges are used up, the
\* search goes on to the next level with the frontier it has.
Level(records, lineage, maxDepth, s, depth) ==
    LET loaded == LoadTraceNodes(records, s, depth)
        used   == Cardinality(s.edges) >= MaxEdges
        found  == EdgesAt(lineage, ToSet(s.frontier))
        after  == IncludeEdges(lineage, found.places, loaded)
    IN
    CASE s.frontier = <<>> -> s
      [] s.frontier # <<>> /\ (depth >= maxDepth \/ used) ->
            [loaded EXCEPT !.truncated = @ \/ used]
      [] OTHER -> [after EXCEPT !.frontier = after.next,
                                !.truncated = @ \/ found.truncated]

\* The search after each number of levels.
Levels(records, lineage, root, maxDepth) ==
    LET level[n \in 0..(maxDepth + 1)] ==
            IF n = 0 THEN Search(root, root)
            ELSE LET before == level[n - 1] IN Level(records, lineage, maxDepth, before, n - 1)
    IN level

ExplainTrace(records, lineage, root, maxDepth) ==
    Levels(records, lineage, root, maxDepth)[maxDepth + 1]

\* loadTraceNode: the same of one node.
LoadTraceNode(records, s, node) ==
    [s EXCEPT !.nodes = @ \cup {node}, !.missing = @ \/ node.ref \notin records]

\* The embedded kernel takes one node at a time from a queue.
Visit(records, lineage, maxDepth, s) ==
    LET node   == Head(s.frontier)
        loaded == [LoadTraceNode(records, s, node) EXCEPT !.frontier = Tail(@)]
        used   == Cardinality(s.edges) >= MaxEdges
        found  == EdgesAt(lineage, {node.ref})
        after  == IncludeEdges(lineage, found.places, loaded)
        placed == [n \in DOMAIN after.next |-> [ref |-> after.next[n], depth |-> node.depth + 1]]
    IN
    CASE s.frontier = <<>> -> s
      [] s.frontier # <<>> /\ node.depth >= maxDepth -> loaded
      [] s.frontier # <<>> /\ node.depth < maxDepth /\ used -> [loaded EXCEPT !.truncated = TRUE]
      [] OTHER -> [after EXCEPT !.frontier = @ \o placed, !.truncated = @ \/ found.truncated]

\* The search after each number of nodes; no more than MaxNodes are ever queued.
Visits(records, lineage, root, maxDepth) ==
    LET visit[n \in 0..MaxNodes] ==
            IF n = 0 THEN Search(root, [ref |-> root, depth |-> 0])
            ELSE LET before == visit[n - 1] IN Visit(records, lineage, maxDepth, before)
    IN visit

EmbeddedExplain(records, lineage, root, maxDepth) ==
    Visits(records, lineage, root, maxDepth)[MaxNodes]

-----------------------------------------------------------------------------
\* The nodes within 0, 1, ... maxDepth steps of a root.
Balls(lineage, root, maxDepth) ==
    LET ball[d \in 0..maxDepth] ==
            IF d = 0 THEN {root}
            ELSE LET inner == ball[d - 1] IN
                 inner \cup UNION {{e.from, e.to} : e \in {f \in ToSet(lineage) : Touching(inner, f)}}
    IN ball

\* What an answer that is not truncated should hold: every node within the depth
\* once, at its distance, and every edge at a node nearer than the depth.
Neighborhood(lineage, root, maxDepth) ==
    LET ball == Balls(lineage, root, maxDepth) IN
    [nodes |-> UNION {{[ref |-> n, depth |-> d] :
                            n \in ball[d] \ (IF d = 0 THEN {} ELSE ball[d - 1])} : d \in 0..maxDepth},
     edges |-> {e \in ToSet(lineage) : maxDepth > 0 /\ Touching(ball[maxDepth - 1], e)}]

\* An answer is the neighborhood; one that says it is truncated may lack some. No
\* record is missing.
Tells(answer, lineage, root, maxDepth) ==
    LET whole == Neighborhood(lineage, root, maxDepth) IN
    /\ ~answer.missing
    /\ answer.edges \subseteq whole.edges
    /\ ~answer.truncated => answer.nodes = whole.nodes /\ answer.edges = whole.edges
=============================================================================
