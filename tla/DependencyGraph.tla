-------------------------- MODULE DependencyGraph ---------------------------
(***************************************************************************)
(* How far a change reaches along the dependencies between records         *)
(* (services/dependencies/service.py): a breadth-first search, bounded in  *)
(* depth, over a table of edges in the order they were created.            *)
(***************************************************************************)
EXTENDS Integers, SequencesExt

MAX_TRAVERSAL_DEPTH == 5

TraversalDirection == {"OUTGOING", "INCOMING", "BOTH"}

(* min(max(1, depth), MAX_TRAVERSAL_DEPTH) *)
BoundedDepth(depth) ==
    IF depth < 1 THEN 1 ELSE IF depth > MAX_TRAVERSAL_DEPTH THEN MAX_TRAVERSAL_DEPTH ELSE depth

(* The elements of a sequence at the places I, in their order. *)
Picked(seq, I) ==
    [k \in 1 .. Cardinality(I) |-> seq[CHOOSE i \in I : Cardinality({j \in I : j <= i}) = k]]

(* The records one edge away from r, the targets of its edges before the *)
(* sources of those that point to it.                                    *)
NextNodes(edges, r, direction) ==
    LET out == {i \in DOMAIN edges : edges[i].from = r /\ direction \in {"OUTGOING", "BOTH"}}
        in  == {i \in DOMAIN edges : edges[i].to = r /\ direction \in {"INCOMING", "BOTH"}}
    IN  Picked([i \in DOMAIN edges |-> edges[i].to], out)
        \o Picked([i \in DOMAIN edges |-> edges[i].from], in)

(* What an edge list adds to a search: every record that was not visited, at *)
(* its first edge.                                                           *)
Fresh(next, visited) ==
    Picked(next, {i \in DOMAIN next : next[i] \notin visited
                                      /\ \A j \in 1 .. i - 1 : next[j] # next[i]})

(* Mutant of Expand: the search goes one step too far. *)
Expand_OneTooFar(search, edges, direction, bound) ==
    LET head == Head(search.queue)
        found == IF head.depth > bound THEN <<>>
                 ELSE Fresh(NextNodes(edges, head.node, direction), search.visited)
        paths == [i \in DOMAIN found |-> [node |-> found[i], depth |-> head.depth + 1]]
    IN  [queue   |-> Tail(search.queue) \o paths,
         visited |-> search.visited \cup ToSet(found),
         paths   |-> search.paths \o paths]

(* One round of the loop: the head of the queue is dequeued and expanded. *)
(* A path is the record it ends in and its length.                        *)
Expand(search, edges, direction, bound) ==
    LET head == Head(search.queue)
        found == IF head.depth >= bound THEN <<>>
                 ELSE Fresh(NextNodes(edges, head.node, direction), search.visited)
        paths == [i \in DOMAIN found |-> [node |-> found[i], depth |-> head.depth + 1]]
    IN  [queue   |-> Tail(search.queue) \o paths,
         visited |-> search.visited \cup ToSet(found),
         paths   |-> search.paths \o paths]

(* The loop, from the root until the queue is empty: the paths found. *)
TraverseGraph(edges, root, direction, depth) ==
    LET nodes == {root} \cup UNION {{edges[i].from, edges[i].to} : i \in DOMAIN edges}
        Path == [node : nodes, depth : Nat]
        loop[search \in [queue : Seq(Path), visited : SUBSET nodes, paths : Seq(Path)]] ==
            IF search.queue = <<>> THEN search.paths
            ELSE loop[Expand(search, edges, direction, BoundedDepth(depth))]
    IN  loop[[queue |-> <<[node |-> root, depth |-> 0]>>, visited |-> {root}, paths |-> <<>>]]

(* Reference: the records within an edge of those in near. *)
Around(edges, near, direction) ==
    near \cup {edges[i].to : i \in {j \in DOMAIN edges :
                   edges[j].from \in near /\ direction \in {"OUTGOING", "BOTH"}}}
         \cup {edges[i].from : i \in {j \in DOMAIN edges :
                   edges[j].to \in near /\ direction \in {"INCOMING", "BOTH"}}}

(* Reference: the records within n edges of the root. *)
Ball(edges, root, direction, n) ==
    LET near[i \in 0 .. n] == IF i = 0 THEN {root} ELSE Around(edges, near[i - 1], direction)
    IN  near[n]
=============================================================================
