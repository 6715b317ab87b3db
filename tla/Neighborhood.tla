--------------------------- MODULE Neighborhood ---------------------------
(***************************************************************************)
(* The one traversal of the graph store (GraphStore.neighborhood): the     *)
(* subgraph induced by the nodes at most depth hops from a node, following *)
(* edges in both directions.  An edge is a pair <<source, target>>.        *)
(***************************************************************************)
EXTENDS Naturals

Subgraph(nodes, edges) == [nodes |-> nodes, edges |-> edges]
EmptySubgraph == Subgraph({}, {})

\* Mutant: add_edge keeps one direction.
AdjacentOneWay(edges, n) == {e[2] : e \in {x \in edges : x[1] = n}}

(* The adjacency kept by add_edge and add_edges: both directions.          *)
Adjacent(edges, n) ==
    {e[2] : e \in {x \in edges : x[1] = n}} \cup {e[1] : e \in {x \in edges : x[2] = n}}

(* A round of the loop of InMemoryGraphStore.neighborhood.  An empty       *)
(* frontier, where the code breaks out, leaves both sets as they are.      *)
Expand(g, before) ==
    LET found == UNION {Adjacent(g.edges, m) : m \in before.frontier}
        next == found \ before.visited
    IN  [visited |-> before.visited \cup next, frontier |-> next]

(* visited and frontier after each round.                                  *)
Rounds(g, n) ==
    LET round[i \in Nat] == IF i = 0 THEN [visited |-> {n}, frontier |-> {n}]
                            ELSE Expand(g, round[i - 1])
    IN  round

Visited(g, n, depth) == Rounds(g, n)[depth].visited

\* Mutant: an edge comes with either of its ends.
Touching(g, nodes) ==
    Subgraph(nodes, {e \in g.edges : e[1] \in nodes \/ e[2] \in nodes})

Induced(g, nodes) ==
    Subgraph(nodes, {e \in g.edges : e[1] \in nodes /\ e[2] \in nodes})

Hood(g, n, depth) ==
    IF n \in g.nodes THEN Induced(g, Visited(g, n, depth)) ELSE EmptySubgraph

(* Neo4jGraphStore.neighborhood: where a match of the path pattern ends,   *)
(* with the relationships it uses.  Cypher uses none twice in a match, but *)
(* nodes may repeat.                                                       *)
Follow(t, e) ==
    [end |-> IF e[1] = t.end THEN e[2] ELSE e[1], used |-> t.used \cup {e}]

Longer(g, t) == {Follow(t, e) : e \in {x \in g.edges \ t.used : t.end \in {x[1], x[2]}}}

(* The matches of each length.                                             *)
Trails(g, n) ==
    LET trails[k \in Nat] == IF k = 0 THEN {[end |-> n, used |-> {}]}
                             ELSE UNION {Longer(g, t) : t \in trails[k - 1]}
    IN  trails

CypherOthers(g, n, hops) == UNION {{t.end : t \in Trails(g, n)[k]} : k \in 1..hops}

(* No hops is get_node: the node without its edges.                        *)
CypherHood(g, n, hops) ==
    IF n \notin g.nodes THEN EmptySubgraph
    ELSE IF hops = 0 THEN Subgraph({n}, {})
    ELSE LET found == {n} \cup CypherOthers(g, n, hops)
         IN  Subgraph(found, {e \in g.edges : \E a, b \in found : e = <<a, b>>})
=============================================================================
