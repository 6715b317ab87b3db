----------------------------- MODULE Correlate -----------------------------
(***************************************************************************)
(* GET /api/correlate (correlate.py, similar.py) while ingestion goes on:  *)
(* resolve an indicator, take its neighbourhood, then add an edge to each  *)
(* similar campaign.  Every read is a query of its own on the graph or on  *)
(* the vector store, and the answer is put together from all of them.      *)
(***************************************************************************)
EXTENDS GraphIngest, FiniteSets

CONSTANTS Questions,    \* the candidates parse_iocs finds in a query, best first
          Depths,       \* ?depth=
          MaxSimilar    \* ?k=

ASSUME QuestionsAssumption == Questions \subseteq Seq(Indicators)
ASSUME DepthsAssumption == Depths \subseteq 1..4

VARIABLES phase,        \* where the request is
          candidates,   \* left to resolve
          query,        \* its depth, and whether it asks for semantic edges
          answer,       \* nodes, edges, and semantic links
          anchors,      \* campaigns of the answer left to compare
          anchor, similar \* the campaign at hand and its neighbours left to join

readVars == <<phase, candidates, query, answer, anchors, anchor, similar>>

Queries == [depth : Depths, semantic : BOOLEAN]
NoQuery == [depth |-> 1, semantic |-> FALSE]
NoAnswer == [nodes |-> {}, edges |-> {}, links |-> {}]
CorrelateTypeOK ==
    /\ phase \in {"idle", "resolve", "traverse", "search", "join"}
    /\ query \in Queries \cup {NoQuery}
    /\ answer.nodes \subseteq Hubs \cup Entities
    /\ answer.links \subseteq Hubs \X Hubs
    /\ anchors \cup similar \subseteq Hubs

CorrelateInit ==
    /\ phase = "idle"
    /\ candidates = <<>>
    /\ query = NoQuery
    /\ answer = NoAnswer
    /\ anchors = {}
    /\ anchor = NoHub
    /\ similar = {}

-----------------------------------------------------------------------------
Ask(q) ==
    /\ phase = "idle"
    /\ phase' = "resolve"
    /\ candidates' = q
    /\ query' \in Queries
    /\ answer' = NoAnswer
    /\ UNCHANGED <<anchors, anchor, similar>>

(* The answer is sent, or a 404, or the API process dies.                  *)
RequestOver ==
    /\ phase' = "idle"
    /\ candidates' = <<>>
    /\ query' = NoQuery
    /\ answer' = NoAnswer
    /\ anchors' = {}
    /\ anchor' = NoHub
    /\ similar' = {}

NotFound ==
    /\ phase = "resolve"
    /\ candidates = <<>>
    /\ RequestOver

(* get_node finds nothing: on to the next candidate.                       *)
Unresolved ==
    /\ phase = "resolve"
    /\ candidates # <<>>
    /\ Head(candidates) \notin nodes
    /\ candidates' = Tail(candidates)
    /\ UNCHANGED <<phase, query, answer, anchors, anchor, similar>>

Resolved ==
    /\ phase = "resolve"
    /\ candidates # <<>>
    /\ Head(candidates) \in nodes
    /\ phase' = "traverse"
    /\ UNCHANGED <<candidates, query, answer, anchors, anchor, similar>>

Traverse ==
    /\ phase = "traverse"
    /\ LET hood == Hood(Subgraph(nodes, edges), Head(candidates), query.depth)
       IN  /\ answer' = [nodes |-> hood.nodes, edges |-> hood.edges, links |-> {}]
           /\ anchors' = IF query.semantic THEN hood.nodes \cap Hubs ELSE {}
    /\ phase' = "search"
    /\ UNCHANGED <<candidates, query, anchor, similar>>

(* similar(): the anchor's vector, then its nearest others.  Which are     *)
(* nearest, and which score enough, is left open.                          *)
Search(h) ==
    /\ phase = "search"
    /\ h \in anchors
    /\ anchors' = anchors \ {h}
    /\ anchor' = h
    /\ similar' \in
          IF vectors[h] = NoText THEN {{}}
          ELSE {S \in SUBSET {c \in Hubs \ {h} : vectors[c] # NoText} :
                    Cardinality(S) <= MaxSimilar}
    /\ phase' = "join"
    /\ UNCHANGED <<candidates, query, answer>>

\* Mutant: the node of a neighbour is not looked up.
JoinUnseen(h) ==
    /\ phase = "join"
    /\ h \in similar
    /\ similar' = similar \ {h}
    /\ answer' = [answer EXCEPT !.nodes = @ \cup {h}, !.links = @ \cup {<<anchor, h>>}]
    /\ UNCHANGED <<phase, candidates, query, anchors, anchor>>

\* Mutant: a neighbour without a node keeps its edge.
JoinAnyway(h) ==
    /\ phase = "join"
    /\ h \in similar
    /\ similar' = similar \ {h}
    /\ answer' = [answer EXCEPT !.nodes = @ \cup ({h} \cap nodes),
                                !.links = @ \cup {<<anchor, h>>}]
    /\ UNCHANGED <<phase, candidates, query, anchors, anchor>>

(* A neighbour that is not in the answer comes with its node, if there is  *)
(* one: its vector may be there without it.                                *)
Join(h) ==
    /\ phase = "join"
    /\ h \in similar
    /\ similar' = similar \ {h}
    /\ answer' = IF h \in answer.nodes \cup nodes
                 THEN [answer EXCEPT !.nodes = @ \cup {h},
                                     !.links = @ \cup {<<anchor, h>>}]
                 ELSE answer
    /\ UNCHANGED <<phase, candidates, query, anchors, anchor>>

Joined ==
    /\ phase = "join"
    /\ similar = {}
    /\ phase' = "search"
    /\ anchor' = NoHub
    /\ UNCHANGED <<candidates, query, answer, anchors, similar>>

Reply ==
    /\ phase = "search"
    /\ anchors = {}
    /\ RequestOver

CorrelateNext ==
    \/ \E q \in Questions : Ask(q)
    \/ NotFound
    \/ Unresolved
    \/ Resolved
    \/ Traverse
    \/ \E h \in Hubs : Search(h) \/ Join(h)
    \/ Joined
    \/ Reply

-----------------------------------------------------------------------------
(* Properties.                                                             *)

(* An answer put together while ingestion goes on, from a graph and from   *)
(* vectors that need not agree, has both ends of each of its edges...      *)
AnswerClosed ==
    Ends(answer.edges \cup answer.links) \subseteq answer.nodes

(* ... and names no node the graph does not have.                          *)
AnswerKnown == answer.nodes \subseteq nodes

=============================================================================
