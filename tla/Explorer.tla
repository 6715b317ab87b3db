----------------------------- MODULE Explorer -----------------------------
(***************************************************************************)
(* Graph exploration in the web UI (useGraph.ts with SearchBar.tsx,        *)
(* GraphView.tsx and App.tsx): a search replaces the graph on screen, a    *)
(* double tap merges a node's neighbourhood into it.  Both are API calls   *)
(* whose answers come back in any order, into whatever is on screen then.  *)
(*                                                                         *)
(* The code after an await runs as one callback, so each answer is one     *)
(* step, and React batches the setState calls of a step.                   *)
(***************************************************************************)
EXTENDS Neighborhood

CONSTANTS Threats,      \* the graph the API serves, which stays the same
          Findable,     \* the nodes a search can find: its indicators
          Unknown,      \* any other text: nothing to find, or no indicator
          NoNode,       \* selectedId is null
          MaxCalls      \* bound: calls in flight at a time

ASSUME ThreatsAssumption ==
    /\ \A e \in Threats.edges : e[1] \in Threats.nodes /\ e[2] \in Threats.nodes
    /\ Findable \subseteq Threats.nodes
    /\ Unknown \notin Threats.nodes
    /\ NoNode \notin Threats.nodes \cup {Unknown}
ASSUME MaxCallsAssumption == MaxCalls \in Nat \ {0}

Nodes == Threats.nodes

VARIABLES graph,        \* the subgraph on screen
          selectedId,
          loading,
          error,        \* an error message is shown
          calls         \* calls[c]: what slot c is waiting for, or Free

explorerVars == <<graph, selectedId, loading, error, calls>>

Slots == 1..MaxCalls
Free == [op |-> "none", arg |-> NoNode]
Requests == [op : {"search"}, arg : Findable \cup {Unknown}] \cup [op : {"expand"}, arg : Nodes]
InFlight == {c \in Slots : calls[c] # Free}

ExplorerTypeOK ==
    /\ graph.nodes \subseteq Nodes /\ graph.edges \subseteq Threats.edges
    /\ selectedId \in Nodes \cup {NoNode}
    /\ loading \in BOOLEAN /\ error \in BOOLEAN
    /\ calls \in [Slots -> Requests \cup {Free}]

ExplorerInit ==
    /\ graph = EmptySubgraph
    /\ selectedId = NoNode
    /\ loading = FALSE
    /\ error = FALSE
    /\ calls = [c \in Slots |-> Free]

(* The answers of GET /api/correlate?depth=2 and GET /api/expand?depth=1.  *)
Correlated == [n \in Findable |-> Hood(Threats, n, 2)]
Expanded == [n \in Nodes |-> Hood(Threats, n, 1)]

-----------------------------------------------------------------------------
(* App's selectedNode: the panel shows the selection if it is on screen.   *)
SelectedNode == IF selectedId \in graph.nodes THEN selectedId ELSE NoNode

(* mergeSubgraphs: keyed by id and by (source, type, target).              *)
Merge(current, incoming) ==
    Subgraph(current.nodes \cup incoming.nodes, current.edges \cup incoming.edges)

(* Both operations start alike: spinner on, message off, call sent.        *)
Send(request) ==
    /\ loading' = TRUE
    /\ error' = FALSE
    /\ \E c \in Slots \ InFlight :
          /\ \A d \in Slots \ InFlight : c <= d
          /\ calls' = [calls EXCEPT ![c] = request]

(* The submit button is disabled while loading, and with it the form.      *)
Search(value) ==
    /\ ~loading
    /\ Send([op |-> "search", arg |-> value])
    /\ UNCHANGED <<graph, selectedId>>

(* A tap selects; the second of a double tap selects and expands.          *)
Tap(n) ==
    /\ n \in graph.nodes
    /\ selectedId' = n
    /\ UNCHANGED <<graph, loading, error, calls>>

DoubleTap(n) ==
    /\ n \in graph.nodes
    /\ selectedId' = n
    /\ Send([op |-> "expand", arg |-> n])
    /\ graph' = graph

(* The panel's close button: select(null).                                 *)
Close ==
    /\ SelectedNode # NoNode
    /\ selectedId' = NoNode
    /\ UNCHANGED <<graph, loading, error, calls>>

\* Mutant: the spinner goes off with the last call in flight only.
SettleWhenLast(c) ==
    /\ calls' = [calls EXCEPT ![c] = Free]
    /\ loading' = (InFlight # {c})

(* The finally blocks.                                                     *)
Settle(c) ==
    /\ calls' = [calls EXCEPT ![c] = Free]
    /\ loading' = FALSE

SearchAnswered(c) ==
    /\ calls[c].op = "search"
    /\ calls[c].arg \in Findable
    /\ graph' = Correlated[calls[c].arg]
    /\ selectedId' = NoNode
    /\ Settle(c)
    /\ error' = error

(* 404, or any other status, or no connection.                             *)
SearchFailed(c) ==
    /\ calls[c].op = "search"
    /\ graph' = EmptySubgraph
    /\ error' = TRUE
    /\ Settle(c)
    /\ selectedId' = selectedId

ExpandAnswered(c) ==
    /\ calls[c].op = "expand"
    /\ graph' = Merge(graph, Expanded[calls[c].arg])
    /\ Settle(c)
    /\ UNCHANGED <<selectedId, error>>

\* Mutant: setLoading(false) is not in a finally block.
ExpandFailedLoading(c) ==
    /\ calls[c].op = "expand"
    /\ error' = TRUE
    /\ calls' = [calls EXCEPT ![c] = Free]
    /\ UNCHANGED <<graph, selectedId, loading>>

ExpandFailed(c) ==
    /\ calls[c].op = "expand"
    /\ error' = TRUE
    /\ Settle(c)
    /\ UNCHANGED <<graph, selectedId>>

UserStep ==
    \/ \E value \in Findable \cup {Unknown} : Search(value)
    \/ \E n \in Nodes : Tap(n)
    \/ \E n \in Nodes : DoubleTap(n)
    \/ Close

Answer(c) ==
    \/ SearchAnswered(c)
    \/ SearchFailed(c)
    \/ ExpandAnswered(c)
    \/ ExpandFailed(c)

ExplorerNext == UserStep \/ \E c \in Slots : Answer(c)

-----------------------------------------------------------------------------
(* Properties.                                                             *)

(* The spinner never outlives the last call in flight.                     *)
NoStuckSpinner == InFlight = {} => ~loading

(* Edges on screen have both ends on screen: Cytoscape throws on others.   *)
EdgesHaveEnds ==
    \A e \in graph.edges : e[1] \in graph.nodes /\ e[2] \in graph.nodes
=============================================================================
