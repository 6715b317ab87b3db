-------------------------- MODULE ExplorerProofs --------------------------
(***************************************************************************)
(* ExplorerApp, for every graph, any number of calls in flight and any     *)
(* order of their answers: the state stays well typed with the panel on    *)
(* the selected node, no spinner outlives its calls, edges on screen have  *)
(* their ends, and a panel has one narrative in flight at a time.          *)
(***************************************************************************)
EXTENDS ExplorerApp, NeighborhoodProofs

-----------------------------------------------------------------------------
(* What the API answers with.                                              *)

LEMMA Answers ==
    ASSUME NEW n, NEW d \in Nat
    PROVE  /\ Hood(Threats, n, d).nodes \subseteq Nodes
           /\ Hood(Threats, n, d).edges \subseteq Threats.edges
           /\ \A e \in Hood(Threats, n, d).edges :
                 e[1] \in Hood(Threats, n, d).nodes /\ e[2] \in Hood(Threats, n, d).nodes
<1>1. /\ Hood(Threats, n, d).nodes \subseteq Nodes
      /\ Hood(Threats, n, d).edges \subseteq Threats.edges
  BY HoodIn, ThreatsAssumption DEF Nodes
<1>2. CASE n \in Threats.nodes
  BY <1>1, <1>2 DEF Hood, Induced, Subgraph
<1>3. CASE n \notin Threats.nodes
  BY <1>1, <1>3 DEF Hood, EmptySubgraph, Subgraph
<1> QED
  BY <1>2, <1>3

(* A subgraph of the served graph that can be drawn.                       *)
Drawable(g) ==
    /\ g.nodes \subseteq Nodes
    /\ g.edges \subseteq Threats.edges
    /\ \A e \in g.edges : e[1] \in g.nodes /\ e[2] \in g.nodes

LEMMA EmptyDrawable == Drawable(EmptySubgraph)
  BY DEF Drawable, EmptySubgraph, Subgraph

LEMMA CorrelatedDrawable ==
    ASSUME NEW n \in Findable PROVE Drawable(Correlated[n])
  BY Answers DEF Drawable, Correlated

LEMMA MergedDrawable ==
    ASSUME NEW g, Drawable(g), NEW n \in Nodes
    PROVE  Drawable(Merge(g, Expanded[n]))
<1>1. Drawable(Expanded[n])
  BY Answers DEF Drawable, Expanded
<1> QED
  BY <1>1 DEF Drawable, Merge, Subgraph

-----------------------------------------------------------------------------
(* The explorer: a spinner means a call is in flight.                      *)
ScreenInv ==
    /\ ExplorerTypeOK
    /\ EdgesHaveEnds
    /\ NoStuckSpinner

LEMMA InitScreen == ExplorerInit => ScreenInv
<1> SUFFICES ASSUME ExplorerInit PROVE ScreenInv
  OBVIOUS
<1>1. Drawable(graph)
  BY EmptyDrawable DEF ExplorerInit
<1>2. loading \in BOOLEAN /\ error \in BOOLEAN /\ ~loading
  BY Zenon DEF ExplorerInit
<1>3. calls \in [Slots -> Requests \cup {Free}]
  BY DEF ExplorerInit
<1>4. selectedId \in Nodes \cup {NoNode}
  BY DEF ExplorerInit
<1> QED
  BY <1>1, <1>2, <1>3, <1>4 DEF ScreenInv, ExplorerTypeOK, EdgesHaveEnds, NoStuckSpinner,
                               Drawable

LEMMA SendScreen ==
    ASSUME ScreenInv, NEW r \in Requests, Send(r), graph' = graph,
           selectedId' \in Nodes \cup {NoNode}
    PROVE  ScreenInv'
<1>1. PICK c \in Slots : calls' = [calls EXCEPT ![c] = r]
  BY DEF Send
<1>2. calls'[c] = r
  BY <1>1 DEF ScreenInv, ExplorerTypeOK
<1>3. r # Free
  BY DEF Requests, Free
<1>4. InFlight' # {}
  BY <1>2, <1>3 DEF InFlight, Slots, Free
<1>5. calls' \in [Slots -> Requests \cup {Free}]
  BY <1>1 DEF ScreenInv, ExplorerTypeOK
<1> QED
  BY <1>4, <1>5 DEF Send, ScreenInv, ExplorerTypeOK, EdgesHaveEnds, NoStuckSpinner, Nodes

(* The graph an answer leaves on screen is one that can be drawn, and the  *)
(* spinner is off.                                                         *)
LEMMA SettleScreen ==
    ASSUME ScreenInv, NEW c \in Slots, Settle(c), Drawable(graph'),
           selectedId' \in Nodes \cup {NoNode}, error' \in BOOLEAN
    PROVE  ScreenInv'
<1>1. calls' \in [Slots -> Requests \cup {Free}]
  BY DEF Settle, ScreenInv, ExplorerTypeOK
<1> QED
  BY <1>1 DEF Settle, ScreenInv, ExplorerTypeOK, EdgesHaveEnds, NoStuckSpinner,
              Drawable, Nodes

LEMMA ExplorerStep ==
    ASSUME ScreenInv, ExplorerNext
    PROVE  ScreenInv'
<1> USE DEF ScreenInv
<1>0. Drawable(graph)
  BY DEF ExplorerTypeOK, EdgesHaveEnds, Drawable
<1>1. ASSUME NEW value \in Findable \cup {Unknown}, Search(value)
      PROVE  ScreenInv'
  <2>1. [op |-> "search", arg |-> value] \in Requests
    BY DEF Requests
  <2> QED
    BY <1>1, <2>1, SendScreen DEF Search, ExplorerTypeOK
<1>2. ASSUME NEW n \in Nodes, Tap(n)
      PROVE  ScreenInv'
  BY <1>2 DEF Tap, ExplorerTypeOK, EdgesHaveEnds, NoStuckSpinner, InFlight
<1>3. ASSUME NEW n \in Nodes, DoubleTap(n)
      PROVE  ScreenInv'
  <2>1. [op |-> "expand", arg |-> n] \in Requests
    BY DEF Requests
  <2> QED
    BY <1>3, <2>1, SendScreen DEF DoubleTap
<1>4. CASE Close
  BY <1>4 DEF Close, ExplorerTypeOK, EdgesHaveEnds, NoStuckSpinner, InFlight
<1>5. ASSUME NEW c \in Slots, SearchAnswered(c)
      PROVE  ScreenInv'
  BY <1>5, SettleScreen, CorrelatedDrawable DEF SearchAnswered, ExplorerTypeOK
<1>6. ASSUME NEW c \in Slots, SearchFailed(c)
      PROVE  ScreenInv'
  BY <1>6, SettleScreen, EmptyDrawable DEF SearchFailed, ExplorerTypeOK
<1>7. ASSUME NEW c \in Slots, ExpandAnswered(c)
      PROVE  ScreenInv'
  <2>1. calls[c].arg \in Nodes
    BY <1>7 DEF ExpandAnswered, ExplorerTypeOK, Requests, Free
  <2> QED
    BY <1>0, <1>7, <2>1, SettleScreen, MergedDrawable DEF ExpandAnswered, ExplorerTypeOK
<1>8. ASSUME NEW c \in Slots, ExpandFailed(c)
      PROVE  ScreenInv'
  BY <1>0, <1>8, SettleScreen DEF ExpandFailed, ExplorerTypeOK
<1> QED
  BY <1>1, <1>2, <1>3, <1>4, <1>5, <1>6, <1>7, <1>8 DEF ExplorerNext, UserStep, Answer

-----------------------------------------------------------------------------
(* The panel: the narrative spinner is on exactly while the one narrative  *)
(* is in flight, and the similarity spinner only while a call is.          *)
PanelInv ==
    /\ PanelTypeOK
    /\ OneNarrativeAtATime
    /\ NarrativeSpinner
    /\ SimilarSpinner

Known == Indicators \cup Campaigns \cup {NoPanel}

(* The results a step can leave, by the fields the spinners are about.     *)
LEMMA ResultTypes ==
    ASSUME NEW S
    PROVE  /\ Idle \in Result(S) /\ ~Idle.loading
           /\ Pending \in Result(S) /\ Pending.loading
           /\ \A r \in Result(S) :
                 Cleared(r) \in Result(S) /\ Cleared(r).loading = r.loading
  BY DEF Idle, Pending, Cleared, Result

(* What the two ways a call can end make of its result.                    *)
LEMMA EndTypes ==
    ASSUME NEW S, NEW r \in Result(S), NEW n \in S
    PROVE  /\ [r EXCEPT !.data = n, !.loading = FALSE] \in Result(S)
           /\ ~[r EXCEPT !.data = n, !.loading = FALSE].loading
           /\ [r EXCEPT !.error = TRUE, !.loading = FALSE] \in Result(S)
           /\ ~[r EXCEPT !.error = TRUE, !.loading = FALSE].loading
           /\ [data |-> n, loading |-> FALSE, error |-> FALSE] \in Result(S)
           /\ [data |-> Nothing, loading |-> FALSE, error |-> TRUE] \in Result(S)
  BY DEF Result

LEMMA NoComparisonType == NoComparison \in [Campaigns -> 0..MaxSimilar]
  BY PanelAssumption DEF NoComparison

LEMMA InitPanel == PanelInit => PanelInv
<1> SUFFICES ASSUME PanelInit PROVE PanelInv
  OBVIOUS
<1>1. /\ narrative \in Result(Indicators) /\ ~narrative.loading
      /\ similar \in Result(Campaigns) /\ ~similar.loading
  BY ResultTypes, Zenon DEF PanelInit
<1> QED
  BY <1>1, NoComparisonType DEF PanelInit, PanelInv, PanelTypeOK, OneNarrativeAtATime,
                                NarrativeSpinner, SimilarSpinner

(* Whatever node is shown next: kept calls keep their spinner, and a panel *)
(* taken away takes both with it.                                          *)
LEMMA ShowStep ==
    ASSUME PanelInv, NEW n \in Known, Show(n)
    PROVE  PanelInv'
<1> USE DEF PanelInv
<1>1. CASE n = node
  BY <1>1 DEF Show, PanelTypeOK, OneNarrativeAtATime, NarrativeSpinner, SimilarSpinner
<1>2. CASE n # node /\ n = NoPanel
  <2>1. /\ narrative' = Idle /\ similar' = Idle
        /\ explaining' = {} /\ comparing' = NoComparison /\ node' = n
    BY <1>2 DEF Show
  <2>2. /\ narrative' \in Result(Indicators) /\ ~narrative'.loading
        /\ similar' \in Result(Campaigns) /\ ~similar'.loading
    BY <2>1, ResultTypes, Zenon
  <2> QED
    BY <2>1, <2>2, NoComparisonType
    DEF Known, PanelTypeOK, OneNarrativeAtATime, NarrativeSpinner, SimilarSpinner
<1>3. CASE n # node /\ n # NoPanel
  <2>1. /\ narrative' = Cleared(narrative) /\ similar' = Idle /\ node' = n
        /\ explaining' = explaining /\ comparing' = comparing
    BY <1>3 DEF Show
  <2>2. /\ narrative' \in Result(Indicators) /\ narrative'.loading = narrative.loading
        /\ similar' \in Result(Campaigns) /\ ~similar'.loading
    BY <2>1, ResultTypes, Zenon DEF PanelTypeOK
  <2> QED
    BY <2>1, <2>2
    DEF Known, PanelTypeOK, OneNarrativeAtATime, NarrativeSpinner, SimilarSpinner
<1> QED
  BY <1>1, <1>2, <1>3

(* Explain is disabled while the spinner is on, hence while a narrative is *)
(* in flight, of whichever node it is.                                     *)
LEMMA NarrativeStep ==
    ASSUME PanelInv, NEW n \in Indicators,
           Explain \/ NarrativeAnswered(n) \/ NarrativeFailed(n)
    PROVE  PanelInv'
<1> USE DEF PanelInv
<1>1. CASE Explain
  <2>1. explaining' = {node} /\ node \in Indicators
    BY <1>1 DEF Explain, NarrativeSpinner
  <2>2. narrative' \in Result(Indicators) /\ narrative'.loading
    BY <1>1, ResultTypes, Zenon DEF Explain
  <2> QED
    BY <1>1, <2>1, <2>2
    DEF Explain, PanelTypeOK, OneNarrativeAtATime, NarrativeSpinner, SimilarSpinner
<1>2. CASE NarrativeAnswered(n) \/ NarrativeFailed(n)
  <2>1. n \in explaining /\ explaining' = explaining \ {n}
        /\ node' = node /\ similar' = similar /\ comparing' = comparing
    BY <1>2 DEF NarrativeAnswered, NarrativeFailed
  <2>2. explaining' = {}
    BY <2>1 DEF PanelTypeOK, OneNarrativeAtATime
  <2>3. narrative' \in Result(Indicators) /\ ~narrative'.loading
    <3>1. narrative \in Result(Indicators)
      BY DEF PanelTypeOK
    <3>2. CASE narrative' = [narrative EXCEPT !.data = n, !.loading = FALSE]
      BY <3>1, <3>2, EndTypes, Zenon
    <3>3. CASE narrative' = [narrative EXCEPT !.error = TRUE, !.loading = FALSE]
      BY <3>1, <3>3, EndTypes, Zenon
    <3> QED
      BY <1>2, <3>2, <3>3, Zenon DEF NarrativeAnswered, NarrativeFailed
  <2> QED
    BY <2>1, <2>2, <2>3
    DEF PanelTypeOK, OneNarrativeAtATime, NarrativeSpinner, SimilarSpinner
<1> QED
  BY <1>1, <1>2

LEMMA SimilarStep ==
    ASSUME PanelInv, NEW n \in Campaigns,
           LoadSimilar \/ SimilarAnswered(n) \/ SimilarFailed(n)
    PROVE  PanelInv'
<1> USE DEF PanelInv
<1>1. node' = node /\ narrative' = narrative /\ explaining' = explaining
  BY DEF LoadSimilar, SimilarAnswered, SimilarFailed
<1>2. OneNarrativeAtATime' /\ NarrativeSpinner'
  BY <1>1 DEF OneNarrativeAtATime, NarrativeSpinner
<1>3. comparing' \in [Campaigns -> 0..MaxSimilar]
  BY PanelAssumption DEF LoadSimilar, SimilarAnswered, SimilarFailed, PanelTypeOK
<1>4. CASE LoadSimilar
  <2>1. node \in Campaigns /\ comparing'[node] > 0
    BY <1>4, PanelAssumption DEF LoadSimilar, PanelTypeOK
  <2>2. similar' \in Result(Campaigns)
    BY <1>4, ResultTypes, Zenon DEF LoadSimilar
  <2> QED
    BY <1>1, <1>2, <1>3, <2>1, <2>2 DEF PanelTypeOK, SimilarSpinner
<1>5. CASE SimilarAnswered(n) \/ SimilarFailed(n)
  <2>1. similar' \in Result(Campaigns)
    <3>1. similar \in Result(Campaigns)
      BY DEF PanelTypeOK
    <3>2. CASE similar' = [data |-> n, loading |-> FALSE, error |-> FALSE]
      BY <3>1, <3>2, EndTypes, Zenon
    <3>3. CASE similar' = [data |-> Nothing, loading |-> FALSE, error |-> TRUE]
      BY <3>1, <3>3, EndTypes, Zenon
    <3> QED
      BY <1>5, <3>2, <3>3, Zenon DEF SimilarAnswered, SimilarFailed
  <2>2. ~similar'.loading
    BY <1>5 DEF SimilarAnswered, SimilarFailed
  <2> QED
    BY <1>1, <1>2, <1>3, <2>1, <2>2 DEF PanelTypeOK, SimilarSpinner
<1> QED
  BY <1>4, <1>5

LEMMA PanelStep ==
    ASSUME PanelInv, PanelNext
    PROVE  PanelInv'
  BY NarrativeStep, SimilarStep DEF PanelNext, PanelAnswer, Explain, PanelInv, LoadSimilar

-----------------------------------------------------------------------------
(* The two together.                                                       *)
AppInv ==
    /\ ScreenInv
    /\ PanelInv
    /\ node = SelectedNode

LEMMA InitApp == Init => AppInv
<1> SUFFICES ASSUME Init PROVE AppInv
  OBVIOUS
<1>1. node = SelectedNode
  BY AppAssumption DEF Init, ExplorerInit, PanelInit, SelectedNode
<1> QED
  BY <1>1, InitScreen, InitPanel DEF Init, AppInv

LEMMA NextApp ==
    ASSUME AppInv, [Next]_appVars
    PROVE  AppInv'
<1>1. CASE Explore
  <2>1. ScreenInv'
    BY <1>1, ExplorerStep DEF Explore, AppInv
  <2>2. SelectedNode' \in Known
    BY <2>1, AppAssumption DEF ScreenInv, ExplorerTypeOK, SelectedNode, Known
  <2>3. PanelInv'
    BY <1>1, <2>2, ShowStep DEF Explore, AppInv
  <2> QED
    BY <1>1, <2>1, <2>3 DEF Explore, Show, AppInv
<1>2. CASE Inspect
  <2>1. PanelInv'
    BY <1>2, PanelStep DEF Inspect, AppInv
  <2>2. node' = node
    BY <1>2 DEF Inspect, PanelNext, PanelAnswer, Explain, LoadSimilar, NarrativeAnswered,
                NarrativeFailed, SimilarAnswered, SimilarFailed
  <2> QED
    BY <1>2, <2>1, <2>2
    DEF Inspect, explorerVars, AppInv, ScreenInv, ExplorerTypeOK, EdgesHaveEnds,
        NoStuckSpinner, InFlight, SelectedNode
<1>3. CASE UNCHANGED appVars
  BY <1>3 DEF appVars, explorerVars, panelVars, AppInv, ScreenInv, ExplorerTypeOK,
              EdgesHaveEnds, NoStuckSpinner, InFlight, SelectedNode, PanelInv, PanelTypeOK,
              OneNarrativeAtATime, NarrativeSpinner, SimilarSpinner
<1> QED
  BY <1>1, <1>2, <1>3 DEF Next

(* The invariant of the web UI: what is on screen, what the panel shows and*)
(* what is still in flight belong together after every step.               *)
THEOREM AppInvariant == Spec => []AppInv
  BY InitApp, NextApp, PTL DEF Spec

(* Answers in any order, to a screen and a selection that have moved on,   *)
(* leave the state well typed, and the panel shows the selected node when  *)
(* that node is on screen and nothing else.                                *)
THEOREM TypeCorrect == Spec => []TypeOK
<1>1. AppInv => TypeOK
  BY DEF AppInv, ScreenInv, PanelInv, TypeOK
<1> QED
  BY <1>1, AppInvariant, PTL

(* However many searches and expansions overlap, the spinner is off when   *)
(* the last of them has come back: the search form is never lost.          *)
THEOREM SpinnerEnds == Spec => []NoStuckSpinner
<1>1. AppInv => NoStuckSpinner
  BY DEF AppInv, ScreenInv
<1> QED
  BY <1>1, AppInvariant, PTL

(* Replacing and merging neighbourhoods in any order never leaves an edge  *)
(* on screen without both its ends, on which Cytoscape throws.             *)
THEOREM EdgesAlwaysHaveEnds == Spec => []EdgesHaveEnds
<1>1. AppInv => EdgesHaveEnds
  BY DEF AppInv, ScreenInv
<1> QED
  BY <1>1, AppInvariant, PTL

(* However the user moves between nodes while a narrative is written, the  *)
(* panel has at most one LLM call in flight.                               *)
THEOREM OneNarrative == Spec => []OneNarrativeAtATime
<1>1. AppInv => OneNarrativeAtATime
  BY DEF AppInv, PanelInv
<1> QED
  BY <1>1, AppInvariant, PTL

(* The Explain button is disabled exactly while that call is in flight: it *)
(* neither stays off after the answer nor comes back before it.            *)
THEOREM NarrativeSpinnerIsTrue == Spec => []NarrativeSpinner
<1>1. AppInv => NarrativeSpinner
  BY DEF AppInv, PanelInv
<1> QED
  BY <1>1, AppInvariant, PTL

(* The Find similar spinner is never on without a call that will take it   *)
(* off.                                                                    *)
THEOREM SimilarSpinnerEnds == Spec => []SimilarSpinner
<1>1. AppInv => SimilarSpinner
  BY DEF AppInv, PanelInv
<1> QED
  BY <1>1, AppInvariant, PTL
=============================================================================
