---------------------------- MODULE DetailPanel ----------------------------
(***************************************************************************)
(* The side panel of the selected node (NodeDetailPanel.tsx) and its two   *)
(* on-demand calls: the AI narrative of an indicator (useNarrative.ts with *)
(* NarrativePanel.tsx) and the campaigns similar to a campaign.            *)
(*                                                                         *)
(* React keeps one instance of the panel while some node is selected, and  *)
(* its state with it; an effect resets the results when the node changes.  *)
(* Calls already sent are not cancelled: they set the state of the         *)
(* instance that sent them, and nothing once it is unmounted.              *)
(***************************************************************************)
EXTENDS Naturals

CONSTANTS Indicators,   \* nodes of kind "ioc"
          Campaigns,    \* nodes of kind "campaign"
          NoPanel,      \* no node is selected: no panel
          Nothing,      \* no result
          MaxSimilar    \* bound: similarity calls in flight

ASSUME PanelAssumption ==
    /\ Indicators \cap Campaigns = {}
    /\ {NoPanel, Nothing} \cap (Indicators \cup Campaigns) = {}
    /\ MaxSimilar \in Nat

VARIABLES node,         \* the node the mounted panel shows, or NoPanel
          narrative,    \* useNarrative: data is the indicator it explains
          similar,      \* similarState: data is the campaign it is about
          explaining,   \* indicators of this instance's calls in flight
          comparing     \* campaigns of this instance's calls in flight

panelVars == <<node, narrative, similar, explaining, comparing>>

Result(S) == [data : S \cup {Nothing}, loading : BOOLEAN, error : BOOLEAN]
Idle == [data |-> Nothing, loading |-> FALSE, error |-> FALSE]
Pending == [data |-> Nothing, loading |-> TRUE, error |-> FALSE]

PanelTypeOK ==
    /\ node \in Indicators \cup Campaigns \cup {NoPanel}
    /\ narrative \in Result(Indicators)
    /\ similar \in Result(Campaigns)
    /\ explaining \in SUBSET Indicators
    /\ comparing \in [Campaigns -> 0..MaxSimilar]

NoComparison == [n \in Campaigns |-> 0]

PanelInit ==
    /\ node = NoPanel
    /\ narrative = Idle
    /\ similar = Idle
    /\ explaining = {}
    /\ comparing = NoComparison

-----------------------------------------------------------------------------
\* Mutant: clear() takes the spinner away too.
ClearedAll(result) == Idle

(* clear(): data and error go, loading stays as it is.                     *)
Cleared(result) == [result EXCEPT !.data = Nothing, !.error = FALSE]

\* Mutant: the panel does not follow the selection while it is loading.
ShowWhenIdle(n) ==
    /\ node' = IF narrative.loading THEN node ELSE n
    /\ UNCHANGED <<narrative, similar, explaining, comparing>>

(* The parent renders the panel for another node: unmounted, mounted anew, *)
(* or the same instance with another node, whose effect then resets it.    *)
Show(n) ==
    /\ node' = n
    /\ IF n = node
       THEN UNCHANGED <<narrative, similar, explaining, comparing>>
       ELSE IF n = NoPanel
       THEN /\ narrative' = Idle
            /\ similar' = Idle
            /\ explaining' = {}
            /\ comparing' = NoComparison
       ELSE /\ narrative' = Cleared(narrative)
            /\ similar' = Idle
            /\ UNCHANGED <<explaining, comparing>>

(* The Explain / Regenerate button, disabled while loading.                *)
Explain ==
    /\ node \in Indicators
    /\ ~narrative.loading
    /\ narrative' = Pending
    /\ explaining' = explaining \cup {node}
    /\ UNCHANGED <<node, similar, comparing>>

NarrativeAnswered(n) ==
    /\ n \in explaining
    /\ narrative' = [narrative EXCEPT !.data = n, !.loading = FALSE]
    /\ explaining' = explaining \ {n}
    /\ UNCHANGED <<node, similar, comparing>>

\* Mutant: setLoading(false) is not in a finally block.
NarrativeFailedLoading(n) ==
    /\ n \in explaining
    /\ narrative' = [narrative EXCEPT !.error = TRUE]
    /\ explaining' = explaining \ {n}
    /\ UNCHANGED <<node, similar, comparing>>

NarrativeFailed(n) ==
    /\ n \in explaining
    /\ narrative' = [narrative EXCEPT !.error = TRUE, !.loading = FALSE]
    /\ explaining' = explaining \ {n}
    /\ UNCHANGED <<node, similar, comparing>>

(* The Find similar button.                                                *)
LoadSimilar ==
    /\ node \in Campaigns
    /\ ~similar.loading
    /\ comparing[node] < MaxSimilar
    /\ similar' = Pending
    /\ comparing' = [comparing EXCEPT ![node] = @ + 1]
    /\ UNCHANGED <<node, narrative, explaining>>

SimilarAnswered(n) ==
    /\ comparing[n] > 0
    /\ similar' = [data |-> n, loading |-> FALSE, error |-> FALSE]
    /\ comparing' = [comparing EXCEPT ![n] = @ - 1]
    /\ UNCHANGED <<node, narrative, explaining>>

\* Mutant: the failed call updates the message only.
SimilarFailedLoading(n) ==
    /\ comparing[n] > 0
    /\ similar' = [similar EXCEPT !.error = TRUE]
    /\ comparing' = [comparing EXCEPT ![n] = @ - 1]
    /\ UNCHANGED <<node, narrative, explaining>>

SimilarFailed(n) ==
    /\ comparing[n] > 0
    /\ similar' = [data |-> Nothing, loading |-> FALSE, error |-> TRUE]
    /\ comparing' = [comparing EXCEPT ![n] = @ - 1]
    /\ UNCHANGED <<node, narrative, explaining>>

PanelAnswer ==
    \/ \E n \in Indicators : NarrativeAnswered(n)
    \/ \E n \in Indicators : NarrativeFailed(n)
    \/ \E n \in Campaigns : SimilarAnswered(n)
    \/ \E n \in Campaigns : SimilarFailed(n)

PanelNext == Explain \/ LoadSimilar \/ PanelAnswer

-----------------------------------------------------------------------------
(* Properties.                                                             *)

(* One narrative, that is one LLM call, at a time per panel, however the   *)
(* user moves between nodes meanwhile.                                     *)
OneNarrativeAtATime ==
    \A m, n \in Indicators : m \in explaining /\ n \in explaining => m = n

(* The narrative button comes back: its spinner is on exactly while its    *)
(* call is in flight, also after the node has changed.                     *)
NarrativeSpinner == narrative.loading <=> explaining # {}

(* The similarity spinner does not outlive its calls.                      *)
SimilarSpinner == similar.loading => \E n \in Campaigns : comparing[n] > 0

(* "Reset on-demand results whenever the selected node changes": what the  *)
(* panel shows is about the node it shows.                                 *)
ResultsOfThisNode ==
    /\ node \in Indicators => narrative.data \in {node, Nothing}
    /\ node \in Campaigns => similar.data \in {node, Nothing}

=============================================================================
