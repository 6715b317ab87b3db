---------------------------- MODULE ExplorerApp ----------------------------
(***************************************************************************)
(* App.tsx: the explorer and the detail panel of its selected node.  Every *)
(* change of the graph or of the selection renders the panel anew.         *)
(***************************************************************************)
EXTENDS Explorer, DetailPanel

ASSUME AppAssumption ==
    /\ NoPanel = NoNode
    /\ Indicators \cup Campaigns = Nodes
    /\ Findable = Indicators

appVars == <<explorerVars, panelVars>>

TypeOK == ExplorerTypeOK /\ PanelTypeOK /\ node = SelectedNode

Init == ExplorerInit /\ PanelInit

(* The explorer moves, and the panel shows the node selected now.          *)
Explore ==
    /\ ExplorerNext
    /\ Show(SelectedNode')

Inspect ==
    /\ PanelNext
    /\ UNCHANGED explorerVars

Next == Explore \/ Inspect

(* Every call of the explorer is answered or fails; the user owes nothing. *)
Fairness == \A c \in Slots : WF_appVars(Answer(c) /\ Show(SelectedNode'))

Spec == Init /\ [][Next]_appVars
FairSpec == Spec /\ Fairness

(* Whatever the user does, expanding one node after another without a      *)
(* pause included, the search form is usable again and again.              *)
SearchUsableAgain == []<>(~loading)

=============================================================================
