--------------------------- MODULE MCExplorerApp ---------------------------
(***************************************************************************)
(* Instances of ExplorerApp for TLC: a chain longer than the two hops a    *)
(* search shows, and a graph of two parts.                                 *)
(***************************************************************************)
EXTENDS ExplorerApp

CONSTANTS ip, phish, url, kit, lone

TwoIndicators == {ip, url}
TwoCampaigns == {phish, kit}
Chain ==
    Subgraph(TwoIndicators \cup TwoCampaigns,
             {<<ip, phish>>, <<url, phish>>, <<url, kit>>})

IndicatorAndLone == {ip, lone}
OneCampaign == {phish}
TwoParts == Subgraph(IndicatorAndLone \cup OneCampaign, {<<ip, phish>>})
=============================================================================
