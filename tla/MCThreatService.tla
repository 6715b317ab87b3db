-------------------------- MODULE MCThreatService --------------------------
(***************************************************************************)
(* Instances of ThreatService for TLC: a report and a payload of two       *)
(* campaigns and an unnamed pulse, which share indicators: the graph has a *)
(* cycle, and a node three hops away from another.  A second report names  *)
(* a campaign and nothing to link to it.                                   *)
(***************************************************************************)
EXTENDS ThreatService, TLC

CONSTANTS p1, p2, phish, kit, ip, url, actor, t1, t2

TwoHubs == {phish, kit}
TwoIndicators == {ip, url}
OneActor == {actor}
TwoTexts == {t1, t2}
TwoProcs == {p1, p2}
ProcSymmetry == Permutations(TwoProcs)
BothBackends == {"memory", "neo4j"}

Job(batched, embed, parts) == [batched |-> batched, embed |-> embed, parts |-> parts]
PartOf(hub, links, text) == [hub |-> hub, links |-> links, text |-> text]

FirstReport == Job(FALSE, TRUE, <<PartOf(phish, <<actor, ip>>, t1)>>)
Pulses == Job(TRUE, TRUE, <<PartOf(phish, <<ip, url>>, t2), PartOf(kit, <<ip, url>>, t1),
                          PartOf(NoHub, <<ip>>, NoText)>>)
BareReport == Job(FALSE, TRUE, <<PartOf(kit, <<>>, t1)>>)
Mixed == {FirstReport, Pulses, BareReport}

UrlThenIp == {<<url, ip>>}
JustTwo == {2}
=============================================================================
