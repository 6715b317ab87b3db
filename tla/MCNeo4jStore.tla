---------------------------- MODULE MCNeo4jStore ----------------------------
(***************************************************************************)
(* Two processes write an indicator, a campaign and a technique that one   *)
(* report names and another does not.                                      *)
(***************************************************************************)
EXTENDS Neo4jStore, TLC

CONSTANTS p1, p2, ip, kit, ttp, plain, named

TwoProcs == {p1, p2}
ProcSymmetry == Permutations(TwoProcs)
ThreeIds == {ip, kit, ttp}
TwoLabels == {plain, named}
UpToTwo == 0..2

Upsert(op, N, l) == [op |-> op, ids |-> N, label |-> l, edges |-> {}]
Link(op, E) == [op |-> op, ids |-> {}, label |-> NoLabel, edges |-> E]
SomeCalls ==
    {Upsert("upsert_iocs", {ip}, plain), Upsert("upsert_node", {kit}, plain),
     Upsert("upsert_node", {ttp}, plain), Upsert("upsert_node", {ttp}, named),
     Link("add_edge", {<<kit, ttp>>}), Link("add_edges", {<<ip, kit>>, <<kit, ttp>>})}
=============================================================================
