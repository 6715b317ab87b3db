-------------------------- MODULE Neo4jStoreProofs --------------------------
(***************************************************************************)
(* Proofs about Neo4jStore, for any processes, ids and calls: its state is *)
(* well formed, its writes implement GraphStore, and its answers have the  *)
(* ids and edges of a store without copies, however many copies of a node  *)
(* races have left behind.                                                 *)
(***************************************************************************)
EXTENDS Neo4jStore, NeighborhoodProofs

USE CallsAssumption DEF graph

(* What the statement at hand will have done: all of the call, or, in      *)
(* add_edge when an end was unknown, nothing.                              *)
Whole(p) ==
    /\ IdsOf(plan[p].copies) = call[p].ids
    /\ PairsOf(plan[p].rels) \subseteq call[p].edges
    /\ \/ call[p].edges \subseteq PairsOf(plan[p].rels) /\ Ends(call[p].edges) \subseteq Known
       \/ call[p].op = "add_edge" /\ plan[p].rels = {}

Planned(p) ==
    /\ pc[p] = "idle" <=> result[p] # "busy"
    /\ pc[p] = "find" => call[p].op = "add_edges"
    /\ pc[p] = "match" /\ call[p].op = "add_edges" => Ends(call[p].edges) \subseteq Known
    /\ pc[p] \in {"commit", "check"} => Whole(p)
    /\ pc[p] = "check" => call[p].op = "add_edge" /\ plan[p].rels \subseteq rels

StoreInv == TypeOK /\ \A p \in Procs : Planned(p)

-----------------------------------------------------------------------------
LEMMA CallShape ==
    ASSUME NEW c \in Calls
    PROVE  /\ c.op \in {"upsert_node", "upsert_iocs", "add_edge", "add_edges"}
           /\ c.label \in Labels \cup {NoLabel}
           /\ c.ids \subseteq Ids
           /\ c.edges \subseteq Ids \X Ids
           /\ c.op \in {"upsert_node", "upsert_iocs"} => c.edges = {}
           /\ c.op \in {"add_edge", "add_edges"} => c.ids = {} /\ c.edges # {}
           /\ c.op = "add_edge" => \E e \in Ids \X Ids : c.edges = {e}
  BY DEF Upserts

(* The ids and pairs of more copies and relationships are more.            *)
LEMMA IdsGrow ==
    ASSUME NEW C, NEW D
    PROVE  IdsOf(C \cup D) = IdsOf(C) \cup IdsOf(D)
  BY DEF IdsOf

LEMMA PairsGrow ==
    ASSUME NEW Q, NEW R
    PROVE  PairsOf(Q \cup R) = PairsOf(Q) \cup PairsOf(R)
  BY DEF PairsOf

(* A known id has a copy.                                                  *)
LEMMA KnownHasCopy ==
    ASSUME NEW i \in Known
    PROVE  CopiesOf(i) # {}
  BY DEF Known, IdsOf, CopiesOf

-----------------------------------------------------------------------------
(* What MATCH finds: pairs of committed copies, for each edge the pairs    *)
(* of all copies of its ends, hence none only if an end is unknown.        *)
MatchedPairs(p, E) == UNION {Matched(p, e) : e \in E}

LEMMA MatchedEdges ==
    ASSUME TypeOK, NEW p \in Procs, NEW E \in SUBSET (Ids \X Ids)
    PROVE  /\ MatchedPairs(p, E) \subseteq copies \X copies
           /\ PairsOf(MatchedPairs(p, E)) \subseteq E
           /\ Ends(E) \subseteq Known => E \subseteq PairsOf(MatchedPairs(p, E))
<1> DEFINE R == MatchedPairs(p, E)
<1> USE DEF MatchedPairs
<1>1. \A e \in E : Matched(p, e) \subseteq copies \X copies
  BY DEF Matched, CopiesOf
<1>2. \A e \in E : \A r \in Matched(p, e) : <<r[1][1], r[2][1]>> = e
  BY DEF Matched, CopiesOf
<1>3. ASSUME Ends(E) \subseteq Known, NEW e \in E
      PROVE  e \in PairsOf(R)
  <2>1. e[1] \in Known /\ e[2] \in Known
    BY <1>3 DEF Ends
  <2>2. CopiesOf(e[1]) # {} /\ CopiesOf(e[2]) # {}
    BY <2>1, KnownHasCopy
  <2>3. PICK a \in CopiesOf(e[1]), b \in CopiesOf(e[2]) : TRUE
    BY <2>2
  <2>4. <<a, b>> \in Matched(p, e)
    BY <2>3 DEF Matched
  <2>5. <<a, b>> \in R /\ <<<<a, b>>[1][1], <<a, b>>[2][1]>> = e
    BY <2>4, <1>2
  <2> QED
    BY <2>5 DEF PairsOf
<1>4. R \subseteq copies \X copies
  BY <1>1
<1>5. \A r \in R : <<r[1][1], r[2][1]>> \in E
  BY <1>2
<1> QED
  BY <1>3, <1>4, <1>5 DEF PairsOf

(* A MERGE writes copies of its ids only, one of each at least.            *)
LEMMA MergedCopies ==
    ASSUME TypeOK, NEW p \in Procs, NEW N \in SUBSET Ids
    PROVE  /\ Merged(p, N) \subseteq Copies
           /\ IdsOf(Merged(p, N)) = N
<1>1. \A c \in Merged(p, N) : c \in Copies /\ c[1] \in N
  BY DEF Merged, Copies, TypeOK
<1>2. ASSUME NEW i \in N
      PROVE  \E c \in Merged(p, N) : c[1] = i
  <2>1. CASE i \in Known
    BY <2>1 DEF Merged, Known, IdsOf
  <2>2. CASE i \notin Known
    <3>1. <<i, p>> \in Merged(p, N) /\ <<i, p>>[1] = i
      BY <2>2 DEF Merged
    <3> QED
      BY <3>1
  <2> QED
    BY <2>1, <2>2
<1> QED
  BY <1>1, <1>2 DEF IdsOf

-----------------------------------------------------------------------------
(* What a step keeps of the plan of a process that does not take it: the   *)
(* graph only grows, so what it matched is still there.                    *)
LEMMA PlannedKept ==
    ASSUME TypeOK, NEW q \in Procs, Planned(q),
           copies \subseteq copies', rels \subseteq rels',
           pc'[q] = pc[q], plan'[q] = plan[q],
           call'[q] = call[q], result'[q] = result[q]
    PROVE  Planned(q)'
<1>1. Known \subseteq Known'
  BY DEF Known, IdsOf
<1>2. Whole(q) => Whole(q)'
  BY <1>1 DEF Whole, IdsOf, PairsOf
<1> QED
  BY <1>1, <1>2 DEF Planned

LEMMA InitInv == Init => StoreInv
  BY DEF Init, StoreInv, TypeOK, Planned, Nothing

(* A call that is over: nothing is planned any more.                       *)
LEMMA EndInv ==
    ASSUME TypeOK, NEW p \in Procs, NEW r \in {"ok", "unknown", "error"},
           End(p, r), \A q \in Procs : Planned(q),
           copies \subseteq copies', rels \subseteq rels',
           copies' \subseteq Copies, rels' \subseteq copies' \X copies',
           label' \in [Copies -> Labels \cup {NoLabel}]
    PROVE  StoreInv'
<1>1. TypeOK'
  BY DEF TypeOK, End, Nothing
<1>2. ASSUME NEW q \in Procs
      PROVE  Planned(q)'
  <2>1. CASE q = p
    BY <2>1 DEF End, Planned, TypeOK
  <2>2. CASE q # p
    BY <2>2, PlannedKept DEF End, TypeOK
  <2> QED
    BY <2>1, <2>2
<1> QED
  BY <1>1, <1>2 DEF StoreInv

LEMMA CallInv ==
    ASSUME StoreInv, NEW p \in Procs, NEW c \in Calls, Call(p, c)
    PROVE  StoreInv'
<1> USE DEF StoreInv
<1>1. TypeOK'
  BY CallShape DEF TypeOK, Call
<1>2. ASSUME NEW q \in Procs
      PROVE  Planned(q)'
  <2>1. CASE q = p
    BY <2>1, CallShape DEF Call, Planned, TypeOK
  <2>2. CASE q # p
    BY <2>2, PlannedKept DEF Call, TypeOK
  <2> QED
    BY <2>1, <2>2
<1> QED
  BY <1>1, <1>2

LEMMA FindInv ==
    ASSUME StoreInv, NEW p \in Procs, FindEnds(p)
    PROVE  StoreInv'
<1> USE DEF StoreInv
<1>1. CASE End(p, "unknown")
  BY <1>1, EndInv DEF FindEnds, TypeOK
<1>2. CASE GoTo(p, "match") /\ UNCHANGED plan /\ Ends(call[p].edges) \subseteq Known
  <2>1. TypeOK'
    BY <1>2 DEF TypeOK, FindEnds, GoTo
  <2>2. ASSUME NEW q \in Procs
        PROVE  Planned(q)'
    <3>1. CASE q = p
      BY <3>1, <1>2 DEF FindEnds, GoTo, Planned, TypeOK, Known, Ends
    <3>2. CASE q # p
      BY <3>2, <1>2, PlannedKept DEF FindEnds, GoTo, TypeOK
    <3> QED
      BY <3>1, <3>2
  <2> QED
    BY <2>1, <2>2
<1> QED
  BY <1>1, <1>2 DEF FindEnds

(* The plan of a statement is the whole call, or nothing for the add_edge  *)
(* of an unknown end.                                                      *)
LEMMA MatchPlans ==
    ASSUME StoreInv, NEW p \in Procs, Match(p)
    PROVE  /\ plan'[p].copies \subseteq Copies
           /\ plan'[p].rels \subseteq copies \X copies
           /\ Whole(p)'
<1> USE DEF StoreInv
<1> DEFINE c == call[p]
           C == Merged(p, c.ids)
           R == MatchedPairs(p, c.edges)
<1>1. c \in Calls /\ c.ids \subseteq Ids /\ c.edges \subseteq Ids \X Ids
  BY CallShape DEF TypeOK, Match
<1>2. plan'[p] = [copies |-> C, rels |-> R] /\ call' = call /\ copies' = copies
  BY DEF Match, GoTo, TypeOK, MatchedPairs
<1>3. C \subseteq Copies /\ IdsOf(C) = c.ids
  BY <1>1, MergedCopies
<1>4. /\ R \subseteq copies \X copies
      /\ PairsOf(R) \subseteq c.edges
      /\ Ends(c.edges) \subseteq Known => c.edges \subseteq PairsOf(R)
  <2> HIDE DEF c
  <2> QED
    BY <1>1, MatchedEdges
<1>5. Ends(c.edges) \subseteq Known \/ (c.op = "add_edge" /\ R = {})
  <2>1. CASE c.op \in {"upsert_node", "upsert_iocs"}
    BY <2>1, <1>1, CallShape DEF Ends
  <2>2. CASE c.op = "add_edges"
    BY <2>2 DEF Planned, Match
  <2>3. CASE c.op = "add_edge" /\ ~ Ends(c.edges) \subseteq Known
    <3>1. PICK e \in Ids \X Ids : c.edges = {e}
      BY <2>3, <1>1, CallShape
    <3>2. e[1] \notin Known \/ e[2] \notin Known
      BY <3>1, <2>3 DEF Ends
    <3>3. CopiesOf(e[1]) = {} \/ CopiesOf(e[2]) = {}
      BY <3>2 DEF Known, IdsOf, CopiesOf
    <3>4. Matched(p, e) = {}
      BY <3>3 DEF Matched
    <3> QED
      BY <3>1, <3>4, <2>3 DEF MatchedPairs
  <2> QED
    BY <2>1, <2>2, <2>3, <1>1, CallShape
<1>6. Known' = Known
  BY <1>2 DEF Known
<1> QED
  <2>1. plan'[p].copies = C /\ plan'[p].rels = R /\ call'[p] = c
    BY <1>2
  <2> HIDE DEF C, R, c
  <2> QED
    BY <2>1, <1>1, <1>3, <1>4, <1>5, <1>6 DEF Whole

LEMMA MatchInv ==
    ASSUME StoreInv, NEW p \in Procs, Match(p)
    PROVE  StoreInv'
<1> USE DEF StoreInv
<1>1. TypeOK'
  <2> DEFINE b == [copies |-> Merged(p, call[p].ids),
                   rels |-> UNION {Matched(p, e) : e \in call[p].edges}]
  <2>1. plan' = [plan EXCEPT ![p] = b]
    BY DEF Match
  <2>2. b.copies \subseteq Copies /\ b.rels \subseteq copies \X copies
    BY <2>1, MatchPlans DEF TypeOK
  <2>3. b \in [copies : SUBSET Copies, rels : SUBSET (Copies \X Copies)]
    BY <2>2 DEF TypeOK
  <2> HIDE DEF b
  <2>4. /\ plan' \in [Procs -> [copies : SUBSET Copies, rels : SUBSET (Copies \X Copies)]]
        /\ \A q \in Procs : plan'[q].rels \subseteq copies \X copies
    BY <2>1, <2>2, <2>3 DEF TypeOK
  <2> QED
    BY <2>4 DEF TypeOK, Match, GoTo
<1>2. ASSUME NEW q \in Procs
      PROVE  Planned(q)'
  <2>1. CASE q = p
    BY <2>1, MatchPlans DEF Match, GoTo, Planned, TypeOK
  <2>2. CASE q # p
    BY <2>2, PlannedKept DEF Match, GoTo, TypeOK
  <2> QED
    BY <2>1, <2>2
<1> QED
  BY <1>1, <1>2

(* A commit, heard of or not, leaves a well-formed graph.                  *)
LEMMA CommitGraph ==
    ASSUME TypeOK, NEW p \in Procs, call[p] \in Calls, Write(p)
    PROVE  /\ copies \subseteq copies' /\ rels \subseteq rels'
           /\ copies' \subseteq Copies /\ rels' \subseteq copies' \X copies'
           /\ label' \in [Copies -> Labels \cup {NoLabel}]
<1>1. label' \in [Copies -> Labels \cup {NoLabel}]
  BY CallShape DEF TypeOK, Write
<1> QED
  BY <1>1 DEF TypeOK, Write

LEMMA CommitInv ==
    ASSUME StoreInv, NEW p \in Procs, Commit(p)
    PROVE  StoreInv'
<1> USE DEF StoreInv
<1>0. /\ copies \subseteq copies' /\ rels \subseteq rels'
      /\ copies' \subseteq Copies /\ rels' \subseteq copies' \X copies'
      /\ label' \in [Copies -> Labels \cup {NoLabel}]
  BY CommitGraph DEF Commit, TypeOK
<1>1. CASE End(p, "ok")
  BY <1>0, <1>1, EndInv
<1>2. CASE Unsure(p) /\ GoTo(p, "check") /\ UNCHANGED plan
  <2>1. TypeOK'
    BY <1>0, <1>2 DEF TypeOK, GoTo, Commit
  <2>2. ASSUME NEW q \in Procs
        PROVE  Planned(q)'
    <3>1. CASE q = p
      <4>1. Whole(p)'
        BY <1>0, <1>2 DEF Commit, Write, GoTo, Planned, Whole, Known, IdsOf
      <4> QED
        BY <3>1, <4>1, <1>0, <1>2 DEF Commit, GoTo, Planned, TypeOK, Unsure
    <3>2. CASE q # p
      BY <3>2, <1>0, <1>2, PlannedKept DEF GoTo, TypeOK
    <3> QED
      BY <3>1, <3>2
  <2> QED
    BY <2>1, <2>2
<1> QED
  BY <1>1, <1>2 DEF Commit

LEMMA NextInv == StoreInv /\ [Next]_vars => StoreInv'
<1> SUFFICES ASSUME StoreInv, [Next]_vars
             PROVE  StoreInv'
  OBVIOUS
<1>1. ASSUME NEW p \in Procs, NEW c \in Calls, Call(p, c)
      PROVE  StoreInv'
  BY <1>1, CallInv
<1>2. ASSUME NEW p \in Procs, FindEnds(p)
      PROVE  StoreInv'
  BY <1>2, FindInv
<1>3. ASSUME NEW p \in Procs, Match(p)
      PROVE  StoreInv'
  BY <1>3, MatchInv
<1>4. ASSUME NEW p \in Procs, Commit(p)
      PROVE  StoreInv'
  BY <1>4, CommitInv
<1>5. ASSUME NEW p \in Procs, EdgeExists(p)
      PROVE  StoreInv'
  BY <1>5, EndInv DEF EdgeExists, StoreInv, TypeOK
<1>6. ASSUME NEW p \in Procs, DriverRaises(p)
      PROVE  StoreInv'
  BY <1>6, EndInv, CommitGraph DEF DriverRaises, StoreInv, TypeOK
<1>8. ASSUME NEW p \in Procs, CloseSwallows(p)
      PROVE  StoreInv'
  BY <1>8, EndInv DEF CloseSwallows, StoreInv, TypeOK
<1>7. CASE UNCHANGED vars
  BY <1>7 DEF vars, StoreInv, TypeOK, Planned, Whole, Known
<1> QED
  BY <1>1, <1>2, <1>3, <1>4, <1>5, <1>6, <1>7, <1>8 DEF Next

(* Every reachable state is well formed: relationships end in nodes of the *)
(* database, and what a statement is about to commit does too.             *)
THEOREM StoreTypeCorrect == Spec => []TypeOK
<1>1. Spec => []StoreInv
  BY InitInv, NextInv, PTL DEF Spec
<1>2. StoreInv => TypeOK
  BY DEF StoreInv
<1> QED
  BY <1>1, <1>2, PTL

-----------------------------------------------------------------------------
LEMMA MissedEnds ==
    ASSUME TypeOK, NEW p \in Procs, NEW r, End(p, r)
    PROVE  Missed' = [Missed EXCEPT ![p] = FALSE]
  BY DEF Missed, TypeOK, End

(* A call that is over is over in GraphStore too.                          *)
LEMMA EndMaps ==
    ASSUME TypeOK, NEW p \in Procs, NEW r, End(p, r)
    PROVE  Store!End(p, r)
  BY MissedEnds DEF End, Store!End

LEMMA CallMaps ==
    ASSUME StoreInv, NEW p \in Procs, NEW c \in Calls, Call(p, c)
    PROVE  Store!Begin(p, c)
<1>1. Missed' = Missed
  BY CallShape DEF Call, Missed, StoreInv, TypeOK
<1>2. Known' = Known /\ Linked' = Linked
  BY DEF Call, Known, Linked
<1>3. result[p] # "busy"
  BY DEF StoreInv, Planned, Call
<1> QED
  BY <1>1, <1>2, <1>3 DEF Call, Store!Begin

LEMMA FindMaps ==
    ASSUME StoreInv, NEW p \in Procs, FindEnds(p)
    PROVE  Store!RaiseKeyError(p) \/ UNCHANGED Store!vars
<1>1. Known' = Known /\ Linked' = Linked
  BY DEF FindEnds, Known, Linked
<1>2. result[p] = "busy"
  BY DEF FindEnds, StoreInv, TypeOK
<1>3. CASE GoTo(p, "match") /\ UNCHANGED plan
  <2>1. Missed' = Missed
    BY <1>3 DEF FindEnds, GoTo, Missed, StoreInv, TypeOK
  <2> QED
    BY <2>1, <1>1, <1>3 DEF Store!vars, GoTo
<1>4. CASE End(p, "unknown") /\ ~ Ends(call[p].edges) \subseteq Known
  BY <1>1, <1>2, <1>4, EndMaps DEF Store!RaiseKeyError, Store!Ends, Ends, StoreInv
<1> QED
  BY <1>3, <1>4 DEF FindEnds

LEMMA MatchMaps ==
    ASSUME StoreInv, NEW p \in Procs, Match(p)
    PROVE  Store!Miss(p) \/ UNCHANGED Store!vars
<1>1. Known' = Known /\ Linked' = Linked /\ UNCHANGED <<call, result>>
  BY DEF Match, GoTo, Known, Linked
<1>2. result[p] = "busy" /\ call[p] \in Calls
  BY DEF Match, StoreInv, TypeOK
<1>3. CASE call[p].op = "add_edge" /\ plan'[p].rels = {}
  <2>1. Missed' = [Missed EXCEPT ![p] = TRUE]
    BY <1>1, <1>3 DEF Match, GoTo, Missed, StoreInv, TypeOK
  <2>2. ~ Ends(call[p].edges) \subseteq Known
    <3>1. plan'[p].rels = MatchedPairs(p, call[p].edges)
      BY DEF Match, StoreInv, TypeOK, MatchedPairs
    <3>2. call[p].edges \subseteq Ids \X Ids /\ call[p].edges # {}
      BY <1>2, <1>3, CallShape
    <3>3. Ends(call[p].edges) \subseteq Known => call[p].edges \subseteq PairsOf({})
      BY <3>1, <3>2, <1>3, MatchedEdges DEF StoreInv
    <3> QED
      BY <3>2, <3>3 DEF PairsOf
  <2> QED
    BY <2>1, <2>2, <1>1, <1>2 DEF Store!Miss, Store!Ends, Ends
<1>4. CASE ~ (call[p].op = "add_edge" /\ plan'[p].rels = {})
  <2>1. Missed' = Missed
    BY <1>1, <1>4 DEF Match, GoTo, Missed, StoreInv, TypeOK
  <2> QED
    BY <2>1, <1>1 DEF Store!vars
<1> QED
  BY <1>3, <1>4

(* A commit adds the call's nodes and edges to the ids and their links, or *)
(* nothing.                                                                *)
LEMMA CommitAdds ==
    ASSUME StoreInv, NEW p \in Procs, pc[p] = "commit", Write(p)
    PROVE  \/ /\ Ends(call[p].edges) \subseteq Known
              /\ call[p].edges \subseteq PairsOf(plan[p].rels)
              /\ Known' = Known \cup call[p].ids
              /\ Linked' = Linked \cup call[p].edges
           \/ /\ call[p].op = "add_edge" /\ plan[p].rels = {}
              /\ UNCHANGED <<Known, Linked>>
<1>1. Whole(p)
  BY DEF StoreInv, Planned
<1>2. Known' = Known \cup IdsOf(plan[p].copies) /\ Linked' = Linked \cup PairsOf(plan[p].rels)
  BY IdsGrow, PairsGrow DEF Known, Linked, Write
<1>3. Known' = Known \cup call[p].ids
  BY <1>1, <1>2 DEF Whole
<1>4. CASE call[p].edges \subseteq PairsOf(plan[p].rels) /\ Ends(call[p].edges) \subseteq Known
  BY <1>1, <1>2, <1>3, <1>4 DEF Whole
<1>5. CASE call[p].op = "add_edge" /\ plan[p].rels = {}
  <2>1. call[p] \in Calls
    BY DEF StoreInv, TypeOK
  <2>2. call[p].ids = {}
    BY <2>1, <1>5, CallShape
  <2>3. PairsOf(plan[p].rels) = {}
    BY <1>5 DEF PairsOf
  <2> QED
    BY <1>2, <1>3, <1>5, <2>2, <2>3
<1> QED
  BY <1>1, <1>4, <1>5 DEF Whole

LEMMA CommitMaps ==
    ASSUME StoreInv, NEW p \in Procs, Commit(p)
    PROVE  Store!Apply(p) \/ UNCHANGED Store!vars
<1>1. result[p] = "busy"
  BY DEF Commit, StoreInv, TypeOK
<1>2. CASE Unsure(p) /\ GoTo(p, "check") /\ UNCHANGED plan
  <2>1. Linked' = Linked
    BY <1>2 DEF Unsure, Commit, Write, Linked, PairsOf
  <2>2. Missed' = Missed
    BY <1>2 DEF Commit, GoTo, Missed, StoreInv, TypeOK
  <2>3. call[p].ids = {} /\ plan[p].copies = {}
    <3>1. call[p].ids = {}
      BY <1>2, CallShape DEF Unsure, Commit, StoreInv, TypeOK
    <3>2. IdsOf(plan[p].copies) = {}
      BY <3>1 DEF Commit, StoreInv, Planned, Whole
    <3> QED
      BY <3>1, <3>2 DEF IdsOf
  <2>4. Known' = Known
    BY <2>3 DEF Commit, Write, Known
  <2> QED
    BY <2>1, <2>2, <2>4, <1>2 DEF Store!vars, GoTo
<1>3. CASE ~Unsure(p) /\ End(p, "ok")
  <2>1. /\ Ends(call[p].edges) \subseteq Known
        /\ Known' = Known \cup call[p].ids
        /\ Linked' = Linked \cup call[p].edges
    BY <1>3, CommitAdds DEF Commit, Unsure
  <2> QED
    BY <2>1, <1>1, <1>3, EndMaps DEF Store!Apply, Store!Ends, Ends, StoreInv
<1> QED
  BY <1>2, <1>3 DEF Commit

LEMMA ExistsMaps ==
    ASSUME StoreInv, NEW p \in Procs, EdgeExists(p)
    PROVE  Store!Return(p) \/ Store!RaiseKeyError(p)
<1>1. Known' = Known /\ Linked' = Linked
  BY DEF EdgeExists, Known, Linked
<1>2. result[p] = "busy" /\ call[p] \in Calls /\ call[p].op = "add_edge" /\ Whole(p)
      /\ plan[p].rels \subseteq rels
  BY DEF EdgeExists, StoreInv, Planned, TypeOK
<1>3. CASE call[p].edges \subseteq Linked /\ End(p, "ok")
  <2>1. call[p].ids = {}
    BY <1>2, CallShape
  <2> QED
    BY <2>1, <1>1, <1>2, <1>3, EndMaps DEF Store!Return, StoreInv
<1>4. CASE ~ call[p].edges \subseteq Linked /\ End(p, "unknown")
  <2>1. PairsOf(plan[p].rels) \subseteq Linked
    BY <1>2 DEF PairsOf, Linked
  <2>2. plan[p].rels = {}
    BY <2>1, <1>2, <1>4 DEF Whole
  <2>3. Missed[p]
    BY <2>2, <1>2 DEF Missed, EdgeExists
  <2> QED
    BY <2>3, <1>1, <1>2, <1>4, EndMaps DEF Store!RaiseKeyError, StoreInv
<1> QED
  BY <1>3, <1>4 DEF EdgeExists

LEMMA RaiseMaps ==
    ASSUME StoreInv, NEW p \in Procs, DriverRaises(p)
    PROVE  Store!Fail(p) \/ Store!Apply(p)
<1>1. result[p] = "busy" /\ Store!End(p, "error")
  BY EndMaps DEF DriverRaises, StoreInv, TypeOK
<1>2. CASE UNCHANGED graph
  BY <1>1, <1>2 DEF Store!Fail, Known, Linked
<1>3. CASE pc[p] = "commit" /\ Write(p)
  <2>1. CASE /\ Ends(call[p].edges) \subseteq Known
             /\ Known' = Known \cup call[p].ids
             /\ Linked' = Linked \cup call[p].edges
    BY <2>1, <1>1 DEF Store!Apply, Store!Ends, Ends
  <2>2. CASE UNCHANGED <<Known, Linked>>
    BY <2>2, <1>1 DEF Store!Fail
  <2> QED
    BY <2>1, <2>2, <1>3, CommitAdds
<1> QED
  BY <1>2, <1>3 DEF DriverRaises

LEMMA SwallowMaps ==
    ASSUME StoreInv, NEW p \in Procs, CloseSwallows(p)
    PROVE  Store!ReturnUnheard(p)
<1>1. result[p] = "busy" /\ Store!End(p, "ok") /\ call[p] \in Unheard
  BY EndMaps DEF CloseSwallows, StoreInv, TypeOK, Unheard
<1> QED
  BY <1>1 DEF CloseSwallows, Store!ReturnUnheard, Known, Linked

LEMMA StepMaps == StoreInv /\ [Next]_vars => [Store!Next]_(Store!vars)
<1> SUFFICES ASSUME StoreInv, [Next]_vars
             PROVE  Store!Next \/ UNCHANGED Store!vars
  OBVIOUS
<1>1. ASSUME NEW p \in Procs, NEW c \in Calls, Call(p, c)
      PROVE  Store!Next
  BY <1>1, CallMaps DEF Store!Next
<1>2. ASSUME NEW p \in Procs, FindEnds(p)
      PROVE  Store!Next \/ UNCHANGED Store!vars
  BY <1>2, FindMaps DEF Store!Next
<1>3. ASSUME NEW p \in Procs, Match(p)
      PROVE  Store!Next \/ UNCHANGED Store!vars
  BY <1>3, MatchMaps DEF Store!Next
<1>4. ASSUME NEW p \in Procs, Commit(p)
      PROVE  Store!Next \/ UNCHANGED Store!vars
  BY <1>4, CommitMaps DEF Store!Next
<1>5. ASSUME NEW p \in Procs, EdgeExists(p)
      PROVE  Store!Next
  BY <1>5, ExistsMaps DEF Store!Next
<1>6. ASSUME NEW p \in Procs, DriverRaises(p)
      PROVE  Store!Next
  BY <1>6, RaiseMaps DEF Store!Next
<1>8. ASSUME NEW p \in Procs, CloseSwallows(p)
      PROVE  Store!Next
  BY <1>8, SwallowMaps DEF Store!Next
<1>7. CASE UNCHANGED vars
  BY <1>7 DEF vars, Store!vars, Missed, Known, Linked
<1> QED
  BY <1>1, <1>2, <1>3, <1>4, <1>5, <1>6, <1>7, <1>8 DEF Next

LEMMA InitMaps == Init => Store!Init
  BY DEF Init, Store!Init, Known, Linked, Missed, IdsOf, PairsOf

(* The Neo4j store implements GraphStore: with copies and races and lost   *)
(* answers, no batch that returned is missing or half written, no KeyError *)
(* is raised for ends that were known all along, and only an upsert_node   *)
(* can return without its effect.                                          *)
THEOREM Neo4jImplementsStore == Spec => ImplementsStore
<1>1. Spec => []StoreInv
  BY InitInv, NextInv, PTL DEF Spec
<1> QED
  BY <1>1, InitMaps, StepMaps, PTL DEF Spec, ImplementsStore, Store!Spec

(* What GraphStore gives a caller, hence what Neo4jStore gives: the nodes  *)
(* of a batch, and the edges, that returned without an error are there and *)
(* stay, and every edge of the store has both ends in it.  The node of a   *)
(* single upsert_node is not promised, whose failure nobody hears of.      *)
WritesStay ==
    /\ Store!Ends(Linked) \subseteq Known
    /\ \A p \in Procs : result[p] = "ok" =>
          /\ call[p].edges \subseteq Linked
          /\ call[p].op # "upsert_node" => call[p].ids \subseteq Known

THEOREM AcknowledgedWritesStay == Spec => []WritesStay
<1> DEFINE Shape == /\ result \in [Procs -> {"none", "busy", "ok", "unknown", "error"}]
                    /\ call \in [Procs -> Calls \cup {NoCall}]
           I == Shape /\ WritesStay
<1>1. Store!Init => I
  BY DEF Store!Init, WritesStay, Store!Ends
<1>2. ASSUME I, [Store!Next]_(Store!vars)
      PROVE  I'
  <2>1. CASE UNCHANGED Store!vars
    BY <1>2, <2>1 DEF Store!vars, WritesStay, Store!Ends
  <2>2. ASSUME NEW p \in Procs, NEW r \in {"ok", "unknown", "error"}, Store!End(p, r)
        PROVE  Shape' /\ \A q \in Procs : result'[q] = "ok" => (q = p /\ r = "ok") \/ result[q] = "ok"
    BY <1>2, <2>2 DEF Store!End
  <2>3. ASSUME NEW p \in Procs, NEW c \in Calls, Store!Begin(p, c)
        PROVE  I'
    <3>1. Shape' /\ \A q \in Procs : result'[q] = "ok" => q # p /\ result[q] = "ok"
      BY <1>2, <2>3 DEF Store!Begin
    <3> QED
      BY <1>2, <2>3, <3>1 DEF Store!Begin, WritesStay, Store!Ends
  <2>4. ASSUME NEW p \in Procs, Store!Miss(p)
        PROVE  I'
    BY <1>2, <2>4 DEF Store!Miss, WritesStay, Store!Ends
  <2>5. ASSUME NEW p \in Procs, Store!Apply(p)
        PROVE  I'
    <3>1. PICK r \in {"ok", "error"} : Store!End(p, r)
      BY <2>5 DEF Store!Apply
    <3> QED
      BY <1>2, <2>2, <2>5, <3>1 DEF Store!Apply, Store!End, WritesStay, Store!Ends
  <2>6. ASSUME NEW p \in Procs, Store!Return(p)
        PROVE  I'
    BY <1>2, <2>2, <2>6 DEF Store!Return, Store!End, WritesStay, Store!Ends
  <2>8. ASSUME NEW p \in Procs, Store!ReturnUnheard(p)
        PROVE  I'
    <3>1. call[p].edges = {} /\ call[p].op = "upsert_node"
      BY <2>8, CallShape DEF Store!ReturnUnheard, Unheard
    <3> QED
      BY <1>2, <2>2, <2>8, <3>1 DEF Store!ReturnUnheard, Store!End, WritesStay, Store!Ends
  <2>7. ASSUME NEW p \in Procs, Store!RaiseKeyError(p) \/ Store!Fail(p)
        PROVE  I'
    BY <1>2, <2>2, <2>7 DEF Store!RaiseKeyError, Store!Fail, Store!End, WritesStay, Store!Ends
  <2> QED
    BY <1>2, <2>1, <2>3, <2>4, <2>5, <2>6, <2>7, <2>8 DEF Store!Next
<1> QED
  BY <1>1, <1>2, Neo4jImplementsStore, PTL DEF ImplementsStore, Store!Spec

-----------------------------------------------------------------------------
(* Answers.  Whatever copies there are, each known id has one, its oldest, *)
(* that is linked to the oldest copies of all the ids its id is linked to: *)
(* a MATCH pairs all copies of both ends.  A map from the ids to copies    *)
(* that takes links to relationships, with the map back that forgets the   *)
(* process, makes the two searches find the same ids.                      *)
Follows(o, R) == \A e \in PairsOf(R) : e[1] # e[2] /\ <<o[e[1]], o[e[2]]>> \in R

Picks(o) ==
    /\ \A i \in Known : o[i] \in CopiesOf(i)
    /\ Follows(o, rels)
    /\ \A p \in Procs : Follows(o, plan[p].rels)

LinkInv == \E o : Picks(o)

(* Links and plans end in known ids.                                       *)
LEMMA PairEnds ==
    ASSUME NEW R \in SUBSET (copies \X copies), NEW e \in PairsOf(R)
    PROVE  e = <<e[1], e[2]>> /\ e[1] \in Known /\ e[2] \in Known
<1>1. PICK r \in R : e = <<r[1][1], r[2][1]>>
  BY DEF PairsOf
<1>2. r[1] \in copies /\ r[2] \in copies
  BY <1>1
<1> QED
  BY <1>1, <1>2 DEF Known, IdsOf

(* A commit moves no oldest copy.                                          *)
LEMMA CommitPicks ==
    ASSUME TypeOK, LinkInv, NEW p \in Procs,
           Write(p),
           \A q \in Procs : plan'[q].rels = {} \/ plan'[q].rels = plan[q].rels
    PROVE  LinkInv'
<1>1. PICK o : Picks(o)
  BY DEF LinkInv
<1> DEFINE chosen == [i \in Known' |-> IF i \in Known THEN o[i]
                                       ELSE CHOOSE c \in copies' : c[1] = i]
<1>2. Known \subseteq Known'
  BY DEF Known, IdsOf, Write
<1>3. ASSUME NEW i \in Known'
      PROVE  chosen[i] \in copies' /\ chosen[i][1] = i
  <2>1. CASE i \in Known
    BY <1>1, <1>3, <2>1 DEF Picks, CopiesOf, Write
  <2>2. CASE i \notin Known
    <3>1. \E c \in copies' : c[1] = i
      BY <1>3 DEF Known, IdsOf
    <3> QED
      BY <1>3, <2>2, <3>1
  <2> QED
    BY <2>1, <2>2
<1>4. \A i \in Known : chosen[i] = o[i]
  BY <1>2
<1> HIDE DEF chosen
<1>5. ASSUME NEW R \in SUBSET (copies \X copies), Follows(o, R)
      PROVE  Follows(chosen, R)
  BY <1>4, <1>5, PairEnds DEF Follows
<1>6. /\ rels \in SUBSET (copies \X copies)
      /\ \A q \in Procs : plan[q].rels \in SUBSET (copies \X copies)
  BY DEF TypeOK
<1>7. /\ Follows(chosen, rels)
      /\ \A q \in Procs : Follows(chosen, plan[q].rels)
  BY <1>1, <1>5, <1>6 DEF Picks
<1>8. Follows(chosen, rels')
  BY <1>7, PairsGrow DEF Follows, Write
<1>9. \A q \in Procs : Follows(chosen, plan'[q].rels)
  <2>1. Follows(chosen, {})
    BY DEF Follows, PairsOf
  <2> QED
    BY <1>7, <2>1
<1>10. \A i \in Known' : chosen[i] \in CopiesOf(i)'
  BY <1>3 DEF CopiesOf
<1> QED
  BY <1>8, <1>9, <1>10 DEF LinkInv, Picks

LEMMA MatchPicks ==
    ASSUME StoreInv, LinkInv, NEW p \in Procs, Match(p)
    PROVE  LinkInv'
<1>1. PICK o : Picks(o)
  BY DEF LinkInv
<1> DEFINE E == call[p].edges
           R == MatchedPairs(p, E)
<1>2. call[p] \in Calls /\ E \in SUBSET (Ids \X Ids)
  BY CallShape DEF StoreInv, TypeOK, Match
<1>3. plan'[p].rels = R /\ \A q \in Procs : q # p => plan'[q] = plan[q]
  BY DEF Match, StoreInv, TypeOK, MatchedPairs
<1>4. R \subseteq copies \X copies /\ PairsOf(R) \subseteq E
  <2> HIDE DEF E
  <2> QED
    BY <1>2, MatchedEdges DEF StoreInv
<1>5. ASSUME NEW e \in PairsOf(R)
      PROVE  e[1] # e[2] /\ <<o[e[1]], o[e[2]]>> \in R
  <2>1. e[1] \in Known /\ e[2] \in Known /\ e \in E
    BY <1>4, <1>5, PairEnds
  <2>2. o[e[1]] \in CopiesOf(e[1]) /\ o[e[2]] \in CopiesOf(e[2])
    BY <1>1, <2>1 DEF Picks
  <2>3. <<o[e[1]], o[e[2]]>> \in Matched(p, e)
    BY <2>2 DEF Matched
  <2> QED
    BY <1>2, <2>1, <2>3, NoLoopsAssumption DEF MatchedPairs
<1>6. UNCHANGED <<copies, rels>>
  BY DEF Match
<1> HIDE DEF R, E
<1>7. \A q \in Procs : Follows(o, plan'[q].rels)
  BY <1>1, <1>3, <1>5 DEF Picks, Follows
<1>8. Picks(o)'
  BY <1>1, <1>6, <1>7 DEF Picks, Known, CopiesOf
<1> QED
  BY <1>8 DEF LinkInv

(* Any other step leaves the graph alone, and every plan or nothing of it. *)
LEMMA OtherPicks ==
    ASSUME LinkInv, UNCHANGED <<copies, rels>>,
           \A q \in Procs : plan'[q].rels = {} \/ plan'[q].rels = plan[q].rels
    PROVE  LinkInv'
<1>1. PICK o : Picks(o)
  BY DEF LinkInv
<1>2. Follows(o, {})
  BY DEF Follows, PairsOf
<1>3. Picks(o)'
  BY <1>1, <1>2 DEF Picks, Known, CopiesOf
<1> QED
  BY <1>3 DEF LinkInv

LEMMA EndedPlans ==
    ASSUME TypeOK, NEW p \in Procs, NEW r, End(p, r)
    PROVE  \A q \in Procs : plan'[q].rels = {} \/ plan'[q].rels = plan[q].rels
  BY DEF TypeOK, End, Nothing

LEMMA LinkNext == StoreInv /\ LinkInv /\ [Next]_vars => LinkInv'
<1> SUFFICES ASSUME StoreInv, LinkInv, [Next]_vars
             PROVE  LinkInv'
  OBVIOUS
<1>0. TypeOK
  BY DEF StoreInv
<1>1. ASSUME NEW p \in Procs, NEW c \in Calls, Call(p, c)
      PROVE  LinkInv'
  BY <1>1, OtherPicks DEF Call
<1>2. ASSUME NEW p \in Procs, FindEnds(p)
      PROVE  LinkInv'
  BY <1>0, <1>2, OtherPicks, EndedPlans DEF FindEnds
<1>3. ASSUME NEW p \in Procs, Match(p)
      PROVE  LinkInv'
  BY <1>3, MatchPicks
<1>4. ASSUME NEW p \in Procs, Commit(p)
      PROVE  LinkInv'
  BY <1>0, <1>4, CommitPicks, EndedPlans DEF Commit
<1>5. ASSUME NEW p \in Procs, EdgeExists(p)
      PROVE  LinkInv'
  BY <1>0, <1>5, OtherPicks, EndedPlans DEF EdgeExists
<1>6. ASSUME NEW p \in Procs, DriverRaises(p)
      PROVE  LinkInv'
  BY <1>0, <1>6, OtherPicks, CommitPicks, EndedPlans DEF DriverRaises
<1>8. ASSUME NEW p \in Procs, CloseSwallows(p)
      PROVE  LinkInv'
  BY <1>0, <1>8, OtherPicks, EndedPlans DEF CloseSwallows
<1>7. CASE UNCHANGED vars
  BY <1>7, OtherPicks DEF vars
<1> QED
  BY <1>1, <1>2, <1>3, <1>4, <1>5, <1>6, <1>7, <1>8 DEF Next

(* The two searches, over copies and over ids, along the two maps.         *)
LEMMA SearchesMatch ==
    ASSUME TypeOK, NEW o, Picks(o), NEW i \in Known, NEW d \in Nat
    PROVE  LET onCopies(c) == Visited(Subgraph(copies, rels), c, d)
               onIds == Visited(Subgraph(Known, Linked), i, d)
           IN  /\ \A c \in CopiesOf(i) : \A m \in onCopies(c) : m \in copies /\ m[1] \in onIds
               /\ \A j \in onIds : j \in Known /\ o[j] \in onCopies(o[i])
<1> DEFINE g == Subgraph(copies, rels)
           h == Subgraph(Known, Linked)
           id == [c \in copies |-> c[1]]
<1>1. g.edges = rels /\ h.edges = Linked
  BY DEF Subgraph
<1>2. \A e \in rels : e[1] \in copies /\ e[2] \in copies
  BY DEF TypeOK
<1>3. \A e \in Linked : e[1] \in Known /\ e[2] \in Known
  <2>1. rels \in SUBSET (copies \X copies)
    BY DEF TypeOK
  <2> QED
    BY <2>1, PairEnds DEF Linked
<1>4. \A e \in rels : <<id[e[1]], id[e[2]]>> \in Linked
  <2>1. ASSUME NEW e \in rels
        PROVE  <<id[e[1]], id[e[2]]>> \in Linked
    <3>1. id[e[1]] = e[1][1] /\ id[e[2]] = e[2][1]
      BY <1>2
    <3>2. <<e[1][1], e[2][1]>> \in Linked
      BY DEF Linked, PairsOf
    <3> QED
      BY <3>1, <3>2
  <2> QED
    BY <2>1
<1>5. \A e \in Linked : <<o[e[1]], o[e[2]]>> \in rels
  BY DEF Picks, Follows, Linked
<1>6. \A c \in copies : id[c] = c[1]
  OBVIOUS
<1> HIDE DEF g, h, id
<1>7. ASSUME NEW c \in CopiesOf(i), NEW m \in Visited(g, c, d)
      PROVE  m \in copies /\ m[1] \in Visited(h, i, d)
  <2>1. c \in copies /\ c[1] = i
    BY DEF CopiesOf
  <2>2. Visited(g, c, d) \subseteq copies
    BY <1>1, <1>2, <2>1, VisitedIn
  <2>3. id[m] \in Visited(h, id[c], d)
    BY <1>1, <1>4, VisitedMapped
  <2> QED
    BY <1>6, <2>1, <2>2, <2>3
<1>8. ASSUME NEW j \in Visited(h, i, d)
      PROVE  j \in Known /\ o[j] \in Visited(g, o[i], d)
  <2>1. Visited(h, i, d) \subseteq Known
    BY <1>1, <1>3, VisitedIn
  <2>2. o[j] \in Visited(g, o[i], d)
    BY <1>1, <1>5, VisitedMapped
  <2> QED
    BY <2>1, <2>2
<1> QED
  BY <1>7, <1>8 DEF g, h

(* A row is the neighbourhood of its copy, as the in-memory search has it. *)
LEMMA RowIsHood ==
    ASSUME TypeOK, NEW c \in copies, NEW d \in Nat \ {0}
    PROVE  LET found == Visited(Subgraph(copies, rels), c, d)
           IN  /\ CypherHood(Subgraph(copies, rels), c, d).nodes = found
               /\ CypherHood(Subgraph(copies, rels), c, d).edges
                     = {r \in rels : r[1] \in found /\ r[2] \in found}
<1> DEFINE g == Subgraph(copies, rels)
<1>1. g.nodes = copies /\ g.edges = rels
  BY DEF Subgraph
<1> HIDE DEF g
<1>2. \A e \in g.edges : e = <<e[1], e[2]>>
  BY <1>1 DEF TypeOK
<1>3. Hood(g, c, d) = CypherHood(g, c, d)
  BY <1>2, TraversalsAgree
<1>4. Hood(g, c, d) = Subgraph(Visited(g, c, d),
                         {r \in rels : r[1] \in Visited(g, c, d) /\ r[2] \in Visited(g, c, d)})
  BY <1>1 DEF Hood, Induced
<1>5. /\ CypherHood(g, c, d).nodes = Visited(g, c, d)
      /\ CypherHood(g, c, d).edges
            = {r \in rels : r[1] \in Visited(g, c, d) /\ r[2] \in Visited(g, c, d)}
  BY <1>3, <1>4 DEF Subgraph
<1> QED
  BY <1>5 DEF g

LEMMA DeepAnswer ==
    ASSUME TypeOK, NEW o, Picks(o), NEW i \in Known, NEW d \in Nat \ {0}
    PROVE  LET g == Subgraph(copies, rels)
               rows == {CypherHood(g, c, d) : c \in CopiesOf(i)}
               found == Visited(Subgraph(Known, Linked), i, d)
           IN  /\ UNION {row.nodes : row \in rows} \subseteq copies
               /\ IdsOf(UNION {row.nodes : row \in rows}) = found
               /\ PairsOf(UNION {row.edges : row \in rows})
                     = {e \in Linked : e[1] \in found /\ e[2] \in found}
<1> DEFINE g == Subgraph(copies, rels)
           V(c) == Visited(g, c, d)
           rows == {CypherHood(g, c, d) : c \in CopiesOf(i)}
           found == Visited(Subgraph(Known, Linked), i, d)
           N == UNION {row.nodes : row \in rows}
           E == UNION {row.edges : row \in rows}
<1>1. /\ \A c \in CopiesOf(i) : \A m \in V(c) : m \in copies /\ m[1] \in found
      /\ \A j \in found : j \in Known /\ o[j] \in V(o[i])
  BY SearchesMatch
<1>2. ASSUME NEW c \in CopiesOf(i)
      PROVE  /\ CypherHood(g, c, d).nodes = V(c)
             /\ CypherHood(g, c, d).edges = {r \in rels : r[1] \in V(c) /\ r[2] \in V(c)}
  <2>1. c \in copies
    BY DEF CopiesOf
  <2> QED
    BY <2>1, RowIsHood
<1>3. o[i] \in CopiesOf(i) /\ \A j \in Known : o[j] \in CopiesOf(j)
  BY DEF Picks
<1>4. N = UNION {V(c) : c \in CopiesOf(i)}
  BY <1>2
<1>5. E = UNION {{r \in rels : r[1] \in V(c) /\ r[2] \in V(c)} : c \in CopiesOf(i)}
  BY <1>2
<1> HIDE DEF g, V, rows, found, N, E
<1>6. \A j \in Known : o[j][1] = j
  BY <1>3 DEF CopiesOf
<1>7. IdsOf(N) = found
  <2>1. \A m \in N : m[1] \in found
    BY <1>1, <1>4
  <2>2. \A j \in found : o[j] \in N /\ o[j][1] = j
    BY <1>1, <1>3, <1>4, <1>6
  <2> QED
    BY <2>1, <2>2 DEF IdsOf
<1>8. PairsOf(E) = {e \in Linked : e[1] \in found /\ e[2] \in found}
  <2>1. ASSUME NEW r \in E
        PROVE  r \in rels /\ r[1][1] \in found /\ r[2][1] \in found
    BY <1>1, <1>5
  <2>2. ASSUME NEW e \in Linked, e[1] \in found, e[2] \in found
        PROVE  e \in PairsOf(E)
    <3>1. <<o[e[1]], o[e[2]]>> \in rels
      BY DEF Picks, Follows, Linked
    <3>2. <<o[e[1]], o[e[2]]>> \in E
      BY <1>1, <1>3, <1>5, <2>2, <3>1
    <3>3. e = <<e[1], e[2]>>
      <4>1. rels \in SUBSET (copies \X copies)
        BY DEF TypeOK
      <4> QED
        BY <4>1, PairEnds DEF Linked
    <3>4. o[e[1]][1] = e[1] /\ o[e[2]][1] = e[2]
      BY <1>1, <1>6, <2>2
    <3> QED
      BY <3>2, <3>3, <3>4 DEF PairsOf
  <2>3. \A e \in PairsOf(E) : e \in Linked /\ e[1] \in found /\ e[2] \in found
    BY <2>1 DEF PairsOf, Linked
  <2> QED
    BY <2>2, <2>3
<1>9. N \subseteq copies
  BY <1>1, <1>4
<1> QED
  BY <1>7, <1>8, <1>9 DEF N, E, rows, g, found

(* An answer gives the label of each copy it found.                        *)
LEMMA RowIds ==
    ASSUME NEW C
    PROVE  {row.id : row \in Rows(C)} = IdsOf(C)
<1>1. ASSUME NEW row \in Rows(C)
      PROVE  row.id \in IdsOf(C)
  <2>1. PICK c \in C : row = [id |-> c[1], label |-> label[c]]
    BY DEF Rows
  <2> QED
    BY <2>1 DEF IdsOf
<1>2. ASSUME NEW c \in C
      PROVE  \E row \in Rows(C) : row.id = c[1]
  <2>1. [id |-> c[1], label |-> label[c]] \in Rows(C)
    BY DEF Rows
  <2> QED
    BY <2>1
<1> QED
  BY <1>1, <1>2 DEF IdsOf

LEMMA AnswerIsHood ==
    ASSUME TypeOK, LinkInv, NEW i \in Ids, NEW d \in Nat, NEW a \in Answers(i, d)
    PROVE  /\ Subgraph({row.id : row \in a.nodes}, a.edges)
                  = Hood(Subgraph(Known, Linked), i, d)
           /\ \E C \in SUBSET copies : a.nodes = Rows(C)
<1> DEFINE h == Subgraph(Known, Linked)
           hoods == {CypherHood(Subgraph(copies, rels), c, d) : c \in CopiesOf(i)}
           N == UNION {hood.nodes : hood \in hoods}
           E == UNION {hood.edges : hood \in hoods}
           found == Visited(h, i, d)
<1>1. h.nodes = Known /\ h.edges = Linked
  BY DEF Subgraph
<1>2. PICK o : Picks(o)
  BY DEF LinkInv
<1>3. CASE i \notin Known
  <2>1. CopiesOf(i) = {}
    BY <1>3 DEF Known, IdsOf, CopiesOf
  <2>2. Hood(h, i, d) = Subgraph({}, {})
    BY <1>1, <1>3 DEF Hood, EmptySubgraph
  <2>3. N = {} /\ E = {}
    BY <2>1
  <2>4. a = Subgraph(Rows(N), PairsOf(E))
    BY <2>1 DEF Answers
  <2>5. IdsOf({}) = {} /\ PairsOf({}) = {}
    BY DEF IdsOf, PairsOf
  <2>6. a.nodes = Rows({}) /\ a.edges = {}
    BY <2>3, <2>4, <2>5 DEF Subgraph
  <2> HIDE DEF h, N, E
  <2>7. {row.id : row \in a.nodes} = {}
    BY <2>5, <2>6, RowIds
  <2> QED
    BY <2>2, <2>6, <2>7 DEF h
<1>4. CASE i \in Known
  <2>1. Hood(h, i, d) = Subgraph(found, {e \in Linked : e[1] \in found /\ e[2] \in found})
    <3> HIDE DEF h
    <3> QED
      BY <1>1, <1>4 DEF Hood, Induced
  <2>2. CASE d = 0
    <3>1. found = {i}
      BY <2>2, VisitedSteps
    <3>2. {e \in Linked : e[1] \in {i} /\ e[2] \in {i}} = {}
      BY <1>2 DEF Picks, Follows, Linked
    <3>3. CopiesOf(i) # {}
      BY <1>4, KnownHasCopy
    <3>4. PICK c \in CopiesOf(i) : a = Subgraph(Rows({c}), {})
      <4>1. ~(d > 0 \/ CopiesOf(i) = {})
        BY <2>2, <3>3
      <4>2. Answers(i, d) = {Subgraph(Rows({c}), {}) : c \in CopiesOf(i)}
        BY <4>1, Zenon DEF Answers
      <4> QED
        BY <4>2, Zenon
    <3>5. a.nodes = Rows({c}) /\ a.edges = {} /\ c \in copies /\ IdsOf({c}) = {i}
      BY <3>4 DEF Subgraph, CopiesOf, IdsOf
    <3>6. {row.id : row \in a.nodes} = {i}
      BY <3>5, RowIds
    <3> HIDE DEF found, h
    <3>7. Subgraph({row.id : row \in a.nodes}, a.edges) = Hood(h, i, d)
      BY <2>1, <3>1, <3>2, <3>5, <3>6, Zenon
    <3> QED
      BY <3>5, <3>7 DEF h
  <2>3. CASE d # 0
    <3>1. a = Subgraph(Rows(N), PairsOf(E))
      BY <2>3 DEF Answers
    <3>2. /\ N \subseteq copies
          /\ IdsOf(N) = found
          /\ PairsOf(E) = {e \in Linked : e[1] \in found /\ e[2] \in found}
      BY <1>2, <1>4, <2>3, DeepAnswer
    <3> HIDE DEF h, N, E, found
    <3>3. a.nodes = Rows(N) /\ a.edges = PairsOf(E)
      BY <3>1 DEF Subgraph
    <3>4. {row.id : row \in a.nodes} = found
      BY <3>2, <3>3, RowIds
    <3> QED
      BY <2>1, <3>2, <3>3, <3>4 DEF h
  <2> QED
    BY <2>2, <2>3
<1> QED
  BY <1>3, <1>4

(* The label of a copy comes from a call that upserts its id.              *)
Labelled == \A c \in copies : \E k \in Calls : c[1] \in k.ids /\ label[c] = k.label

LEMMA LabelledNext == StoreInv /\ Labelled /\ [Next]_vars => Labelled'
<1> SUFFICES ASSUME StoreInv, Labelled, [Next]_vars
             PROVE  Labelled'
  OBVIOUS
<1>1. CASE UNCHANGED graph
  BY <1>1 DEF graph, Labelled
<1>2. ASSUME NEW p \in Procs, pc[p] = "commit", Write(p)
      PROVE  Labelled'
  <2>1. call[p] \in Calls /\ IdsOf(plan[p].copies) = call[p].ids
    BY <1>2 DEF StoreInv, TypeOK, Planned, Whole
  <2>2. ASSUME NEW c \in copies'
        PROVE  \E k \in Calls : c[1] \in k.ids /\ label'[c] = k.label
    <3>1. copies \subseteq Copies /\ copies' \subseteq Copies
      BY <1>2, <2>1, CommitGraph DEF StoreInv, TypeOK
    <3>2. CASE c \in plan[p].copies
      <4>1. c[1] \in call[p].ids
        BY <2>1, <3>2 DEF IdsOf
      <4>2. label'[c] = call[p].label
        BY <1>2, <2>2, <3>1, <3>2 DEF Write
      <4> QED
        BY <2>1, <4>1, <4>2
    <3>3. CASE c \notin plan[p].copies
      <4>1. c \in copies /\ label'[c] = label[c]
        BY <1>2, <2>2, <3>1, <3>3 DEF Write
      <4> QED
        BY <4>1 DEF Labelled
    <3> QED
      BY <3>2, <3>3
  <2> QED
    BY <2>2 DEF Labelled
<1>3. CASE UNCHANGED vars
  BY <1>1, <1>3 DEF vars
<1> QED
  BY <1>1, <1>2, <1>3
  DEF Next, Call, FindEnds, Match, Commit, EdgeExists, DriverRaises, CloseSwallows

LEMMA RenamedOnly ==
    ASSUME TypeOK, Labelled, NEW C \in SUBSET copies,
           NEW row \in Rows(C), NEW other \in Rows(C), row.id = other.id, row # other
    PROVE  row.id \in Renamed
<1>1. PICK c \in C : row = [id |-> c[1], label |-> label[c]]
  BY DEF Rows
<1>2. PICK d \in C : other = [id |-> d[1], label |-> label[d]]
  BY DEF Rows
<1>3. row.id = c[1] /\ d[1] = c[1] /\ label[c] # label[d]
  BY <1>1, <1>2
<1>4. c[1] \in Ids
  BY DEF TypeOK, Copies
<1> QED
  BY <1>3, <1>4 DEF Labelled, Renamed

(* Whatever processes raced to create, the ids and edges of the answers    *)
(* are the neighbourhoods of the graph whose nodes are the ids.  Copies    *)
(* show as several rows of one id only where callers give the id several   *)
(* labels.                                                                 *)
THEOREM AnswersAreSame == Spec => []SameAnswers
<1>1. Spec => []StoreInv
  BY InitInv, NextInv, PTL DEF Spec
<1>2. Init => LinkInv /\ Labelled
  <2>1. ASSUME Init
        PROVE  Picks({})
    <3>1. Follows({}, {})
      BY DEF Follows, PairsOf
    <3> QED
      BY <2>1, <3>1 DEF Init, Picks, Known, IdsOf, Nothing
  <2> QED
    BY <2>1 DEF Init, LinkInv, Labelled
<1>3. ASSUME StoreInv, LinkInv, Labelled
      PROVE  SameAnswers
  <2>1. ASSUME NEW i \in Ids, NEW d \in Depths, NEW a \in Answers(i, d)
        PROVE  /\ Subgraph({row.id : row \in a.nodes}, a.edges)
                      = Hood(Subgraph(Known, Linked), i, d)
               /\ \A row, other \in a.nodes :
                      row.id = other.id /\ row # other => row.id \in Renamed
    <3>1. d \in Nat /\ TypeOK
      BY <1>3, DepthsAssumption DEF StoreInv
    <3>2. PICK C \in SUBSET copies : a.nodes = Rows(C)
      BY <1>3, <3>1, AnswerIsHood
    <3>3. \A row, other \in a.nodes :
             row.id = other.id /\ row # other => row.id \in Renamed
      BY <1>3, <3>1, <3>2, RenamedOnly
    <3> QED
      BY <1>3, <3>1, <3>3, AnswerIsHood
  <2> QED
    BY <2>1 DEF SameAnswers
<1> QED
  BY <1>1, <1>2, <1>3, LinkNext, LabelledNext, PTL DEF Spec
=============================================================================
