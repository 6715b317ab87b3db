----------------------------- MODULE Neo4jStore -----------------------------
(***************************************************************************)
(* The Neo4j graph store (neo4j_store.py) used by several processes.  A    *)
(* MERGE on an id that no constraint makes unique is two steps: it matches *)
(* the committed nodes, then commits what it creates for the ids it did    *)
(* not find.  Two processes can both miss an id and create it twice, and   *)
(* from then on every MATCH by that id finds both copies.                  *)
(*                                                                         *)
(* Nothing is ever deleted, so a process creates an id at most once: the   *)
(* copy <<id, p>> is the one p created.  An id has one kind, and a pair of *)
(* ids one type of edge, so both are left out; the label is what the last  *)
(* statement to write the copy said.  A batch that is empty returns at     *)
(* once and is no call here.                                               *)
(***************************************************************************)
EXTENDS Neighborhood

CONSTANTS Procs, Ids, Labels, NoLabel,
          Calls,        \* the writes that can be asked for
          NoCall,
          Depths        \* of neighborhood

Upserts == {"upsert_node", "upsert_iocs"}

ASSUME CallsAssumption ==
    /\ Calls \subseteq [op : Upserts \cup {"add_edge", "add_edges"}, ids : SUBSET Ids,
                        label : Labels \cup {NoLabel}, edges : SUBSET (Ids \X Ids)]
    /\ \A c \in Calls :
          IF c.op \in Upserts THEN c.edges = {} ELSE c.ids = {} /\ c.edges # {}
    /\ \A c \in Calls : c.op = "add_edge" => \E e \in Ids \X Ids : c.edges = {e}
    /\ NoCall \notin Calls
(* The edges of ingest.py join nodes of different kinds, so no node is     *)
(* linked to itself: depth 0 is get_node here, and would leave out a loop  *)
(* that the in-memory search returns.                                      *)
ASSUME NoLoopsAssumption == \A c \in Calls : \A e \in c.edges : e[1] # e[2]
ASSUME DepthsAssumption == Depths \subseteq Nat

VARIABLES copies,       \* the nodes of the database
          label,        \* of each of them
          rels,         \* its LINKED relationships, between copies
          call, result, \* of each process: its last call and how it ended
          pc,           \* the statement a process is at
          plan          \* what its running statement will commit

graph == <<copies, label, rels>>
vars == <<copies, label, rels, call, result, pc, plan>>
Copies == Ids \X Procs
Nothing == [copies |-> {}, rels |-> {}]

CopiesOf(i) == {c \in copies : c[1] = i}
IdsOf(C) == {c[1] : c \in C}
PairsOf(R) == {<<r[1][1], r[2][1]>> : r \in R}
Known == IdsOf(copies)
Linked == PairsOf(rels)
Ends(E) == {e[1] : e \in E} \cup {e[2] : e \in E}

(* State is well formed: in particular relationships end in nodes.         *)
TypeOK ==
    /\ copies \subseteq Copies
    /\ label \in [Copies -> Labels \cup {NoLabel}]
    /\ rels \subseteq copies \X copies
    /\ call \in [Procs -> Calls \cup {NoCall}]
    /\ result \in [Procs -> {"none", "busy", "ok", "unknown", "error"}]
    /\ pc \in [Procs -> {"idle", "find", "match", "commit", "check"}]
    /\ plan \in [Procs -> [copies : SUBSET Copies, rels : SUBSET (Copies \X Copies)]]
    /\ \A p \in Procs : plan[p].rels \subseteq copies \X copies
    /\ \A p \in Procs : pc[p] # "idle" => result[p] = "busy" /\ call[p] \in Calls

Init ==
    /\ copies = {}
    /\ label = [c \in Copies |-> NoLabel]
    /\ rels = {}
    /\ call = [p \in Procs |-> NoCall]
    /\ result = [p \in Procs |-> "none"]
    /\ pc = [p \in Procs |-> "idle"]
    /\ plan = [p \in Procs |-> Nothing]

-----------------------------------------------------------------------------
GoTo(p, s) == pc' = [pc EXCEPT ![p] = s] /\ UNCHANGED <<call, result>>

End(p, r) ==
    /\ pc' = [pc EXCEPT ![p] = "idle"]
    /\ result' = [result EXCEPT ![p] = r]
    /\ plan' = [plan EXCEPT ![p] = Nothing]
    /\ UNCHANGED call

Call(p, c) ==
    /\ pc[p] = "idle"
    /\ call' = [call EXCEPT ![p] = c]
    /\ result' = [result EXCEPT ![p] = "busy"]
    /\ pc' = [pc EXCEPT ![p] = IF c.op = "add_edges" THEN "find" ELSE "match"]
    /\ UNCHANGED <<graph, plan>>

\* Mutant: the ends of a batch are not looked up first.
FindNothing(p) ==
    /\ pc[p] = "find"
    /\ GoTo(p, "match")
    /\ UNCHANGED <<graph, plan>>

(* The first query of add_edges: all ends, or a KeyError.                  *)
FindEnds(p) ==
    /\ pc[p] = "find"
    /\ IF Ends(call[p].edges) \subseteq Known
       THEN GoTo(p, "match") /\ UNCHANGED plan
       ELSE End(p, "unknown")
    /\ UNCHANGED graph

\* Mutant: a relationship joins the copies that the process made itself.
MatchedOwn(p, e) == {<<<<e[1], p>>, <<e[2], p>>>>}

(* MATCH (a {id: source}), (b {id: target}): every pair of copies.         *)
Matched(p, e) == CopiesOf(e[1]) \X CopiesOf(e[2])

(* UNWIND, MATCH and MERGE over the rows of a statement.  MERGE matches    *)
(* every copy of an id, and makes one of an id that has none; SET then     *)
(* writes all of these.                                                    *)
Merged(p, N) == {c \in copies : c[1] \in N} \cup {<<i, p>> : i \in N \ Known}

Match(p) ==
    /\ pc[p] = "match"
    /\ plan' = [plan EXCEPT ![p] =
                  [copies |-> Merged(p, call[p].ids),
                   rels |-> UNION {Matched(p, e) : e \in call[p].edges}]]
    /\ GoTo(p, "commit")
    /\ UNCHANGED graph

(* add_edge asks whether the edge exists when no relationship was created. *)
Unsure(p) == call[p].op = "add_edge" /\ plan[p].rels \subseteq rels

Write(p) ==
    /\ copies' = copies \cup plan[p].copies
    /\ label' = [c \in Copies |-> IF c \in plan[p].copies THEN call[p].label ELSE label[c]]
    /\ rels' = rels \cup plan[p].rels

Commit(p) ==
    /\ pc[p] = "commit"
    /\ Write(p)
    /\ IF Unsure(p) THEN GoTo(p, "check") /\ UNCHANGED plan ELSE End(p, "ok")

EdgeExists(p) ==
    /\ pc[p] = "check"
    /\ IF call[p].edges \subseteq Linked THEN End(p, "ok") ELSE End(p, "unknown")
    /\ UNCHANGED graph

(* The driver raises, before the statement's commit or after it: a session *)
(* runs every statement in a transaction of its own and does not retry.    *)
DriverRaises(p) ==
    /\ pc[p] # "idle"
    /\ \/ UNCHANGED graph
       \/ pc[p] = "commit" /\ Write(p)
    /\ End(p, "error")

(* upsert_node does not consume its result.  A failure that comes with it, *)
(* of the statement or of its commit, is met when the session closes, and  *)
(* Session.close of the driver swallows it.                                *)
CloseSwallows(p) ==
    /\ pc[p] \in {"match", "commit"}
    /\ call[p].op = "upsert_node"
    /\ UNCHANGED graph
    /\ End(p, "ok")

Next ==
    \E p \in Procs :
        \/ \E c \in Calls : Call(p, c)
        \/ FindEnds(p)
        \/ Match(p)
        \/ Commit(p)
        \/ EdgeExists(p)
        \/ DriverRaises(p)
        \/ CloseSwallows(p)

Spec == Init /\ [][Next]_vars

-----------------------------------------------------------------------------
(* collect(DISTINCT ...) makes one row of the copies with the same id and  *)
(* label.                                                                  *)
Rows(C) == {[id |-> c[1], label |-> label[c]] : c \in C}

\* Mutant: the query collects per copy of the start, and the first record counts.
AnswersOfOne(i, depth) ==
    {Subgraph(Rows(hood.nodes), PairsOf(hood.edges)) :
        hood \in {CypherHood(Subgraph(copies, rels), c, depth) : c \in CopiesOf(i)}}

(* neighborhood: the copies that each copy of the start reaches and the    *)
(* relationships between those.  Depth 0 is get_node, which takes the      *)
(* first record, whichever that is.                                        *)
Answers(i, depth) ==
    LET found == {CypherHood(Subgraph(copies, rels), c, depth) : c \in CopiesOf(i)}
    IN  IF depth > 0 \/ CopiesOf(i) = {}
        THEN {Subgraph(Rows(UNION {hood.nodes : hood \in found}),
                       PairsOf(UNION {hood.edges : hood \in found}))}
        ELSE {Subgraph(Rows({c}), {}) : c \in CopiesOf(i)}

(* Ids that callers label in more than one way, as ingest_document does a  *)
(* technique with and without a name.                                      *)
Renamed ==
    {i \in Ids : \E c, d \in Calls : i \in c.ids \cap d.ids /\ c.label # d.label}

(* Whatever processes raced to create, the ids and edges of an answer are  *)
(* the neighbourhood in the graph whose nodes are the ids, and the only    *)
(* ids with several rows are those that callers label differently.  It     *)
(* rests on every MATCH taking all the copies: the oldest copies of two    *)
(* linked ids are always linked.                                           *)
SameAnswers ==
    \A i \in Ids, d \in Depths : \A a \in Answers(i, d) :
        /\ Subgraph({row.id : row \in a.nodes}, a.edges)
               = Hood(Subgraph(Known, Linked), i, d)
        /\ \A row, other \in a.nodes :
               row.id = other.id /\ row # other => row.id \in Renamed

(* The writes implement GraphStore although an id may have two copies: no  *)
(* edge of a batch is skipped, a KeyError is never raised for ends that    *)
(* were there all along, and only an upsert_node returns without effect.   *)
Missed == [p \in Procs |->
             /\ pc[p] \in {"commit", "check"}
             /\ call[p].op = "add_edge"
             /\ plan[p].rels = {}]

Unheard == {c \in Calls : c.op = "upsert_node"}
Store == INSTANCE GraphStore WITH nodes <- Known, edges <- Linked, missed <- Missed

ImplementsStore == Store!Spec
=============================================================================
