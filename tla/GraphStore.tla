----------------------------- MODULE GraphStore -----------------------------
(***************************************************************************)
(* What the writes of a graph store promise (graph/base.py): an upsert     *)
(* makes its nodes known, a batch of edges is written whole or not at all, *)
(* and a KeyError means that an end was unknown at some moment of the      *)
(* call.  A call that ends in an error of the database may have had its    *)
(* effect, and an Unheard one may return without it.                       *)
(***************************************************************************)
CONSTANTS Procs, Calls, NoCall,
          Unheard       \* the calls whose failure the backend keeps to itself

VARIABLES nodes, edges,
          call, result, \* of each process: its last call and how it ended
          missed        \* an end was seen to be unknown during this call

vars == <<nodes, edges, call, result, missed>>

Ends(E) == {e[1] : e \in E} \cup {e[2] : e \in E}

Init ==
    /\ nodes = {}
    /\ edges = {}
    /\ call = [p \in Procs |-> NoCall]
    /\ result = [p \in Procs |-> "none"]
    /\ missed = [p \in Procs |-> FALSE]

Begin(p, c) ==
    /\ result[p] # "busy"
    /\ call' = [call EXCEPT ![p] = c]
    /\ result' = [result EXCEPT ![p] = "busy"]
    /\ UNCHANGED <<nodes, edges, missed>>

Miss(p) ==
    /\ result[p] = "busy"
    /\ ~ Ends(call[p].edges) \subseteq nodes
    /\ missed' = [missed EXCEPT ![p] = TRUE]
    /\ UNCHANGED <<nodes, edges, call, result>>

End(p, r) ==
    /\ result' = [result EXCEPT ![p] = r]
    /\ missed' = [missed EXCEPT ![p] = FALSE]
    /\ UNCHANGED call

Apply(p) ==
    /\ result[p] = "busy"
    /\ Ends(call[p].edges) \subseteq nodes
    /\ nodes' = nodes \cup call[p].ids
    /\ edges' = edges \cup call[p].edges
    /\ \E r \in {"ok", "error"} : End(p, r)

Return(p) ==
    /\ result[p] = "busy"
    /\ call[p].ids \subseteq nodes
    /\ call[p].edges \subseteq edges
    /\ End(p, "ok")
    /\ UNCHANGED <<nodes, edges>>

ReturnUnheard(p) ==
    /\ result[p] = "busy"
    /\ call[p] \in Unheard
    /\ End(p, "ok")
    /\ UNCHANGED <<nodes, edges>>

RaiseKeyError(p) ==
    /\ result[p] = "busy"
    /\ missed[p] \/ ~ Ends(call[p].edges) \subseteq nodes
    /\ End(p, "unknown")
    /\ UNCHANGED <<nodes, edges>>

Fail(p) ==
    /\ result[p] = "busy"
    /\ End(p, "error")
    /\ UNCHANGED <<nodes, edges>>

Next ==
    \E p \in Procs :
        \/ \E c \in Calls : Begin(p, c)
        \/ Miss(p)
        \/ Apply(p)
        \/ Return(p)
        \/ ReturnUnheard(p)
        \/ RaiseKeyError(p)
        \/ Fail(p)

Spec == Init /\ [][Next]_vars
=============================================================================
