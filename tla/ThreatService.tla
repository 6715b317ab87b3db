--------------------------- MODULE ThreatService ---------------------------
(***************************************************************************)
(* Ingestion processes and the API over the same stores.                   *)
(***************************************************************************)
EXTENDS Correlate

serviceVars == <<ingestVars, readVars>>

TypeOK == IngestTypeOK /\ CorrelateTypeOK

Init == IngestInit /\ CorrelateInit

Next ==
    \/ IngestNext /\ UNCHANGED readVars
    \/ CorrelateNext /\ UNCHANGED ingestVars
    \/ GraphLost /\ RequestOver

Spec == Init /\ [][Next]_serviceVars

(* "Identical across the memory and Neo4j backends": on every graph that   *)
(* ingestion leaves, whole or half way, the breadth-first search and the   *)
(* path query find the same neighbourhood, at every depth the API takes.   *)
BackendsAgree ==
    phase = "traverse" =>
        \A d \in 1..4 :
            Hood(Subgraph(nodes, edges), Head(candidates), d)
                = CypherHood(Subgraph(nodes, edges), Head(candidates), d)

(* Ingestion keeps the promise of FactBase.  What it can lose unnoticed is *)
(* a campaign that nothing links to, and only over Bolt.                   *)
FactsOf(j) == JobNodes(j) \cup JobEdges(j)
Unnoticed == IF "neo4j" \in Backends THEN Bare ELSE {}
Outcome == [p \in Procs |-> IF Busy(p) THEN "busy" ELSE stage[p]]
Promise == INSTANCE FactBase
    WITH Facts <- FactsOf, Fragile <- Unnoticed, known <- nodes \cup edges,
         task <- job, result <- Outcome
KeepsPromise == Promise!Spec
=============================================================================
