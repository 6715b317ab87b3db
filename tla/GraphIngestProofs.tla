------------------------- MODULE GraphIngestProofs -------------------------
(***************************************************************************)
(* Proofs about ThreatService, for any processes, jobs and stores: writes  *)
(* come in an order in which no end of an edge is missing, embeddings come *)
(* after their node, ingestion implements FactBase, and the answers of     *)
(* correlate are closed, known, and the same with both stores.             *)
(***************************************************************************)
EXTENDS ThreatService, NeighborhoodProofs

USE JobsAssumption, NamesAssumption, BackendsAssumption, DepthsAssumption

(* The campaigns of the parts a loop has left behind.                      *)
HubsBefore(j, n) == {j.parts[i].hub : i \in 1..(n - 1)} \ {NoHub}
JobHubs(j) == {j.parts[i].hub : i \in 1..Len(j.parts)} \ {NoHub}
JobLinks(j) == UNION {Range(part.links) : part \in Range(j.parts)}

(* The nodes some call has written, as far as its caller can tell.         *)
Tried == nodes \cup lost

(* The entities of a report that are linked to its campaign.               *)
LinkedBefore(part, n) ==
    \A i \in 1..(n - 1) : /\ part.links[i] \in nodes
                          /\ LinkOf(part.hub, part.links[i]) \in edges

(* How far each stage of a job is ahead of its writes.                     *)
Progress(p) ==
    /\ stage[p] \in {"campaign", "embed", "store"} => at[p] \in 1..Len(job[p].parts)
    /\ stage[p] \in {"indicators", "edges"} => job[p].batched
    /\ stage[p] \in {"entity", "link"} =>
          /\ ~job[p].batched
          /\ at[p] \in 1..Len(Report(p).links)
          /\ Report(p).hub \in Tried
          /\ LinkedBefore(Report(p), at[p])
    /\ stage[p] = "campaign" => HubsBefore(job[p], at[p]) \subseteq Tried
    /\ stage[p] \in {"indicators", "edges", "embed", "store", "done"} =>
          JobHubs(job[p]) \subseteq Tried
    /\ stage[p] \in {"edges", "embed", "store", "done"} =>
          JobLinks(job[p]) \subseteq nodes
    /\ stage[p] = "link" => Entity(p) \in Tried
    /\ stage[p] = "store" => Part(p).hub \in Hubs /\ Part(p).text \in Texts
    /\ stage[p] \in {"embed", "store", "done"} => JobEdges(job[p]) \subseteq edges
    /\ stage[p] = "done" => job[p] \in Jobs

(* What only Bolt loses.                                                   *)
LostOverBolt == backend = "memory" => lost = {}

IngestInv ==
    /\ IngestTypeOK
    /\ \A p \in Procs : Progress(p)
    /\ LostOverBolt
    /\ EmbeddingHasNode

-----------------------------------------------------------------------------
(* What an upsert does, whether it commits or is lost.                     *)
LEMMA UpsertGrows ==
    ASSUME NEW N, UpsertNode(N) \/ UpsertBatch(N)
    PROVE  /\ nodes \subseteq nodes' /\ nodes' \subseteq nodes \cup N
           /\ lost' \subseteq lost \cup N
           /\ Tried \subseteq Tried' /\ N \subseteq Tried'
           /\ LostOverBolt /\ backend' = backend => LostOverBolt'
<1>1. CASE nodes' = nodes \cup N /\ lost' = lost \ N
  BY <1>1 DEF Tried, LostOverBolt
<1>2. CASE backend = "neo4j" /\ nodes' = nodes /\ lost' = lost \cup (N \ nodes)
  BY <1>2 DEF Tried, LostOverBolt
<1> QED
  BY <1>1, <1>2 DEF UpsertNode, UpsertBatch

(* The graph has both ends of its edges, at every moment, and only         *)
(* GraphLost takes a node away.                                            *)
GraphClosed == Ends(edges) \subseteq nodes

LEMMA WritesGrow ==
    ASSUME GraphClosed, IngestNext
    PROVE  nodes \subseteq nodes' /\ GraphClosed'
<1>1. PICK p \in Procs : IngestStep(p) \/ \E j \in Jobs : Begin(p, j)
  BY DEF IngestNext
<1>2. CASE UNCHANGED <<nodes, edges>>
  BY <1>2 DEF GraphClosed
<1>3. CASE nodes \subseteq nodes' /\ edges' = edges
  BY <1>3 DEF GraphClosed
<1>4. ASSUME NEW E, NEW Continue, AddEdges(p, E, Continue), nodes' = nodes
      PROVE  nodes \subseteq nodes' /\ GraphClosed'
  BY <1>4 DEF AddEdges, GraphClosed, Ends
<1>5. CASE LinkBatch(p)
  BY <1>4, <1>5 DEF LinkBatch
<1>6. CASE LinkEntity(p)
  BY <1>4, <1>6 DEF LinkEntity
<1>7. CASE UpsertCampaign(p) \/ UpsertIocs(p) \/ UpsertEntity(p)
  <2>1. edges' = edges /\ \E N : UpsertNode(N) \/ UpsertBatch(N)
    BY <1>7 DEF UpsertCampaign, UpsertIocs, UpsertEntity
  <2> QED
    BY <1>3, <2>1, UpsertGrows
<1>8. CASE EmbedSkips(p) \/ EmbedComputes(p) \/ EmbedStores(p) \/ Raises(p)
              \/ \E j \in Jobs : Begin(p, j)
  BY <1>2, <1>8 DEF EmbedSkips, EmbedComputes, EmbedStores, Raises, Begin, stores
<1> QED
  BY <1>1, <1>5, <1>6, <1>7, <1>8 DEF IngestStep

LEMMA ClosedInvariant == Spec => []GraphClosed
<1>1. Init => GraphClosed
  BY DEF Init, IngestInit, GraphClosed, Ends
<1>2. ASSUME GraphClosed, [Next]_serviceVars PROVE GraphClosed'
  <2>1. CASE GraphLost
    BY <2>1 DEF GraphLost, GraphClosed, Ends
  <2>2. CASE UNCHANGED ingestVars
    BY <1>2, <2>2 DEF ingestVars, GraphClosed
  <2> QED
    BY <1>2, <2>1, <2>2, WritesGrow DEF Next, serviceVars
<1> QED
  BY <1>1, <1>2, PTL DEF Spec

-----------------------------------------------------------------------------
(* What the assumptions say of one job, spelled out.                       *)
LEMMA JobShape ==
    ASSUME NEW j \in Jobs
    PROVE  /\ j.batched \in BOOLEAN /\ j.embed \in BOOLEAN
           /\ j.parts \in Seq(Parts)
           /\ Len(j.parts) \in Nat /\ Len(j.parts) >= 1
           /\ j.parts[1] \in Parts
           /\ \A i \in 1..Len(j.parts) : j.parts[i] \in Parts
           /\ ~j.batched => Len(j.parts) = 1 /\ j.parts[1].hub \in Hubs
<1>1. j \in [batched : BOOLEAN, embed : BOOLEAN, parts : Seq(Parts)] /\ j.parts # <<>>
  OBVIOUS
<1>2. j.parts \in Seq(Parts) /\ Len(j.parts) \in Nat /\ Len(j.parts) >= 1
  BY <1>1
<1>3. \A i \in 1..Len(j.parts) : j.parts[i] \in Parts
  BY <1>2
<1>4. j.parts[1] \in Parts /\ j.parts[1].hub \in Hubs \cup {NoHub}
  BY <1>2, <1>3 DEF Parts
<1> QED
  BY <1>1, <1>2, <1>3, <1>4

LEMMA PartShape ==
    ASSUME NEW part \in Parts
    PROVE  /\ part.hub \in Hubs \cup {NoHub}
           /\ part.text \in Texts \cup {NoText}
           /\ part.links \in Seq(Entities)
           /\ Range(part.links) = {part.links[i] : i \in 1..Len(part.links)}
           /\ Range(part.links) \subseteq Entities
  BY DEF Parts, Range

(* The nodes of a job are its campaigns and its entities.                  *)
LEMMA JobNodesSplit ==
    ASSUME NEW j \in Jobs
    PROVE  JobNodes(j) = JobHubs(j) \cup JobLinks(j)
<1>1. Range(j.parts) = {j.parts[i] : i \in 1..Len(j.parts)}
  BY JobShape DEF Range
<1> QED
  BY <1>1 DEF JobNodes, NodesOf, JobHubs, JobLinks

LEMMA JobFactsShape ==
    ASSUME NEW j \in Jobs
    PROVE  /\ JobNodes(j) \subseteq Hubs \cup Entities
           /\ JobEdges(j) \subseteq (Hubs \X Others) \cup (Indicators \X Hubs)
           /\ Ends(JobEdges(j)) \subseteq JobNodes(j)
<1>1. \A part \in Range(j.parts) : part \in Parts
  BY JobShape DEF Range
<1>2. ASSUME NEW part \in Range(j.parts)
      PROVE  /\ NodesOf(part) \subseteq Hubs \cup Entities
             /\ EdgesOf(part) \subseteq (Hubs \X Others) \cup (Indicators \X Hubs)
             /\ Ends(EdgesOf(part)) \subseteq NodesOf(part)
  <2>1. part.hub \in Hubs \cup {NoHub} /\ Range(part.links) \subseteq Entities
    BY <1>1, <1>2, PartShape
  <2>2. \A x \in Range(part.links) :
            part.hub # NoHub =>
              /\ LinkOf(part.hub, x) \in (Hubs \X Others) \cup (Indicators \X Hubs)
              /\ LinkOf(part.hub, x)[1] \in {part.hub, x}
              /\ LinkOf(part.hub, x)[2] \in {part.hub, x}
    BY <2>1 DEF LinkOf, Entities
  <2> QED
    BY <2>1, <2>2 DEF NodesOf, EdgesOf, Ends
<1>3. Ends(JobEdges(j)) \subseteq JobNodes(j)
  <2>1. ASSUME NEW e \in JobEdges(j)
        PROVE  e[1] \in JobNodes(j) /\ e[2] \in JobNodes(j)
    <3>1. PICK part \in Range(j.parts) : e \in EdgesOf(part)
      BY <2>1 DEF JobEdges
    <3>2. e[1] \in NodesOf(part) /\ e[2] \in NodesOf(part)
      BY <3>1, <1>2 DEF Ends
    <3> QED
      BY <3>1, <3>2 DEF JobNodes
  <2> QED
    BY <2>1 DEF Ends
<1> QED
  BY <1>2, <1>3 DEF JobNodes, JobEdges

(* A report is its one part.                                               *)
LEMMA ReportFacts ==
    ASSUME NEW j \in Jobs, ~j.batched
    PROVE  /\ j.parts[1] \in Parts
           /\ JobHubs(j) = {j.parts[1].hub} /\ JobLinks(j) = Range(j.parts[1].links)
           /\ JobEdges(j) = {LinkOf(j.parts[1].hub, x) : x \in Range(j.parts[1].links)}
<1>1. Range(j.parts) = {j.parts[1]}
  BY JobShape DEF Range
<1>2. j.parts[1].hub \in Hubs /\ j.parts[1].hub # NoHub
  BY JobShape
<1>3. JobHubs(j) = {j.parts[1].hub}
  BY <1>2, JobShape DEF JobHubs
<1> QED
  BY <1>1, <1>2, <1>3, JobShape DEF JobLinks, JobEdges, EdgesOf

(* Once its edges are in the graph, a job's campaigns are as well, but for *)
(* those without links whose upsert was lost.                              *)
LEMMA HubsCovered ==
    ASSUME GraphClosed, NEW j \in Jobs,
           JobEdges(j) \subseteq edges, JobHubs(j) \subseteq Tried
    PROVE  JobHubs(j) \subseteq nodes \cup (lost \cap Bare)
<1>1. ASSUME NEW i \in 1..Len(j.parts), j.parts[i].hub # NoHub
      PROVE  j.parts[i].hub \in nodes \cup (lost \cap Bare)
  <2> DEFINE part == j.parts[i]
  <2>1. part \in Range(j.parts) /\ part \in Parts /\ part.hub \in Hubs /\ part.hub \in Tried
    BY <1>1, JobShape, PartShape DEF Range, JobHubs
  <2>2. CASE part.links = <<>>
    BY <2>1, <2>2 DEF Bare, Tried
  <2>3. CASE part.links # <<>>
    <3>1. part.links[1] \in Range(part.links)
      <4>1. /\ part.links \in Seq(Entities)
            /\ Range(part.links) = {part.links[n] : n \in 1..Len(part.links)}
        BY <2>1, PartShape
      <4>2. 1 \in 1..Len(part.links)
        <5> HIDE DEF part
        <5> QED
          BY <2>3, <4>1
      <4> QED
        BY <4>1, <4>2
    <3>2. LinkOf(part.hub, part.links[1]) \in edges
      BY <1>1, <2>1, <3>1 DEF JobEdges, EdgesOf
    <3>3. part.hub \in Ends(edges)
      BY <3>2 DEF LinkOf, Ends
    <3> QED
      BY <3>3 DEF GraphClosed
  <2> QED
    BY <2>2, <2>3
<1> QED
  BY <1>1 DEF JobHubs

-----------------------------------------------------------------------------
(* A process keeps its progress while others add to the graph.             *)
LEMMA ProgressKept ==
    ASSUME NEW q \in Procs, Progress(q),
           nodes \subseteq nodes', edges \subseteq edges', Tried \subseteq Tried',
           job'[q] = job[q], stage'[q] = stage[q], at'[q] = at[q]
    PROVE  Progress(q)'
  BY DEF Progress, HubsBefore, LinkedBefore, Report, Entity, Part

LEMMA WorkingType ==
    ASSUME IngestTypeOK, NEW p \in Procs, job[p] \in Jobs, job' = job,
           NEW s \in Working \cup {"done", "error"}, NEW n \in Nat \ {0}, Go(p, s, n)
    PROVE  /\ stage' \in [Procs -> Working \cup {"idle", "done", "error"}]
           /\ at' \in [Procs -> Nat \ {0}]
           /\ stage'[p] = s /\ at'[p] = n
           /\ \A q \in Procs : stage'[q] \in Working => job'[q] \in Jobs
  BY DEF IngestTypeOK, Go, Busy

(* The embeddings of a persistent graph stay covered while it grows.       *)
LEMMA CoverKept ==
    ASSUME EmbeddingHasNode, nodes \subseteq nodes', Tried \subseteq Tried',
           backend' = backend, vectors' = vectors
    PROVE  EmbeddingHasNode'
  BY DEF EmbeddingHasNode, Tried

LEMMA InitInv == IngestInit => IngestInv
<1>1. ASSUME IngestInit, NEW p \in Procs
      PROVE  Progress(p)
  BY <1>1 DEF IngestInit, Progress
<1> QED
  BY <1>1
  DEF IngestInit, IngestInv, IngestTypeOK, LostOverBolt, EmbeddingHasNode, Busy, Working

LEMMA BeginInv ==
    ASSUME IngestInv, NEW p \in Procs, NEW j \in Jobs, Begin(p, j)
    PROVE  IngestInv'
<1> USE DEF Begin, Go, stores
<1>1. IngestTypeOK'
  BY DEF IngestInv, IngestTypeOK, Busy, Working
<1>2. Progress(p)'
  <2>1. stage'[p] = "campaign" /\ at'[p] = 1 /\ job'[p] = j
    BY DEF IngestInv, IngestTypeOK
  <2>2. 1 \in 1..Len(j.parts) /\ HubsBefore(j, 1) = {}
    BY JobShape DEF HubsBefore
  <2> QED
    BY <2>1, <2>2 DEF Progress, HubsBefore
<1>3. Tried' = Tried /\ LostOverBolt'
  BY DEF Tried, IngestInv, LostOverBolt
<1>4. ASSUME NEW q \in Procs, q # p PROVE Progress(q)'
  BY <1>3, <1>4, ProgressKept DEF IngestInv, IngestTypeOK
<1> QED
  BY <1>1, <1>2, <1>3, <1>4, CoverKept DEF IngestInv

LEMMA UpsertCampaignInv ==
    ASSUME IngestInv, NEW p \in Procs, UpsertCampaign(p)
    PROVE  IngestInv'
<1> DEFINE j == job[p]
<1> USE DEF UpsertCampaign, Advance, Go
<1>1. stage[p] = "campaign" /\ j \in Jobs /\ at[p] \in 1..Len(j.parts) /\ Progress(p)
  BY DEF IngestInv, IngestTypeOK, Busy, Working, Progress
<1>2. Part(p) \in Parts /\ Part(p).hub \in Hubs \cup {NoHub}
  BY <1>1, JobShape, PartShape DEF Part
<1>0. /\ nodes \subseteq nodes' /\ nodes' \subseteq nodes \cup ({Part(p).hub} \ {NoHub})
      /\ lost' \subseteq lost \cup ({Part(p).hub} \ {NoHub})
      /\ Tried \subseteq Tried' /\ {Part(p).hub} \ {NoHub} \subseteq Tried'
      /\ LostOverBolt'
  BY UpsertGrows DEF IngestInv
<1>3. IngestTypeOK'
  <2>1. \E s \in Working, n \in Nat \ {0} : Go(p, s, n)
    <3>1. at[p] + 1 \in Nat \ {0}
      BY <1>1, JobShape
    <3>2. CASE at[p] < Len(j.parts)
      BY <3>1, <3>2 DEF Working
    <3>3. CASE ~(at[p] < Len(j.parts))
      BY <3>3 DEF Working
    <3> QED
      BY <3>2, <3>3
  <2>2. nodes' \subseteq Hubs \cup Entities /\ lost' \subseteq Hubs \cup Entities
    BY <1>0, <1>2 DEF IngestInv, IngestTypeOK
  <2> QED
    BY <1>1, <2>1, <2>2, WorkingType DEF IngestInv, IngestTypeOK, Busy
<1>4. HubsBefore(j, at[p] + 1) \subseteq Tried'
  BY <1>0, <1>1, JobShape DEF Progress, HubsBefore, Part
<1>5. Progress(p)'
  <2>0. job'[p] = j
    OBVIOUS
  <2>1. CASE at[p] < Len(j.parts)
    <3>1. stage'[p] = "campaign" /\ at'[p] = at[p] + 1 /\ at'[p] \in 1..Len(j.parts)
      BY <1>1, <2>1, JobShape DEF IngestInv, IngestTypeOK
    <3> QED
      BY <2>0, <3>1, <1>4 DEF Progress
  <2>2. CASE ~(at[p] < Len(j.parts)) /\ j.batched
    <3>1. stage'[p] = "indicators" /\ at'[p] = 1
      BY <2>2 DEF IngestInv, IngestTypeOK
    <3>2. JobHubs(j) \subseteq Tried'
      BY <1>1, <1>4, <2>2, JobShape DEF JobHubs, HubsBefore
    <3> QED
      BY <2>0, <2>2, <3>1, <3>2 DEF Progress
  <2>3. CASE ~(at[p] < Len(j.parts)) /\ ~j.batched
    <3>1. at[p] = 1 /\ Part(p) = j.parts[1] /\ Report(p) = j.parts[1]
      BY <1>1, <2>3, JobShape DEF Part, Report
    <3>2. j.parts[1].hub \in Tried'
      BY <1>0, <1>1, <2>3, <3>1, JobShape
    <3>3. j.parts[1].links \in Seq(Entities)
      BY <1>2, <3>1, PartShape
    <3>4. CASE Report(p).links = <<>>
      <4>1. stage'[p] = "embed" /\ at'[p] = 1
        BY <2>3, <3>4 DEF IngestInv, IngestTypeOK
      <4>2. Range(j.parts[1].links) = {}
        BY <3>1, <3>4 DEF Range
      <4>3. JobHubs(j) \subseteq Tried' /\ JobLinks(j) = {} /\ JobEdges(j) = {}
        BY <1>1, <2>3, <3>2, <4>2, ReportFacts
      <4> QED
        BY <1>1, <2>0, <4>1, <4>3, JobShape DEF Progress
    <3>5. CASE Report(p).links # <<>>
      <4>1. stage'[p] = "entity" /\ at'[p] = 1
        BY <2>3, <3>5 DEF IngestInv, IngestTypeOK
      <4>2. 1 \in 1..Len(j.parts[1].links)
        BY <3>1, <3>3, <3>5
      <4> QED
        BY <2>0, <2>3, <3>2, <4>1, <4>2 DEF Progress, Report, LinkedBefore
    <3> QED
      BY <3>4, <3>5
  <2> QED
    BY <2>1, <2>2, <2>3
<1>6. ASSUME NEW q \in Procs, q # p PROVE Progress(q)'
  BY <1>0, <1>6, ProgressKept DEF IngestInv, IngestTypeOK
<1> QED
  BY <1>0, <1>3, <1>5, <1>6, CoverKept DEF IngestInv

LEMMA UpsertIocsInv ==
    ASSUME IngestInv, NEW p \in Procs, UpsertIocs(p)
    PROVE  IngestInv'
<1> DEFINE j == job[p]
<1> USE DEF UpsertIocs, Go
<1>1. stage[p] = "indicators" /\ j \in Jobs /\ j.batched /\ Progress(p)
  BY DEF IngestInv, IngestTypeOK, Busy, Working, Progress
<1>2. UNION {Range(part.links) : part \in Range(j.parts)} \subseteq Entities
  <2>1. \A part \in Range(j.parts) : part \in Parts
    BY <1>1, JobShape DEF Range
  <2> QED
    BY <2>1, PartShape
<1>0. /\ nodes \subseteq nodes' /\ nodes' = nodes \cup JobLinks(j)
      /\ lost' \subseteq lost
      /\ Tried \subseteq Tried' /\ LostOverBolt'
  BY UpsertGrows DEF UpsertBatch, IngestInv, JobLinks
<1>3. IngestTypeOK'
  BY <1>0, <1>1, <1>2 DEF JobLinks, IngestInv, IngestTypeOK, Busy, Working
<1>4. Progress(p)'
  <2>1. stage'[p] = "edges" /\ job'[p] = j
    BY DEF IngestInv, IngestTypeOK
  <2>2. JobLinks(j) \subseteq nodes' /\ JobHubs(j) \subseteq Tried'
    BY <1>0, <1>1 DEF Progress
  <2> QED
    BY <1>1, <2>1, <2>2 DEF Progress
<1>5. ASSUME NEW q \in Procs, q # p PROVE Progress(q)'
  BY <1>0, <1>5, ProgressKept DEF IngestInv, IngestTypeOK
<1> QED
  BY <1>0, <1>3, <1>4, <1>5, CoverKept DEF IngestInv

(* A step that leaves the graph alone and gives up keeps the invariant.    *)
LEMMA GivesUpInv ==
    ASSUME IngestInv, NEW p \in Procs, Busy(p), UNCHANGED <<stores, job>>,
           Go(p, "error", 1)
    PROVE  IngestInv'
<1>1. job[p] \in Jobs /\ job' = job /\ UNCHANGED stores /\ Tried' = Tried
  BY DEF IngestInv, IngestTypeOK, stores, Tried
<1>2. /\ stage' \in [Procs -> Working \cup {"idle", "done", "error"}]
      /\ at' \in [Procs -> Nat \ {0}]
      /\ stage'[p] = "error"
      /\ \A q \in Procs : stage'[q] \in Working => job'[q] \in Jobs
  BY <1>1, WorkingType DEF IngestInv
<1>3. IngestTypeOK'
  BY <1>1, <1>2 DEF IngestInv, IngestTypeOK, Busy, stores
<1>4. Progress(p)'
  BY <1>2 DEF Progress
<1>5. ASSUME NEW q \in Procs, q # p PROVE Progress(q)'
  BY <1>1, <1>5, ProgressKept DEF IngestInv, IngestTypeOK, Go, stores
<1>6. LostOverBolt'
  BY <1>1 DEF IngestInv, LostOverBolt, stores
<1> QED
  BY <1>1, <1>3, <1>4, <1>5, <1>6, CoverKept DEF IngestInv, stores

LEMMA RaisesInv ==
    ASSUME IngestInv, NEW p \in Procs, Raises(p)
    PROVE  IngestInv'
  BY GivesUpInv DEF Raises

LEMMA LinkBatchInv ==
    ASSUME IngestInv, NEW p \in Procs, LinkBatch(p)
    PROVE  IngestInv'
<1> DEFINE j == job[p]
<1> USE DEF LinkBatch
<1>1. stage[p] = "edges" /\ Busy(p) /\ j \in Jobs /\ Progress(p)
  BY DEF IngestInv, IngestTypeOK, Busy, Working
<1>2. CASE edges' = edges /\ Go(p, "error", 1)
  <2>1. UNCHANGED <<stores, job>>
    BY <1>2 DEF stores
  <2> QED
    BY <1>1, <1>2, <2>1, GivesUpInv
<1>3. CASE edges' = edges \cup JobEdges(j) /\ Go(p, "embed", 1)
  <2> USE DEF Go
  <2>1. IngestTypeOK'
    BY <1>1, <1>3, JobFactsShape DEF IngestInv, IngestTypeOK, Busy, Working
  <2>2. Tried' = Tried /\ LostOverBolt'
    BY DEF Tried, LostOverBolt, IngestInv
  <2>3. Progress(p)'
    <3>1. stage'[p] = "embed" /\ at'[p] = 1 /\ job'[p] = j
      BY <1>3 DEF IngestInv, IngestTypeOK
    <3>2. JobHubs(j) \subseteq Tried' /\ JobLinks(j) \subseteq nodes'
      BY <1>1, <2>2 DEF Progress
    <3> QED
      BY <1>1, <1>3, <3>1, <3>2, JobShape DEF Progress
  <2>4. ASSUME NEW q \in Procs, q # p PROVE Progress(q)'
    BY <1>3, <2>2, <2>4, ProgressKept DEF IngestInv, IngestTypeOK
  <2> QED
    BY <2>1, <2>2, <2>3, <2>4, CoverKept DEF IngestInv
<1> QED
  BY <1>2, <1>3 DEF AddEdges

LEMMA UpsertEntityInv ==
    ASSUME IngestInv, NEW p \in Procs, UpsertEntity(p)
    PROVE  IngestInv'
<1> DEFINE j == job[p]
<1> USE DEF UpsertEntity, Go
<1>1. stage[p] = "entity" /\ j \in Jobs /\ Progress(p)
  BY DEF IngestInv, IngestTypeOK, Busy, Working
<1>2. ~j.batched /\ j.parts[1] \in Parts /\ at[p] \in 1..Len(j.parts[1].links)
  BY <1>1, JobShape DEF Progress, Report
<1>3. Entity(p) \in Entities
  BY <1>2, PartShape DEF Entity, Report
<1>0. /\ nodes \subseteq nodes' /\ nodes' \subseteq nodes \cup {Entity(p)}
      /\ lost' \subseteq lost \cup {Entity(p)}
      /\ Tried \subseteq Tried' /\ Entity(p) \in Tried' /\ LostOverBolt'
  BY UpsertGrows DEF IngestInv
<1>4. IngestTypeOK'
  BY <1>0, <1>1, <1>3 DEF IngestInv, IngestTypeOK, Busy, Working
<1>5. Progress(p)'
  <2>1. stage'[p] = "link" /\ at'[p] = at[p] /\ job'[p] = j
    BY DEF IngestInv, IngestTypeOK
  <2> QED
    BY <1>0, <1>1, <1>2, <2>1 DEF Progress, Report, Entity, LinkedBefore
<1>6. ASSUME NEW q \in Procs, q # p PROVE Progress(q)'
  BY <1>0, <1>6, ProgressKept DEF IngestInv, IngestTypeOK
<1> QED
  BY <1>0, <1>4, <1>5, <1>6, CoverKept DEF IngestInv

(* The link of an entity that a report has come to is one of its facts.    *)
LEMMA LinkShape ==
    ASSUME IngestInv, NEW p \in Procs, stage[p] = "link"
    PROVE  /\ job[p] \in Jobs /\ ~job[p].batched /\ Report(p) = job[p].parts[1]
           /\ Report(p) \in Parts
           /\ Len(Report(p).links) \in Nat /\ at[p] \in 1..Len(Report(p).links)
           /\ Range(Report(p).links) = {Report(p).links[i] : i \in 1..Len(Report(p).links)}
           /\ LinkOf(Report(p).hub, Entity(p)) \in JobEdges(job[p])
<1> DEFINE j == job[p]
<1>1. j \in Jobs /\ Progress(p)
  BY DEF IngestInv, IngestTypeOK, Busy, Working
<1>2. /\ ~j.batched /\ j.parts[1] \in Parts /\ Report(p) = j.parts[1]
      /\ Len(j.parts[1].links) \in Nat
      /\ at[p] \in 1..Len(j.parts[1].links)
  BY <1>1, JobShape, PartShape DEF Progress, Report
<1>3. Range(j.parts[1].links) = {j.parts[1].links[i] : i \in 1..Len(j.parts[1].links)}
  BY <1>2, PartShape
<1>4. Entity(p) \in Range(j.parts[1].links)
  BY <1>2, <1>3 DEF Entity
<1>5. LinkOf(Report(p).hub, Entity(p)) \in JobEdges(j)
  BY <1>1, <1>2, <1>4, ReportFacts
<1> QED
  BY <1>1, <1>2, <1>3, <1>5

(* When the next link is there, one more entity is linked.                 *)
LEMMA LinkedOneMore ==
    ASSUME IngestInv, NEW p \in Procs, stage[p] = "link", nodes' = nodes,
           edges' = edges \cup {LinkOf(Report(p).hub, Entity(p))},
           Ends({LinkOf(Report(p).hub, Entity(p))}) \subseteq nodes
    PROVE  \A i \in 1..at[p] :
               /\ Report(p).links[i] \in nodes'
               /\ LinkOf(Report(p).hub, Report(p).links[i]) \in edges'
<1>1. Entity(p) \in nodes
  BY DEF Ends, LinkOf
<1>2. LinkedBefore(Report(p), at[p]) /\ at[p] \in Nat
  BY LinkShape DEF IngestInv, Progress
<1>3. ASSUME NEW i \in 1..at[p]
      PROVE  /\ Report(p).links[i] \in nodes'
             /\ LinkOf(Report(p).hub, Report(p).links[i]) \in edges'
  <2>1. CASE i = at[p]
    BY <1>1, <2>1 DEF Entity
  <2>2. CASE i # at[p]
    <3>1. i \in 1..(at[p] - 1)
      BY <1>2, <1>3, <2>2
    <3> QED
      BY <1>2, <3>1 DEF LinkedBefore
  <2> QED
    BY <2>1, <2>2
<1> QED
  BY <1>3

LEMMA LinkEntityInv ==
    ASSUME IngestInv, NEW p \in Procs, LinkEntity(p)
    PROVE  /\ IngestInv'
           /\ \/ edges' = edges /\ Go(p, "error", 1)
              \/ /\ edges' = edges \cup {LinkOf(Report(p).hub, Entity(p))}
                 /\ stage'[p] \in {"entity", "embed"}
<1> DEFINE j == job[p]
           link == LinkOf(Report(p).hub, Entity(p))
<1> USE DEF LinkEntity
<1>1. stage[p] = "link" /\ Busy(p) /\ Progress(p)
  BY DEF IngestInv, Busy, Working
<1>2. /\ j \in Jobs /\ ~j.batched /\ Report(p) = j.parts[1] /\ Report(p) \in Parts
      /\ Len(Report(p).links) \in Nat /\ at[p] \in 1..Len(Report(p).links)
      /\ Range(Report(p).links) = {Report(p).links[i] : i \in 1..Len(Report(p).links)}
      /\ link \in JobEdges(j)
  BY <1>1, LinkShape
<1>3. CASE ~(Ends({link}) \subseteq nodes)
  <2>1. edges' = edges /\ Go(p, "error", 1)
    BY <1>3 DEF AddEdges
  <2>2. UNCHANGED <<stores, job>>
    BY <2>1 DEF stores
  <2> QED
    BY <1>1, <2>1, <2>2, GivesUpInv
<1>4. CASE Ends({link}) \subseteq nodes
  <2>1. edges' = edges \cup {link} /\ Advance(p, "entity", Report(p).links, "embed")
    BY <1>4 DEF AddEdges
  <2>2. edges' \subseteq (Hubs \X Others) \cup (Indicators \X Hubs)
    BY <1>2, <2>1, JobFactsShape DEF IngestInv, IngestTypeOK
  <2>3. \A i \in 1..at[p] : /\ Report(p).links[i] \in nodes'
                            /\ LinkOf(Report(p).hub, Report(p).links[i]) \in edges'
    BY <1>1, <1>4, <2>1, LinkedOneMore
  <2>4. Tried' = Tried /\ LostOverBolt'
    BY DEF Tried, LostOverBolt, IngestInv
  <2>5. PICK s \in {"entity", "embed"}, n \in Nat \ {0} :
           /\ Go(p, s, n)
           /\ s = "entity" => n = at[p] + 1 /\ n \in 1..Len(Report(p).links)
           /\ s = "embed" => n = 1 /\ at[p] = Len(Report(p).links)
    <3>1. CASE at[p] < Len(Report(p).links)
      <4>1. at[p] + 1 \in 1..Len(Report(p).links) /\ at[p] + 1 \in Nat \ {0}
        BY <1>2, <3>1
      <4> QED
        BY <2>1, <3>1, <4>1 DEF Advance
    <3>2. CASE ~(at[p] < Len(Report(p).links))
      <4>1. at[p] = Len(Report(p).links)
        BY <1>2, <3>2
      <4> QED
        BY <2>1, <3>2, <4>1 DEF Advance
    <3> QED
      BY <3>1, <3>2
  <2>6. stage'[p] = s /\ at'[p] = n /\ job'[p] = j
    BY <1>2, <2>5, WorkingType DEF IngestInv, Working
  <2>7. IngestTypeOK'
    BY <1>2, <2>2, <2>5, WorkingType DEF IngestInv, IngestTypeOK, Busy, Working
  <2>8. Progress(p)'
    <3>0. Report(p)' = Report(p)
      BY <2>6 DEF Report
    <3>1. CASE s = "entity"
      <4>1. n - 1 = at[p]
        BY <1>2, <2>5, <3>1
      <4>2. LinkedBefore(Report(p), n)'
        BY <2>3, <3>0, <4>1, <2>6 DEF LinkedBefore
      <4>3. Report(p).hub \in Tried'
        BY <1>1, <2>4 DEF Progress
      <4> QED
        BY <1>2, <2>5, <2>6, <3>0, <3>1, <4>2, <4>3 DEF Progress
    <3>2. CASE s = "embed"
      <4>1. \A x \in Range(Report(p).links) :
                x \in nodes' /\ LinkOf(Report(p).hub, x) \in edges'
        BY <1>2, <2>3, <2>5, <3>2
      <4>2. /\ JobLinks(j) = Range(Report(p).links)
            /\ JobEdges(j) = {LinkOf(Report(p).hub, x) : x \in Range(Report(p).links)}
        <5>1. /\ JobLinks(j) = Range(j.parts[1].links)
              /\ JobEdges(j) = {LinkOf(j.parts[1].hub, x) : x \in Range(j.parts[1].links)}
          BY <1>2, ReportFacts, Zenon
        <5> QED
          BY <1>2, <5>1, Zenon
      <4>3. JobHubs(j) \subseteq Tried'
        BY <1>1, <1>2, <2>4, ReportFacts DEF Progress
      <4> QED
        <5>1. JobLinks(j) \subseteq nodes' /\ JobEdges(j) \subseteq edges'
          BY <4>1, <4>2
        <5> QED
          BY <1>2, <2>5, <2>6, <3>2, <5>1, <4>3, JobShape DEF Progress
    <3> QED
      BY <2>5, <3>1, <3>2
  <2>9. ASSUME NEW q \in Procs, q # p PROVE Progress(q)'
    BY <2>1, <2>4, <2>5, <2>9, ProgressKept DEF IngestInv, IngestTypeOK, Go
  <2> QED
    BY <2>1, <2>4, <2>5, <2>6, <2>7, <2>8, <2>9, CoverKept DEF IngestInv
<1> QED
  BY <1>3, <1>4

(* The steps of the embedding loop that leave vectors alone.               *)
LEMMA EmbedLoopInv ==
    ASSUME IngestInv, NEW p \in Procs, EmbedSkips(p) \/ EmbedComputes(p)
    PROVE  IngestInv'
<1> DEFINE j == job[p]
<1>1. /\ stage[p] = "embed" /\ j \in Jobs /\ Progress(p) /\ job' = job
      /\ at[p] \in 1..Len(j.parts) /\ Len(j.parts) \in Nat
      /\ nodes' = nodes /\ edges' = edges /\ vectors' = vectors /\ backend' = backend
      /\ lost' = lost /\ Tried' = Tried /\ LostOverBolt'
  BY JobShape
  DEF IngestInv, Tried, LostOverBolt, IngestTypeOK, Busy, Working, Progress, EmbedSkips, EmbedComputes, stores
<1>2. PICK s \in {"embed", "store", "done"}, n \in Nat \ {0} :
         /\ Go(p, s, n)
         /\ s # "done" => n \in 1..Len(j.parts)
         /\ s = "store" => n = at[p] /\ Part(p).hub \in Hubs /\ Part(p).text \in Texts
  <2>1. CASE EmbedSkips(p) /\ at[p] < Len(j.parts)
    <3>1. at[p] + 1 \in 1..Len(j.parts) /\ at[p] + 1 \in Nat \ {0}
      BY <1>1, <2>1
    <3> QED
      BY <2>1, <3>1 DEF EmbedSkips, Advance
  <2>2. CASE EmbedSkips(p) /\ ~(at[p] < Len(j.parts))
    BY <2>2 DEF EmbedSkips, Advance
  <2>3. CASE EmbedComputes(p)
    <3>1. Part(p) \in Parts
      BY <1>1, JobShape DEF Part
    <3>2. Part(p).hub \in Hubs /\ Part(p).text \in Texts
      BY <2>3, <3>1, PartShape DEF EmbedComputes, NeedsVector
    <3> QED
      BY <1>1, <2>3, <3>2 DEF EmbedComputes
  <2> QED
    BY <2>1, <2>2, <2>3
<1>3. stage'[p] = s /\ at'[p] = n /\ job'[p] = j
  BY <1>1, <1>2, WorkingType DEF IngestInv, Working
<1>4. IngestTypeOK'
  BY <1>1, <1>2, WorkingType DEF IngestInv, IngestTypeOK, Busy, Working
<1>5. Progress(p)'
  BY <1>1, <1>2, <1>3 DEF Progress, Part
<1>6. ASSUME NEW q \in Procs, q # p PROVE Progress(q)'
  BY <1>1, <1>2, <1>6, ProgressKept DEF IngestInv, IngestTypeOK, Go
<1> QED
  BY <1>1, <1>4, <1>5, <1>6, CoverKept DEF IngestInv

LEMMA EmbedStoresInv ==
    ASSUME IngestInv, GraphClosed, NEW p \in Procs, EmbedStores(p)
    PROVE  IngestInv'
<1> DEFINE j == job[p]
<1>1. /\ stage[p] = "store" /\ j \in Jobs /\ Progress(p) /\ job' = job
      /\ at[p] \in 1..Len(j.parts) /\ Len(j.parts) \in Nat
      /\ nodes' = nodes /\ edges' = edges /\ backend' = backend
      /\ lost' = lost /\ Tried' = Tried /\ LostOverBolt'
      /\ vectors' = [vectors EXCEPT ![Part(p).hub] = Part(p).text]
      /\ Part(p).hub \in Hubs /\ Part(p).text \in Texts
  BY JobShape DEF IngestInv, IngestTypeOK, Busy, Working, Progress, EmbedStores, Tried, LostOverBolt
<1>2. PICK s \in {"embed", "done"}, n \in Nat \ {0} :
         Go(p, s, n) /\ (s = "embed" => n \in 1..Len(j.parts))
  <2>1. CASE at[p] < Len(j.parts)
    <3>1. at[p] + 1 \in 1..Len(j.parts) /\ at[p] + 1 \in Nat \ {0}
      BY <1>1, <2>1
    <3> QED
      BY <2>1, <3>1 DEF EmbedStores, Advance
  <2>2. CASE ~(at[p] < Len(j.parts))
    BY <2>2 DEF EmbedStores, Advance
  <2> QED
    BY <2>1, <2>2
<1>3. stage'[p] = s /\ at'[p] = n /\ job'[p] = j
  BY <1>1, <1>2, WorkingType DEF IngestInv, Working
<1>4. IngestTypeOK'
  <2>1. vectors' \in [Hubs -> Texts \cup {NoText}]
    BY <1>1 DEF IngestInv, IngestTypeOK
  <2> QED
    BY <1>1, <1>2, <2>1, WorkingType DEF IngestInv, IngestTypeOK, Busy, Working
<1>5. Progress(p)'
  BY <1>1, <1>2, <1>3 DEF Progress
<1>6. ASSUME NEW q \in Procs, q # p PROVE Progress(q)'
  BY <1>1, <1>2, <1>6, ProgressKept DEF IngestInv, IngestTypeOK, Go
<1>7. EmbeddingHasNode'
  <2>1. Part(p).hub \in JobHubs(j)
    BY <1>1 DEF JobHubs, Part
  <2>2. Part(p).hub \in nodes \cup (lost \cap Bare)
    BY <1>1, <2>1, HubsCovered DEF Progress
  <2> QED
    BY <1>1, <2>2 DEF IngestInv, IngestTypeOK, EmbeddingHasNode
<1> QED
  BY <1>1, <1>4, <1>5, <1>6, <1>7 DEF IngestInv

LEMMA GraphLostInv ==
    ASSUME IngestInv, GraphLost
    PROVE  IngestInv'
<1>1. ASSUME NEW p \in Procs PROVE Progress(p)'
  BY DEF GraphLost, Progress
<1> QED
  BY <1>1 DEF IngestInv, IngestTypeOK, LostOverBolt, EmbeddingHasNode, GraphLost, Busy, Working

LEMMA NextInv ==
    ASSUME IngestInv, GraphClosed, [Next]_serviceVars
    PROVE  IngestInv'
<1>1. CASE IngestNext
  <2>1. PICK p \in Procs : IngestStep(p) \/ \E j \in Jobs : Begin(p, j)
    BY <1>1 DEF IngestNext
  <2>2. CASE \E j \in Jobs : Begin(p, j)
    BY <2>2, BeginInv
  <2>3. CASE IngestStep(p)
    BY <2>3, UpsertCampaignInv, UpsertIocsInv, LinkBatchInv, UpsertEntityInv,
       LinkEntityInv, EmbedLoopInv, EmbedStoresInv, RaisesInv DEF IngestStep
  <2> QED
    BY <2>1, <2>2, <2>3
<1>2. CASE GraphLost
  BY <1>2, GraphLostInv
<1>3. CASE UNCHANGED ingestVars
  BY <1>3 DEF ingestVars, IngestInv, IngestTypeOK, Progress, LostOverBolt, EmbeddingHasNode, Busy,
     Tried, HubsBefore, LinkedBefore, Report, Entity, Part
<1> QED
  BY <1>1, <1>2, <1>3 DEF Next, serviceVars

(* At each stage of a call, what it has written so far is in the graph,    *)
(* and what its next write needs is as well.                               *)
THEOREM IngestInvariant == Spec => []IngestInv
<1>1. Init => IngestInv
  BY InitInv DEF Init
<1> QED
  BY <1>1, NextInv, ClosedInvariant, PTL DEF Spec

(* The variables of ingestion are well typed.                              *)
THEOREM IngestTypeCorrect == Spec => []IngestTypeOK
<1>1. IngestInv => IngestTypeOK
  BY DEF IngestInv
<1> QED
  BY <1>1, IngestInvariant, PTL

(* No call of add_edge or add_edges meets a node that is not there but for *)
(* one whose own upsert returned without its commit, whatever the other    *)
(* processes do; with the graph in memory, none at all (LostOverBolt).     *)
THEOREM EndsAlwaysKnown == Spec => []EndsAreKnown
<1>1. ASSUME IngestInv PROVE EndsAreKnown
  <2>1. ASSUME NEW p \in Procs, stage[p] = "edges"
        PROVE  Ends(JobEdges(job[p])) \subseteq nodes \cup lost
    <3>1. job[p] \in Jobs /\ Progress(p)
      BY <1>1, <2>1 DEF IngestInv, IngestTypeOK, Busy, Working
    <3>2. JobNodes(job[p]) \subseteq nodes \cup lost
      BY <2>1, <3>1, JobNodesSplit DEF Progress, Tried
    <3> QED
      BY <3>1, <3>2, JobFactsShape
  <2>2. ASSUME NEW p \in Procs, stage[p] = "link"
        PROVE  Ends({LinkOf(Report(p).hub, Entity(p))}) \subseteq nodes \cup lost
    <3>1. Report(p).hub \in nodes \cup lost /\ Entity(p) \in nodes \cup lost
      BY <1>1, <2>2 DEF IngestInv, Progress, Tried
    <3> QED
      BY <3>1 DEF Ends, LinkOf
  <2> QED
    BY <2>1, <2>2 DEF EndsAreKnown
<1> QED
  BY <1>1, IngestInvariant, PTL

(* On a persistent graph, every embedding belongs to a node of the graph,  *)
(* or to a campaign nothing links to whose upsert was lost.                *)
THEOREM EmbeddingsHaveNodes == Spec => []EmbeddingHasNode
<1>1. IngestInv => EmbeddingHasNode
  BY DEF IngestInv
<1> QED
  BY <1>1, IngestInvariant, PTL

-----------------------------------------------------------------------------
(* Ingestion implements FactBase.                                          *)
LEMMA OutcomeStep ==
    ASSUME IngestTypeOK, NEW p \in Procs, NEW s, NEW n, Go(p, s, n)
    PROVE  Outcome' = [Outcome EXCEPT ![p] = IF s \in Working THEN "busy" ELSE s]
  BY DEF IngestTypeOK, Go, Outcome, Busy

(* A step that stays busy commits facts of its own job.                    *)
LEMMA CommitStep ==
    ASSUME IngestTypeOK, NEW p \in Procs, Busy(p),
           NEW s \in Working, NEW n, Go(p, s, n), job' = job,
           nodes \subseteq nodes', nodes' \subseteq nodes \cup JobNodes(job[p]),
           edges \subseteq edges', edges' \subseteq edges \cup JobEdges(job[p])
    PROVE  Promise!Commit(p)
<1>1. Outcome[p] = "busy"
  BY DEF Outcome
<1>2. Outcome' = Outcome
  <2>1. Outcome' = [Outcome EXCEPT ![p] = "busy"]
    BY OutcomeStep
  <2> QED
    BY <1>1, <2>1 DEF Outcome
<1> QED
  BY <1>1, <1>2 DEF Promise!Commit, FactsOf

(* The facts of a job whose writes are over, in terms of what is lost.     *)
LEMMA FactsCovered ==
    ASSUME IngestInv, GraphClosed, NEW j \in Jobs, JobHubs(j) \subseteq Tried,
           JobLinks(j) \subseteq nodes, JobEdges(j) \subseteq edges
    PROVE  /\ FactsOf(j) \subseteq nodes \cup edges \cup (lost \cap Bare)
           /\ FactsOf(j) \subseteq (nodes \cup edges) \cup Unnoticed
<1>1. JobHubs(j) \subseteq nodes \cup (lost \cap Bare)
  BY HubsCovered
<1>2. FactsOf(j) \subseteq nodes \cup edges \cup (lost \cap Bare)
  BY <1>1, JobNodesSplit DEF FactsOf
<1>3. lost \cap Bare \subseteq Unnoticed
  BY DEF IngestInv, IngestTypeOK, LostOverBolt, Unnoticed
<1> QED
  BY <1>2, <1>3

LEMMA StepKeepsPromise ==
    ASSUME IngestInv, GraphClosed, NEW p \in Procs, IngestStep(p)
    PROVE  [Promise!Next]_Promise!vars
<1> DEFINE j == job[p]
<1>0. IngestTypeOK /\ Progress(p)
  BY DEF IngestInv
<1>1. Busy(p) /\ j \in Jobs
  BY <1>0 DEF IngestTypeOK, IngestStep, UpsertCampaign, UpsertIocs, LinkBatch, UpsertEntity,
     LinkEntity, EmbedSkips, EmbedComputes, EmbedStores, Raises, Busy, Working
<1>2. Promise!Commit(p) => [Promise!Next]_Promise!vars
  BY DEF Promise!Next
<1>3. Outcome[p] = "busy"
  BY <1>1 DEF Outcome
<1>11. ASSUME UNCHANGED <<stores, job>>, Go(p, "error", 1)
       PROVE  [Promise!Next]_Promise!vars
  <2>1. Outcome' = [Outcome EXCEPT ![p] = "error"]
    BY <1>0, <1>11, OutcomeStep DEF Working
  <2>2. Promise!Raise(p)
    BY <1>3, <1>11, <2>1 DEF stores, Promise!Raise
  <2> QED
    BY <2>2 DEF Promise!Next
<1>4. CASE UpsertCampaign(p)
  <2>1. at[p] \in 1..Len(j.parts)
    BY <1>0, <1>4 DEF Progress, UpsertCampaign
  <2>2. {Part(p).hub} \ {NoHub} \subseteq JobNodes(j)
    BY <1>1, <2>1, JobNodesSplit, JobShape DEF JobHubs, Part
  <2>3. \E s \in Working, n \in Nat : Go(p, s, n)
    BY <1>4, <2>1 DEF UpsertCampaign, Advance, Working
  <2>4. nodes \subseteq nodes' /\ nodes' \subseteq nodes \cup JobNodes(j)
    BY <1>4, <2>2, UpsertGrows DEF UpsertCampaign
  <2> QED
    BY <1>0, <1>1, <1>2, <1>4, <2>3, <2>4, CommitStep DEF UpsertCampaign
<1>5. CASE UpsertIocs(p)
  <2>1. "edges" \in Working
    BY DEF Working
  <2>2. nodes \subseteq nodes' /\ nodes' \subseteq nodes \cup JobNodes(j)
    BY <1>1, <1>5, JobNodesSplit DEF UpsertIocs, UpsertBatch, JobLinks
  <2> QED
    BY <1>0, <1>1, <1>2, <1>5, <2>1, <2>2, CommitStep DEF UpsertIocs
<1>6. CASE LinkBatch(p)
  <2>1. CASE edges' = edges \cup JobEdges(j) /\ Go(p, "embed", 1)
    <3>1. "embed" \in Working
      BY DEF Working
    <3> QED
      BY <1>0, <1>1, <1>2, <1>6, <2>1, <3>1, CommitStep DEF LinkBatch
  <2>2. CASE edges' = edges /\ Go(p, "error", 1)
    BY <1>6, <1>11, <2>2 DEF LinkBatch, stores
  <2> QED
    BY <1>6, <2>1, <2>2 DEF LinkBatch, AddEdges
<1>7. CASE UpsertEntity(p)
  <2>1. ~j.batched /\ at[p] \in 1..Len(j.parts[1].links)
    BY <1>0, <1>7 DEF Progress, UpsertEntity, Report
  <2>2. j.parts[1] \in Parts
    BY <1>1, JobShape
  <2>3. Range(j.parts[1].links) = {j.parts[1].links[i] : i \in 1..Len(j.parts[1].links)}
    BY <2>2, PartShape
  <2>4. Entity(p) \in JobNodes(j)
    BY <1>1, <2>1, <2>3, JobNodesSplit, ReportFacts DEF Entity, Report
  <2>5. "link" \in Working
    BY DEF Working
  <2>6. nodes \subseteq nodes' /\ nodes' \subseteq nodes \cup JobNodes(j)
    BY <1>7, <2>4, UpsertGrows DEF UpsertEntity
  <2> QED
    BY <1>0, <1>1, <1>2, <1>7, <2>5, <2>6, CommitStep DEF UpsertEntity
<1>8. CASE LinkEntity(p)
  <2> DEFINE link == LinkOf(Report(p).hub, Entity(p))
  <2>1. CASE edges' = edges /\ Go(p, "error", 1)
    BY <1>8, <1>11, <2>1 DEF LinkEntity, stores
  <2>2. CASE edges' = edges \cup {link} /\ stage'[p] \in {"entity", "embed"}
    <3>1. link \in JobEdges(j)
      BY <1>8, LinkShape DEF LinkEntity
    <3>2. PICK s, n : Go(p, s, n)
      BY <1>8 DEF LinkEntity, AddEdges, Advance
    <3>3. s \in Working
      BY <1>0, <2>2, <3>2 DEF IngestTypeOK, Go, Working
    <3> QED
      BY <1>0, <1>1, <1>2, <1>8, <2>2, <3>1, <3>2, <3>3, CommitStep DEF LinkEntity
  <2> QED
    BY <1>8, <2>1, <2>2, LinkEntityInv
<1>9. ASSUME EmbedSkips(p) \/ EmbedComputes(p) \/ EmbedStores(p)
      PROVE  [Promise!Next]_Promise!vars
  <2>1. /\ stage[p] \in {"embed", "store"}
        /\ nodes' = nodes /\ edges' = edges /\ job' = job
    BY <1>9 DEF EmbedSkips, EmbedComputes, EmbedStores, stores
  <2>2. PICK s \in {"embed", "store", "done"} : \E n : Go(p, s, n)
    BY <1>9 DEF EmbedSkips, EmbedComputes, EmbedStores, Advance
  <2>3. CASE s \in Working
    BY <1>0, <1>1, <1>2, <2>1, <2>2, <2>3, CommitStep
  <2>4. CASE s \notin Working
    <3>1. Outcome' = [Outcome EXCEPT ![p] = "done"]
      BY <1>0, <2>2, <2>4, OutcomeStep DEF Working
    <3>2. FactsOf(j) \subseteq (nodes \cup edges) \cup Unnoticed
      BY <1>0, <1>1, <2>1, FactsCovered DEF Progress
    <3>3. Promise!Return(p)
      BY <1>3, <2>1, <3>1, <3>2 DEF Promise!Return
    <3> QED
      BY <3>3 DEF Promise!Next
  <2> QED
    BY <2>3, <2>4
<1>10. CASE Raises(p)
  BY <1>10, <1>11 DEF Raises
<1> QED
  BY <1>4, <1>5, <1>6, <1>7, <1>8, <1>9, <1>10 DEF IngestStep

LEMMA BeginKeepsPromise ==
    ASSUME IngestInv, NEW p \in Procs, NEW j \in Jobs, Begin(p, j)
    PROVE  Promise!Next
<1>1. IngestTypeOK /\ "campaign" \in Working
  BY DEF IngestInv, Working
<1>2. Outcome[p] # "busy"
  <2>1. Outcome[p] = stage[p]
    BY DEF Begin, Outcome
  <2>2. stage[p] \in Working \cup {"idle", "done", "error"}
    BY <1>1 DEF IngestTypeOK
  <2> QED
    BY <2>1, <2>2 DEF Working
<1>3. Outcome' = [Outcome EXCEPT ![p] = "busy"]
  BY <1>1, OutcomeStep DEF Begin
<1>4. Promise!Take(p, j)
  BY <1>2, <1>3 DEF Begin, stores, Promise!Take
<1> QED
  BY <1>4 DEF Promise!Next

(* What a call commits, and when it returns, is what FactBase says: own    *)
(* facts in any portions, and all of them by the time it returns.          *)
THEOREM IngestKeepsPromise == Spec => KeepsPromise
<1>1. Init => Promise!Init
  BY DEF Init, IngestInit, Promise!Init, Outcome, Busy, Working
<1>2. ASSUME IngestInv, GraphClosed, [Next]_serviceVars
      PROVE  [Promise!Next]_Promise!vars
  <2>1. CASE IngestNext
    BY <1>2, <2>1, StepKeepsPromise, BeginKeepsPromise DEF IngestNext
  <2>2. CASE GraphLost
    <3>1. Promise!Lose
      BY <2>2 DEF GraphLost, Promise!Lose, Outcome, Busy, Working
    <3> QED
      BY <3>1 DEF Promise!Next
  <2>3. CASE UNCHANGED ingestVars
    BY <2>3 DEF ingestVars, Promise!vars, Outcome, Busy
  <2> QED
    BY <1>2, <2>1, <2>2, <2>3 DEF Next, serviceVars
<1> QED
  BY <1>1, <1>2, IngestInvariant, ClosedInvariant, PTL DEF Spec, KeepsPromise, Promise!Spec

(* What a caller may rely on: from the return of a call on, all facts of   *)
(* its job are in the graph, as long as its process or a persistent graph  *)
(* lives, and the calls that fail half way meanwhile take nothing back.    *)
(* This is what lets the runner record a digest for the payload.  The one  *)
(* exception is a campaign nothing links to whose upsert over Bolt was     *)
(* lost: with the graph in memory there is none.                           *)
ReturnedIsWhole ==
    \A p \in Procs : stage[p] = "done" =>
        /\ FactsOf(job[p]) \subseteq nodes \cup edges \cup (lost \cap Bare)
        /\ backend = "memory" => FactsOf(job[p]) \subseteq nodes \cup edges

THEOREM ReturnedCallsAreWhole == Spec => []ReturnedIsWhole
<1>1. ASSUME IngestInv, GraphClosed, NEW p \in Procs, stage[p] = "done"
      PROVE  FactsOf(job[p]) \subseteq nodes \cup edges \cup (lost \cap Bare)
  BY <1>1, FactsCovered DEF IngestInv, Progress
<1>2. IngestInv /\ GraphClosed => ReturnedIsWhole
  BY <1>1 DEF IngestInv, LostOverBolt, ReturnedIsWhole
<1> QED
  BY <1>2, IngestInvariant, ClosedInvariant, PTL

-----------------------------------------------------------------------------
(* The answers of correlate.                                               *)
ReadInv ==
    /\ answer = [nodes |-> answer.nodes, edges |-> answer.edges, links |-> answer.links]
    /\ phase = "idle" => anchors = {}
    /\ anchors \subseteq answer.nodes
    /\ phase = "join" => anchor \in answer.nodes
    /\ AnswerClosed

LEMMA HoodClosed ==
    ASSUME NEW g, NEW n, NEW d
    PROVE  Ends(Hood(g, n, d).edges) \subseteq Hood(g, n, d).nodes
  BY DEF Hood, Induced, Subgraph, EmptySubgraph, Ends

(* The campaigns that correlate is to compare are nodes of its answer, so  *)
(* that a semantic edge it adds has both ends there.                       *)
THEOREM ReadInvariant == Spec => []ReadInv
<1>1. Init => ReadInv
  BY DEF Init, CorrelateInit, ReadInv, NoAnswer, AnswerClosed, Ends
<1>2. ASSUME ReadInv, [Next]_serviceVars
      PROVE  ReadInv'
  <2>1. CASE UNCHANGED readVars
    BY <1>2, <2>1 DEF readVars, ReadInv, AnswerClosed
  <2>2. CASE RequestOver
    BY <2>2 DEF RequestOver, ReadInv, NoAnswer, AnswerClosed, Ends
  <2>3. CASE \E q \in Questions : Ask(q)
    BY <1>2, <2>3 DEF Ask, ReadInv, NoAnswer, AnswerClosed, Ends
  <2>4. CASE Unresolved \/ Resolved \/ Joined
    BY <1>2, <2>4 DEF Unresolved, Resolved, Joined, ReadInv, AnswerClosed
  <2>5. CASE Traverse
    <3> DEFINE hood == Hood(Subgraph(nodes, edges), Head(candidates), query.depth)
    <3>1. /\ answer' = [nodes |-> hood.nodes, edges |-> hood.edges, links |-> {}]
          /\ anchors' \subseteq hood.nodes
          /\ phase' = "search"
      BY <2>5 DEF Traverse
    <3>2. Ends(hood.edges) \subseteq hood.nodes
      BY HoodClosed
    <3> HIDE DEF hood
    <3> QED
      BY <3>1, <3>2 DEF ReadInv, AnswerClosed, Ends
  <2>6. CASE \E h \in Hubs : Search(h)
    BY <1>2, <2>6 DEF Search, ReadInv, AnswerClosed
  <2>7. ASSUME NEW h \in Hubs, Join(h)
        PROVE  ReadInv'
    <3>1. CASE h \in answer.nodes \cup nodes
      <4>1. answer' = [nodes |-> answer.nodes \cup {h}, edges |-> answer.edges,
                       links |-> answer.links \cup {<<anchor, h>>}]
        BY <1>2, <2>7, <3>1 DEF Join, ReadInv
      <4>2. anchor \in answer.nodes /\ UNCHANGED <<phase, anchors, anchor>>
        BY <1>2, <2>7 DEF Join, ReadInv
      <4> QED
        BY <1>2, <4>1, <4>2 DEF ReadInv, AnswerClosed, Ends
    <3>2. CASE h \notin answer.nodes \cup nodes
      BY <1>2, <2>7, <3>2 DEF Join, ReadInv, AnswerClosed
    <3> QED
      BY <3>1, <3>2
  <2> QED
    BY <1>2, <2>1, <2>2, <2>3, <2>4, <2>5, <2>6, <2>7
    DEF Next, serviceVars, CorrelateNext, NotFound, Reply
<1> QED
  BY <1>1, <1>2, PTL DEF Spec

(* Whatever ingestion writes between the reads of a request, both ends of  *)
(* every edge of its answer are among the answer's nodes.                  *)
THEOREM AnswersClosed == Spec => []AnswerClosed
<1>1. ReadInv => AnswerClosed
  BY DEF ReadInv
<1> QED
  BY <1>1, ReadInvariant, PTL

-----------------------------------------------------------------------------
(* The request keeps its campaigns apart from its other nodes.             *)
AnswerInv ==
    /\ IngestTypeOK
    /\ CorrelateTypeOK
    /\ GraphClosed
    /\ ReadInv
    /\ AnswerKnown
    /\ phase = "join" => anchor \in Hubs

LEMMA TraverseFindsKnown ==
    ASSUME AnswerInv, Traverse
    PROVE  /\ answer'.nodes \subseteq nodes
           /\ answer'.links = {}
           /\ anchors' \subseteq Hubs
<1> DEFINE g == Subgraph(nodes, edges)
<1>1. query.depth \in Nat
  <2>1. Depths \subseteq Nat
    OBVIOUS
  <2>2. query \in Queries \/ query = NoQuery
    BY DEF AnswerInv, CorrelateTypeOK
  <2>3. query \in Queries => query.depth \in Depths
    BY DEF Queries
  <2>4. NoQuery.depth \in Nat
    BY DEF NoQuery
  <2> QED
    BY <2>1, <2>2, <2>3, <2>4, Zenon
<1>2. g.nodes = nodes /\ \A e \in g.edges : e[1] \in g.nodes /\ e[2] \in g.nodes
  BY DEF AnswerInv, GraphClosed, Ends, Subgraph
<1>3. Hood(g, Head(candidates), query.depth).nodes \subseteq nodes
  <2> HIDE DEF g
  <2>1. Hood(g, Head(candidates), query.depth).nodes \subseteq g.nodes
    BY <1>1, <1>2, HoodIn
  <2> QED
    BY <1>2, <2>1
<1> QED
  BY <1>3 DEF Traverse

LEMMA CorrelateKeepsAnswer ==
    ASSUME AnswerInv, CorrelateNext, UNCHANGED ingestVars
    PROVE  CorrelateTypeOK' /\ AnswerKnown' /\ (phase = "join" => anchor \in Hubs)'
<1> USE DEF AnswerInv, CorrelateTypeOK, AnswerKnown, ingestVars
<1>1. CASE RequestOver
  BY <1>1 DEF RequestOver, NoAnswer
<1>2. CASE \E q \in Questions : Ask(q)
  BY <1>2 DEF Ask, NoAnswer
<1>3. CASE Unresolved \/ Resolved \/ Joined
  BY <1>3 DEF Unresolved, Resolved, Joined
<1>4. CASE Traverse
  <2>1. nodes \subseteq Hubs \cup Entities
    BY DEF IngestTypeOK
  <2>2. phase' = "search" /\ query' = query /\ similar' = similar
    BY <1>4 DEF Traverse
  <2> QED
    BY <1>4, <2>1, <2>2, TraverseFindsKnown
<1>5. ASSUME NEW h \in Hubs, Search(h)
      PROVE  CorrelateTypeOK' /\ AnswerKnown' /\ (phase = "join" => anchor \in Hubs)'
  <2>1. similar' \subseteq Hubs
    BY <1>5 DEF Search
  <2> QED
    BY <1>5, <2>1 DEF Search
<1>6. ASSUME NEW h \in Hubs, Join(h)
      PROVE  CorrelateTypeOK' /\ AnswerKnown' /\ (phase = "join" => anchor \in Hubs)'
  <2>1. phase = "join" /\ anchor \in Hubs /\ similar' \subseteq similar
    BY <1>6 DEF Join
  <2>2. UNCHANGED <<phase, query, anchors, anchor>>
    BY <1>6 DEF Join
  <2>3. /\ answer'.nodes \subseteq (answer.nodes \cup {h}) \cap (answer.nodes \cup nodes)
        /\ answer'.links \subseteq answer.links \cup {<<anchor, h>>}
    <3>1. CASE h \in answer.nodes \cup nodes
      <4>1. answer' = [nodes |-> answer.nodes \cup {h}, edges |-> answer.edges,
                       links |-> answer.links \cup {<<anchor, h>>}]
        BY <1>6, <3>1 DEF Join, ReadInv
      <4> QED
        BY <3>1, <4>1
    <3>2. CASE h \notin answer.nodes \cup nodes
      BY <1>6, <3>2 DEF Join
    <3> QED
      BY <3>1, <3>2
  <2> QED
    BY <2>1, <2>2, <2>3
<1> QED
  BY <1>1, <1>2, <1>3, <1>4, <1>5, <1>6 DEF CorrelateNext, NotFound, Reply

(* While correlate puts its answer together, the graph has both ends of    *)
(* each of its edges, the answer names nodes of the graph only, and the    *)
(* nodes it compares are campaigns.                                        *)
THEOREM AnswerInvariant == Spec => []AnswerInv
<1>1. Init => AnswerInv
  BY InitInv DEF Init, IngestInit, CorrelateInit, AnswerInv, IngestInv, CorrelateTypeOK,
     GraphClosed, ReadInv, AnswerClosed, AnswerKnown, NoAnswer, Ends
<1>2. ASSUME IngestTypeOK', ReadInv', AnswerInv, [Next]_serviceVars
      PROVE  AnswerInv'
  <2>1. CASE IngestNext /\ UNCHANGED readVars
    BY <1>2, <2>1, WritesGrow DEF AnswerInv, readVars, CorrelateTypeOK, AnswerKnown
  <2>2. CASE CorrelateNext /\ UNCHANGED ingestVars
    BY <1>2, <2>2, CorrelateKeepsAnswer DEF AnswerInv, ingestVars, GraphClosed
  <2>3. CASE GraphLost /\ RequestOver
    BY <1>2, <2>3 DEF AnswerInv, GraphLost, RequestOver, CorrelateTypeOK, GraphClosed,
       AnswerKnown, NoAnswer, Ends
  <2>4. CASE UNCHANGED serviceVars
    BY <1>2, <2>4 DEF AnswerInv, serviceVars, ingestVars, readVars, CorrelateTypeOK,
       GraphClosed, AnswerKnown
  <2> QED
    BY <1>2, <2>1, <2>2, <2>3, <2>4 DEF Next
<1> QED
  BY <1>1, <1>2, IngestTypeCorrect, ReadInvariant, PTL DEF Spec

(* The variables of ingestion and of correlate are well typed.             *)
THEOREM TypeCorrect == Spec => []TypeOK
<1>1. AnswerInv => TypeOK
  BY DEF AnswerInv, TypeOK
<1> QED
  BY <1>1, AnswerInvariant, PTL

(* An answer names no node the graph does not have, though it is put       *)
(* together from several reads of a graph that others write meanwhile.     *)
THEOREM AnswersKnown == Spec => []AnswerKnown
<1>1. AnswerInv => AnswerKnown
  BY DEF AnswerInv
<1> QED
  BY <1>1, AnswerInvariant, PTL

(* On whatever graph ingestion leaves, whole or half way, both backends    *)
(* find the same neighbourhood: by TraversalsAgree, since its edges are    *)
(* pairs.                                                                  *)
THEOREM BackendsAlwaysAgree == Spec => []BackendsAgree
<1>1. ASSUME IngestTypeOK
      PROVE  BackendsAgree
  <2> DEFINE g == Subgraph(nodes, edges)
  <2>1. \A e \in g.edges : e = <<e[1], e[2]>>
    BY <1>1 DEF IngestTypeOK, Subgraph
  <2> HIDE DEF g
  <2>2. \A n : \A d \in Nat : d # 0 => Hood(g, n, d) = CypherHood(g, n, d)
    BY <2>1, TraversalsAgree
  <2>3. \A d \in 1..4 : d \in Nat /\ d # 0
    OBVIOUS
  <2> QED
    BY <2>2, <2>3 DEF BackendsAgree, g
<1> QED
  BY <1>1, IngestTypeCorrect, PTL
=============================================================================
