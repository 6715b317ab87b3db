---------------------------- MODULE GraphIngest ----------------------------
(***************************************************************************)
(* Writing intelligence to the graph and the vector store (ingest.py):     *)
(* ingest_feed, ingest_otx_payload and ingest_document.  Every call on a   *)
(* store commits on its own, and there is no transaction around them: a    *)
(* failure half way leaves what was committed, and processes interleave.   *)
(*                                                                         *)
(* A job is one call.  Its parts are the pulses of a payload, or the one   *)
(* report; a feed is a batched part without a campaign, for which the      *)
(* edges and the embedding are no-ops.                                     *)
(***************************************************************************)
EXTENDS Neighborhood, Sequences, Functions

CONSTANTS Procs,
          Hubs,         \* campaign nodes
          Indicators,   \* IOC nodes
          Others,       \* actor, TTP and sector nodes
          Texts,        \* what can be embedded
          NoHub, NoText, NoJob,
          Jobs,         \* the calls that can be made
          Backends      \* GRAPH_BACKEND: a subset of {"memory", "neo4j"}

Entities == Indicators \cup Others
Parts == [hub : Hubs \cup {NoHub}, links : Seq(Entities), text : Texts \cup {NoText}]

ASSUME JobsAssumption ==
    /\ Jobs \subseteq [batched : BOOLEAN, embed : BOOLEAN, parts : Seq(Parts)]
    /\ \A j \in Jobs : j.parts # <<>>
    /\ \A j \in Jobs : ~j.batched => Len(j.parts) = 1 /\ j.parts[1].hub # NoHub
    /\ NoJob \notin Jobs
ASSUME NamesAssumption ==
    NoText \notin Texts /\ NoHub \notin Hubs /\ Hubs \cap Entities = {}
ASSUME BackendsAssumption == Backends \subseteq {"memory", "neo4j"}

VARIABLES backend,      \* the graph store of this deployment
          nodes, edges, \* the graph
          lost,         \* nodes whose upsert returned without its commit
          vectors,      \* vectors[h]: the text whose vector and hash are stored
          job, stage, at

stores == <<backend, nodes, edges, lost, vectors>>
ingestVars == <<backend, nodes, edges, lost, vectors, job, stage, at>>

\* Mutant: every link leaves the campaign.
LinkFromHub(hub, x) == <<hub, x>>

(* ATTRIBUTED_TO, USES and TARGETS leave the campaign; PART_OF enters it.  *)
LinkOf(hub, x) == IF x \in Indicators THEN <<x, hub>> ELSE <<hub, x>>

NodesOf(part) == Range(part.links) \cup ({part.hub} \ {NoHub})
EdgesOf(part) ==
    IF part.hub = NoHub THEN {} ELSE {LinkOf(part.hub, x) : x \in Range(part.links)}
JobNodes(j) == UNION {NodesOf(part) : part \in Range(j.parts)}
JobEdges(j) == UNION {EdgesOf(part) : part \in Range(j.parts)}

Ends(E) == {e[1] : e \in E} \cup {e[2] : e \in E}

Working == {"campaign", "indicators", "edges", "entity", "link", "embed", "store"}
Busy(p) == stage[p] \in Working

IngestTypeOK ==
    /\ backend \in Backends
    /\ nodes \subseteq Hubs \cup Entities
    /\ edges \subseteq (Hubs \X Others) \cup (Indicators \X Hubs)
    /\ lost \subseteq Hubs \cup Entities
    /\ vectors \in [Hubs -> Texts \cup {NoText}]
    /\ job \in [Procs -> Jobs \cup {NoJob}]
    /\ stage \in [Procs -> Working \cup {"idle", "done", "error"}]
    /\ at \in [Procs -> Nat \ {0}]
    /\ \A p \in Procs : Busy(p) => job[p] \in Jobs

IngestInit ==
    /\ backend \in Backends
    /\ nodes = {}
    /\ edges = {}
    /\ lost = {}
    /\ vectors = [h \in Hubs |-> NoText]
    /\ job = [p \in Procs |-> NoJob]
    /\ stage = [p \in Procs |-> "idle"]
    /\ at = [p \in Procs |-> 1]

-----------------------------------------------------------------------------
(* The part, and the entity of a report, a loop has come to.               *)
Part(p) == job[p].parts[at[p]]
Report(p) == job[p].parts[1]
Entity(p) == Report(p).links[at[p]]

Go(p, s, n) ==
    /\ stage' = [stage EXCEPT ![p] = s]
    /\ at' = [at EXCEPT ![p] = n]

(* The next round of a loop over seq, or what comes after it.              *)
Advance(p, s, seq, after) ==
    IF at[p] < Len(seq) THEN Go(p, s, at[p] + 1) ELSE Go(p, after, 1)

(* GraphStore.upsert_node for the one node of N, if any.  Over Bolt nobody *)
(* consumes the result: when the statement fails as the session closes, the *)
(* call returns like one that has committed.                               *)
UpsertNode(N) ==
    \/ nodes' = nodes \cup N /\ lost' = lost \ N
    \/ backend = "neo4j" /\ nodes' = nodes /\ lost' = lost \cup (N \ nodes)

(* GraphStore.upsert_iocs, whose result is consumed.                       *)
UpsertBatch(N) == nodes' = nodes \cup N /\ lost' = lost \ N

(* GraphStore.add_edges and add_edge: a KeyError if an end is unknown.     *)
AddEdges(p, E, Continue) ==
    IF Ends(E) \subseteq nodes
    THEN edges' = edges \cup E /\ Continue
    ELSE edges' = edges /\ Go(p, "error", 1)

\* Mutant: the embedding comes before the writes.
BeginEmbeds(p, j) ==
    /\ ~Busy(p)
    /\ job' = [job EXCEPT ![p] = j]
    /\ Go(p, "embed", 1)
    /\ UNCHANGED stores

(* The in-memory graph belongs to one process.                             *)
Begin(p, j) ==
    /\ ~Busy(p)
    /\ backend = "memory" => \A q \in Procs : ~Busy(q)
    /\ job' = [job EXCEPT ![p] = j]
    /\ Go(p, "campaign", 1)
    /\ UNCHANGED stores

(* The campaign loop of a payload, or the one campaign of a report.        *)
UpsertCampaign(p) ==
    /\ stage[p] = "campaign"
    /\ UpsertNode({Part(p).hub} \ {NoHub})
    /\ Advance(p, "campaign", job[p].parts,
               IF job[p].batched THEN "indicators"
               ELSE IF Report(p).links = <<>> THEN "embed" ELSE "entity")
    /\ UNCHANGED <<backend, edges, vectors, job>>

\* Mutant: all_iocs is reset for every pulse.
UpsertLastIocs(p) ==
    /\ stage[p] = "indicators"
    /\ UpsertBatch(Range(job[p].parts[Len(job[p].parts)].links))
    /\ Go(p, "edges", 1)
    /\ UNCHANGED <<backend, edges, vectors, job>>

UpsertIocs(p) ==
    /\ stage[p] = "indicators"
    /\ UpsertBatch(UNION {Range(part.links) : part \in Range(job[p].parts)})
    /\ Go(p, "edges", 1)
    /\ UNCHANGED <<backend, edges, vectors, job>>

LinkBatch(p) ==
    /\ stage[p] = "edges"
    /\ AddEdges(p, JobEdges(job[p]), Go(p, "embed", 1))
    /\ UNCHANGED <<backend, nodes, lost, vectors, job>>

(* One entity of a report after the other, each with its link: the actor,  *)
(* the TTPs, the sectors and the IOCs, which is the order of its links.    *)
UpsertEntity(p) ==
    /\ stage[p] = "entity"
    /\ UpsertNode({Entity(p)})
    /\ Go(p, "link", at[p])
    /\ UNCHANGED <<backend, edges, vectors, job>>

\* Mutant: the loop leaves out its last entity.
LinkAllButLast(p) ==
    /\ stage[p] = "link"
    /\ AddEdges(p, {LinkOf(Report(p).hub, Entity(p))},
                IF at[p] + 1 < Len(Report(p).links)
                THEN Go(p, "entity", at[p] + 1) ELSE Go(p, "embed", 1))
    /\ UNCHANGED <<backend, nodes, lost, vectors, job>>

LinkEntity(p) ==
    /\ stage[p] = "link"
    /\ AddEdges(p, {LinkOf(Report(p).hub, Entity(p))},
                Advance(p, "entity", Report(p).links, "embed"))
    /\ UNCHANGED <<backend, nodes, lost, vectors, job>>

-----------------------------------------------------------------------------
(* _embed_and_cache for the part at hand: a provider and a text are given, *)
(* and the hash stored with the vector is not the text's.                  *)
NeedsVector(p) ==
    /\ job[p].embed
    /\ Part(p).hub # NoHub
    /\ Part(p).text # NoText
    /\ vectors[Part(p).hub] # Part(p).text

EmbedSkips(p) ==
    /\ stage[p] = "embed"
    /\ ~NeedsVector(p)
    /\ Advance(p, "embed", job[p].parts, "done")
    /\ UNCHANGED <<stores, job>>

(* provider.embed: the vector is in hand, not yet stored.                  *)
EmbedComputes(p) ==
    /\ stage[p] = "embed"
    /\ NeedsVector(p)
    /\ Go(p, "store", at[p])
    /\ UNCHANGED <<stores, job>>

EmbedStores(p) ==
    /\ stage[p] = "store"
    /\ vectors' = [vectors EXCEPT ![Part(p).hub] = Part(p).text]
    /\ Advance(p, "embed", job[p].parts, "done")
    /\ UNCHANGED <<backend, nodes, edges, lost, job>>

(* A store or the provider raises, or the process dies.                    *)
Raises(p) ==
    /\ Busy(p)
    /\ Go(p, "error", 1)
    /\ UNCHANGED <<stores, job>>

(* The in-memory graph goes with its process; the vectors may be pgvector. *)
GraphLost ==
    /\ backend = "memory"
    /\ nodes' = {}
    /\ edges' = {}
    /\ stage' = [p \in Procs |-> "idle"]
    /\ at' = [p \in Procs |-> 1]
    /\ UNCHANGED <<backend, lost, vectors, job>>

IngestStep(p) ==
    \/ UpsertCampaign(p)
    \/ UpsertIocs(p)
    \/ LinkBatch(p)
    \/ UpsertEntity(p)
    \/ LinkEntity(p)
    \/ EmbedSkips(p)
    \/ EmbedComputes(p)
    \/ EmbedStores(p)
    \/ Raises(p)

IngestNext ==
    \E p \in Procs : IngestStep(p) \/ \E j \in Jobs : Begin(p, j)

-----------------------------------------------------------------------------
(* Properties.                                                             *)

(* The order of the writes puts nodes before edges: no ingestion meets a   *)
(* KeyError, whatever other processes write or lose meanwhile, but for a   *)
(* node whose upsert returned although its commit had failed.              *)
EndsAreKnown ==
    \A p \in Procs :
        /\ stage[p] = "edges" => Ends(JobEdges(job[p])) \subseteq nodes \cup lost
        /\ stage[p] = "link" =>
              Ends({LinkOf(Report(p).hub, Entity(p))}) \subseteq nodes \cup lost

(* Campaigns that some call brings without anything to link to them: no    *)
(* add_edge after their upsert would notice that it was lost.              *)
Bare ==
    {h \in Hubs : \E j \in Jobs : \E part \in Range(j.parts) :
                      part.hub = h /\ part.links = <<>>}

(* A persistent graph knows every entity that has an embedding, so that a  *)
(* similar campaign can always be shown and expanded; the one exception is *)
(* a campaign without links whose upsert was lost and not repeated since.  *)
EmbeddingHasNode ==
    backend = "neo4j" =>
        \A h \in Hubs : vectors[h] # NoText => h \in nodes \cup (lost \cap Bare)

=============================================================================
