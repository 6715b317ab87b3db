----------------------------- MODULE ApiService -----------------------------
(***************************************************************************)
(* The API process: the lifespan of its stores (api/app.py) and requests   *)
(* on its worker threads (api/routes.py, api/security.py), while ingestion *)
(* writes to the same stores.  What a query of correlate returns is        *)
(* Correlate's matter; here it finds the indicator or not.                 *)
(*                                                                         *)
(* The server is external: it takes requests once the lifespan yields, and *)
(* on shutdown waits for those it has before the lifespan goes on.  It     *)
(* runs the lifespan once: a second start would find the closed stores of  *)
(* the first on app.state.                                                 *)
(***************************************************************************)
EXTENDS Naturals

CONSTANTS Threads,      \* requests in progress at a time
          Ids,          \* node ids, or the values that resolve to them
          Sample,       \* what the seed puts into a memory graph
          KeyIsSet,     \* API_KEY is not empty
          LlmRetries,   \* LLM_MAX_RETRIES, which the LLM's client gets
          Free          \* no request

Handles == {"store", "vectors"}
GraphRoutes == {"correlate", "expand", "narrative"}
Routes == GraphRoutes \cup {"similar"}

ASSUME ApiAssumption ==
    Sample \subseteq Ids /\ KeyIsSet \in BOOLEAN /\ LlmRetries \in Nat

VARIABLES app,          \* where the lifespan is
          handle,       \* the stores on app.state
          owned,        \* those the lifespan built
          provider,     \* there is an LLM provider
          nodes, embedded, \* ids in the graph, ids with an embedding
          request

lifespanVars == <<app, handle, owned, provider>>
dataVars == <<nodes, embedded>>
vars == <<lifespanVars, dataVars, request>>

(* known: the id was in the graph, or had its embedding, at the arrival    *)
(* (history); asked: requests sent to the LLM for it, those of the client  *)
(* that provider.narrate calls included.                                   *)
Requests == [at : {"handle", "search", "label", "ask", "answered"},
             route : Routes, id : Ids, known : BOOLEAN, asked : 0..(LlmRetries + 1),
             status : {0, 200, 401, 404, 429, 500, 503}]

TypeOK ==
    /\ app \in {"store", "vectors", "provider", "serving", "stopping", "closing",
                "stopped", "failed"}
    /\ handle \in [Handles -> {"none", "open", "broken", "closed"}]
    /\ handle["store"] # "broken"
    /\ owned \subseteq Handles
    /\ provider \in BOOLEAN
    /\ nodes \subseteq Ids /\ embedded \subseteq Ids
    /\ request \in [Threads -> Requests \cup {Free}]

(* create_app: each store is injected or None.                             *)
Init ==
    /\ app = "store"
    /\ handle \in [Handles -> {"none", "open"}]
    /\ owned = {}
    /\ provider \in BOOLEAN
    /\ nodes = {} /\ embedded = {}
    /\ request = [t \in Threads |-> Free]

-----------------------------------------------------------------------------
(* lifespan.                                                               *)
BuildStore ==
    /\ app = "store"
    /\ app' = "vectors"
    /\ IF handle["store"] = "none"
       THEN /\ handle' = [handle EXCEPT !["store"] = "open"]
            /\ owned' = owned \cup {"store"}
            /\ nodes' \in {nodes, nodes \cup Sample}
       ELSE UNCHANGED <<handle, owned, nodes>>
    /\ UNCHANGED <<provider, embedded, request>>

(* VECTOR_BACKEND=none leaves None.                                        *)
BuildVectorStore ==
    /\ app = "vectors"
    /\ app' = "provider"
    /\ IF handle["vectors"] = "none"
       THEN /\ handle' \in {handle, [handle EXCEPT !["vectors"] = "open"]}
            /\ owned' = owned \cup {"vectors"}
       ELSE UNCHANGED <<handle, owned>>
    /\ UNCHANGED <<provider, dataVars, request>>

(* The try does not cover the building: what is open stays open.  Of what  *)
(* the provider's factory can raise (a package or a key that is missing),  *)
(* _build_provider catches only ValueError.                                *)
BuildRaises ==
    /\ \/ app \in {"store", "vectors"} /\ handle[app] = "none"
       \/ app = "provider" /\ ~provider
    /\ app' = "failed"
    /\ UNCHANGED <<handle, owned, provider, dataVars, request>>

(* No provider configured is not fatal.                                    *)
BuildProvider ==
    /\ app = "provider"
    /\ app' = "serving"
    /\ provider' \in {TRUE, provider}
    /\ UNCHANGED <<handle, owned, dataVars, request>>

\* Mutant: the stores close before the requests are done.
StopAtOnce ==
    /\ app = "serving"
    /\ app' = "closing"
    /\ handle' = [handle EXCEPT !["store"] = IF "store" \in owned THEN "closed" ELSE @]
    /\ UNCHANGED <<owned, provider, dataVars, request>>

Stop ==
    /\ app = "serving"
    /\ app' = "stopping"
    /\ UNCHANGED <<handle, owned, provider, dataVars, request>>

CloseStore ==
    /\ app = "stopping"
    /\ \A t \in Threads : request[t] = Free
    /\ app' = "closing"
    /\ handle' = [handle EXCEPT !["store"] = IF "store" \in owned THEN "closed" ELSE @]
    /\ UNCHANGED <<owned, provider, dataVars, request>>

(* close() of one store raises, and that of the next is not reached.       *)
CloseRaises ==
    /\ \/ app = "stopping" /\ "store" \in owned /\ \A t \in Threads : request[t] = Free
       \/ app = "closing" /\ "vectors" \in owned /\ handle["vectors"] # "none"
    /\ app' = "failed"
    /\ UNCHANGED <<handle, owned, provider, dataVars, request>>

CloseVectorStore ==
    /\ app = "closing"
    /\ app' = "stopped"
    /\ handle' = [handle EXCEPT !["vectors"] =
                     IF "vectors" \in owned /\ @ # "none" THEN "closed" ELSE @]
    /\ UNCHANGED <<owned, provider, dataVars, request>>

-----------------------------------------------------------------------------
(* A request comes through the key's dependency and slowapi's limit, whose *)
(* counters are external, or is answered by one of them.                   *)
Arrive(t, route, id) ==
    /\ app = "serving"
    /\ request[t] = Free
    /\ \E keyed \in BOOLEAN, status \in {0, 401, 429} :
          /\ status = 401 <=> KeyIsSet /\ ~keyed
          /\ request' = [request EXCEPT ![t] =
                [at |-> IF status = 0 THEN "handle" ELSE "answered", route |-> route,
                 id |-> id, asked |-> 0, status |-> status,
                 known |-> id \in IF route = "similar" THEN embedded ELSE nodes]]
    /\ UNCHANGED <<lifespanVars, dataVars>>

In(t, stage) == request[t] # Free /\ request[t].at = stage
Goes(t, stage) == request' = [request EXCEPT ![t].at = stage]
Answered(r, status) == [r EXCEPT !.at = "answered", !.status = status]
Answers(t, status) == request' = [request EXCEPT ![t] = Answered(@, status)]

(* With ?semantic= an answer that is there is joined with the vectors.     *)
Correlated(t, Continue) ==
    IF request[t].id \notin nodes THEN Answers(t, 404)
    ELSE \E semantic \in BOOLEAN :
            IF semantic /\ handle["vectors"] = "broken" THEN Answers(t, 500)
            ELSE Continue

\* Mutant: the model is asked whatever correlate has found.
NarrateUngrounded(t) ==
    /\ In(t, "handle")
    /\ request[t].route = "narrative"
    /\ IF ~provider THEN Answers(t, 503) ELSE Goes(t, "ask")
    /\ UNCHANGED <<lifespanVars, dataVars>>

GetNarrative(t) ==
    /\ In(t, "handle")
    /\ request[t].route = "narrative"
    /\ IF ~provider THEN Answers(t, 503) ELSE Correlated(t, Goes(t, "ask"))
    /\ UNCHANGED <<lifespanVars, dataVars>>

Asked(r) == [r EXCEPT !.asked = @ + 1]
Narrated(t, status) ==
    request' = [request EXCEPT ![t] = Answered(Asked(@), status)]

\* Mutant: a loop around narrate, whose client tries again by itself.
NarrateInLoop(t) ==
    /\ In(t, "ask")
    /\ \/ Narrated(t, 200)
       \/ request' = [request EXCEPT ![t] = Asked(@)]
    /\ UNCHANGED <<lifespanVars, dataVars>>

(* provider.narrate: the client sends one request, which is answered or    *)
(* fails for good,                                                         *)
Narrate(t) ==
    /\ In(t, "ask")
    /\ \E status \in {200, 500} : Narrated(t, status)
    /\ UNCHANGED <<lifespanVars, dataVars>>

(* or fails in a way that may pass, and the client sends another, up to    *)
(* max_retries times.                                                      *)
ClientRetries(t) ==
    /\ In(t, "ask")
    /\ request[t].asked < LlmRetries
    /\ request' = [request EXCEPT ![t] = Asked(@)]
    /\ UNCHANGED <<lifespanVars, dataVars>>

GetCorrelate(t) ==
    /\ In(t, "handle")
    /\ request[t].route = "correlate"
    /\ Correlated(t, Answers(t, 200))
    /\ UNCHANGED <<lifespanVars, dataVars>>

GetExpand(t) ==
    /\ In(t, "handle")
    /\ request[t].route = "expand"
    /\ Answers(t, IF request[t].id \notin nodes THEN 404 ELSE 200)
    /\ UNCHANGED <<lifespanVars, dataVars>>

\* Mutant: similar looks the id up in the graph.
SimilarOfNode(t) ==
    /\ In(t, "handle")
    /\ request[t].route = "similar"
    /\ CASE handle["vectors"] = "none"   -> Answers(t, 503)
         [] handle["vectors"] = "broken" -> Answers(t, 500)
         [] OTHER -> IF request[t].id \notin nodes THEN Answers(t, 404)
                     ELSE Goes(t, "search")
    /\ UNCHANGED <<lifespanVars, dataVars>>

(* The first read of the vectors: is there one of this entity?             *)
GetSimilar(t) ==
    /\ In(t, "handle")
    /\ request[t].route = "similar"
    /\ CASE handle["vectors"] = "none"   -> Answers(t, 503)
         [] handle["vectors"] = "broken" -> Answers(t, 500)
         [] OTHER -> IF request[t].id \notin embedded THEN Answers(t, 404)
                     ELSE Goes(t, "search")
    /\ UNCHANGED <<lifespanVars, dataVars>>

(* similar() reads the vector again and searches with it.                  *)
SearchSimilar(t) ==
    /\ In(t, "search")
    /\ IF handle["vectors"] = "broken" THEN Answers(t, 500) ELSE Goes(t, "label")
    /\ UNCHANGED <<lifespanVars, dataVars>>

(* The neighbours' labels are read from the graph.                         *)
LabelSimilar(t) ==
    /\ In(t, "label")
    /\ Answers(t, 200)
    /\ UNCHANGED <<lifespanVars, dataVars>>

(* A query of the graph or the vector store raises.                        *)
QueryRaises(t) ==
    /\ \E stage \in {"handle", "search", "label"} : In(t, stage)
    /\ request[t].route = "narrative" => provider
    /\ request[t].route = "similar" => handle["vectors"] # "none"
    /\ Answers(t, 500)
    /\ UNCHANGED <<lifespanVars, dataVars>>

\* Mutant: an answer that failed is tried again.
SentUnlessFailed(t) ==
    /\ In(t, "answered")
    /\ IF request[t].status = 500 THEN Goes(t, "handle")
       ELSE request' = [request EXCEPT ![t] = Free]
    /\ UNCHANGED <<lifespanVars, dataVars>>

Sent(t) ==
    /\ In(t, "answered")
    /\ request' = [request EXCEPT ![t] = Free]
    /\ UNCHANGED <<lifespanVars, dataVars>>

Handle(t) ==
    \/ GetCorrelate(t) \/ GetExpand(t)
    \/ GetSimilar(t) \/ SearchSimilar(t) \/ LabelSimilar(t)
    \/ GetNarrative(t) \/ Narrate(t) \/ ClientRetries(t)
    \/ QueryRaises(t)
    \/ Sent(t)

-----------------------------------------------------------------------------
(* Other processes ingest, and a vector may be there without its node,     *)
(* whose write can be lost; the one connection of PgVectorStore breaks,    *)
(* and nothing opens another.                                              *)
IngestNode(id) ==
    nodes' = nodes \cup {id} /\ UNCHANGED <<lifespanVars, embedded, request>>

IngestVector(id) ==
    embedded' = embedded \cup {id} /\ UNCHANGED <<lifespanVars, nodes, request>>

ConnectionBreaks ==
    /\ handle["vectors"] = "open"
    /\ handle' = [handle EXCEPT !["vectors"] = "broken"]
    /\ UNCHANGED <<app, owned, provider, dataVars, request>>

Lifespan ==
    \/ BuildStore \/ BuildVectorStore \/ BuildRaises \/ BuildProvider
    \/ CloseStore \/ CloseVectorStore \/ CloseRaises

Next ==
    \/ Lifespan \/ Stop
    \/ \E t \in Threads, route \in Routes, id \in Ids : Arrive(t, route, id)
    \/ \E t \in Threads : Handle(t)
    \/ \E id \in Ids : IngestNode(id) \/ IngestVector(id)
    \/ ConnectionBreaks

(* A handler that has begun goes on, and so does the lifespan.             *)
Spec == Init /\ [][Next]_vars /\ WF_vars(Lifespan) /\ \A t \in Threads : WF_vars(Handle(t))

-----------------------------------------------------------------------------
(* Properties.                                                             *)

(* No request of a lifespan meets a store that is not open yet or that is  *)
(* closed already.                                                         *)
StoresAreOpen ==
    \A t \in Threads : request[t] # Free =>
        handle["store"] = "open" /\ handle["vectors"] # "closed"

(* An answer is true of the stores although they change under it: found is *)
(* what is there, and not found is only what was missing at the arrival.   *)
TruthfulStatus ==
    \A t \in Threads : In(t, "answered") =>
        LET r == request[t]
            there == r.id \in IF r.route = "similar" THEN embedded ELSE nodes
        IN  /\ r.status = 404 => ~r.known
            /\ r.status = 200 => there

(* "Grounded solely in that subgraph", "cost scales with use": what is     *)
(* sent to the LLM is for a narrative of an indicator that is in the       *)
(* graph, never for a request that is turned away, and no more often for   *)
(* one request than the retries that are configured allow.                 *)
NarrativeGrounded ==
    \A t \in Threads : request[t] # Free =>
        LET r == request[t]
        IN  /\ r.at = "ask" \/ r.asked > 0 =>
                  r.route = "narrative" /\ r.id \in nodes /\ provider
            /\ r.asked > 0 => r.at = "ask" \/ r.status \in {200, 500}
            /\ r.asked <= LlmRetries + 1
            /\ r.route = "narrative" /\ r.status = 200 => r.asked > 0

(* Every request is answered, and a shutdown comes to its end: no request  *)
(* can keep the lifespan from closing the stores it built, and none stays  *)
(* open unless a close() raises.                                           *)
ServiceLives ==
    /\ \A t \in Threads : request[t] # Free ~> request[t] = Free
    /\ app = "stopping" ~>
          \/ app = "stopped" /\ \A h \in owned : handle[h] \in {"none", "closed"}
          \/ app = "failed"
=============================================================================
