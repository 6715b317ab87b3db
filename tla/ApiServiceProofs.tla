-------------------------- MODULE ApiServiceProofs --------------------------
(***************************************************************************)
(* Proofs about ApiService, for any threads, ids, data and retry limit:    *)
(* requests meet open stores, and answers are true and grounded whatever   *)
(* is ingested meanwhile.                                                  *)
(***************************************************************************)
EXTENDS ApiService, TLAPS

USE ApiAssumption

NoRequests == \A t \in Threads : request[t] = Free

(* How far the lifespan is.                                                *)
LifeInv ==
    /\ app \notin {"serving", "stopping"} => NoRequests
    /\ app \in {"vectors", "provider", "serving", "stopping"} => handle["store"] = "open"
    /\ app \notin {"stopped", "failed"} => handle["vectors"] # "closed"
    /\ app = "store" => handle["store"] # "closed"

(* A handler at a query.                                                   *)
Reading == {"handle", "search", "label"}

(* What is known of a request, of which data only grows.                   *)
RequestFacts(r, inGraph, inVectors, asks) ==
    LET there == r.id \in IF r.route = "similar" THEN inVectors ELSE inGraph
    IN  /\ r.known => there
        /\ r.status = 404 => ~r.known
        /\ r.status = 200 => there
        /\ r.at # "answered" => r.status = 0
        /\ r.at \in Reading => r.asked = 0
        /\ r.at \in {"search", "label"} => r.route = "similar" /\ r.id \in inVectors
        /\ r.at = "ask" => r.asked <= LlmRetries
        /\ r.at = "ask" \/ r.asked > 0 => r.route = "narrative" /\ r.id \in inGraph /\ asks
        /\ r.asked > 0 => r.at = "ask" \/ r.status \in {200, 500}
        /\ r.route = "narrative" /\ r.status = 200 => r.asked > 0

RequestInv ==
    \A t \in Threads :
        request[t] # Free => RequestFacts(request[t], nodes, embedded, provider)

ApiInv == TypeOK /\ LifeInv /\ RequestInv

LEMMA InitApi == Init => ApiInv
  BY DEF Init, ApiInv, TypeOK, LifeInv, RequestInv, NoRequests, Handles

-----------------------------------------------------------------------------
(* The lifespan.                                                           *)

(* Requests do not notice a step of the lifespan, or data that grows.      *)
LEMMA RequestKept ==
    ASSUME TypeOK, RequestInv, request' = request,
           nodes \subseteq nodes', embedded \subseteq embedded', provider => provider'
    PROVE  RequestInv'
<1> SUFFICES ASSUME NEW t \in Threads, request[t] # Free
             PROVE  RequestFacts(request[t], nodes', embedded', provider')
  BY DEF RequestInv
<1>1. RequestFacts(request[t], nodes, embedded, provider)
  BY DEF RequestInv
<1> QED
  BY <1>1 DEF RequestFacts

(* A step of one request leaves the others alone.                          *)
LEMMA OneRequestSteps ==
    ASSUME TypeOK, RequestInv, NEW t \in Threads, NEW r,
           request' = [request EXCEPT ![t] = r],
           nodes' = nodes, embedded' = embedded, provider' = provider,
           RequestFacts(r, nodes, embedded, provider)
    PROVE  RequestInv'
<1> SUFFICES ASSUME NEW q \in Threads, request'[q] # Free
             PROVE  RequestFacts(request'[q], nodes, embedded, provider)
  BY DEF RequestInv
<1>1. request'[q] = IF q = t THEN r ELSE request[q]
  BY DEF TypeOK
<1> QED
  BY <1>1 DEF RequestInv

LEMMA LifespanInv ==
    ASSUME ApiInv, Lifespan \/ Stop \/ ConnectionBreaks
    PROVE  ApiInv'
<1> USE DEF ApiInv
<1>1. request' = request /\ nodes \subseteq nodes' /\ embedded' = embedded
  BY DEF Lifespan, BuildStore, BuildVectorStore, BuildRaises, BuildProvider, CloseStore,
         CloseVectorStore, CloseRaises, Stop, ConnectionBreaks, dataVars
<1>2. provider => provider'
  BY DEF Lifespan, BuildStore, BuildVectorStore, BuildRaises, BuildProvider, CloseStore,
         CloseVectorStore, CloseRaises, Stop, ConnectionBreaks, TypeOK
<1>3. RequestInv'
  BY <1>1, <1>2, RequestKept
<1>4. TypeOK' /\ LifeInv'
  <2> USE DEF TypeOK, LifeInv, NoRequests, Handles
  <2>1. CASE BuildStore
    <3>1. nodes' \subseteq Ids /\ embedded' = embedded /\ provider' = provider
      BY <2>1 DEF BuildStore
    <3>2. CASE handle["store"] = "none"
      <4>1. /\ app' = "vectors" /\ owned' = owned \cup {"store"} /\ request' = request
            /\ handle' = [handle EXCEPT !["store"] = "open"]
        BY <2>1, <3>2 DEF BuildStore
      <4>2. handle'["store"] = "open" /\ handle'["vectors"] = handle["vectors"]
        BY <4>1
      <4>3. TypeOK'
        BY <3>1, <4>1, <4>2
      <4> QED
        <5>1. app = "store"
          BY <2>1 DEF BuildStore
        <5> QED
          BY <5>1, <4>1, <4>2, <4>3
    <3>3. CASE handle["store"] # "none"
      <4>1. /\ app = "store" /\ app' = "vectors"
            /\ UNCHANGED <<handle, owned, nodes, provider, embedded, request>>
        BY <2>1, <3>3 DEF BuildStore
      <4>2. handle["store"] = "open"
        BY <3>3, <4>1
      <4>3. TypeOK'
        BY <4>1
      <4> QED
        BY <4>1, <4>2, <4>3
    <3> QED
      BY <3>2, <3>3
  <2>2. CASE BuildVectorStore
    <3>1. CASE handle' = handle
      BY <2>2, <3>1 DEF BuildVectorStore, dataVars
    <3>2. CASE /\ handle["vectors"] = "none"
               /\ handle' = [handle EXCEPT !["vectors"] = "open"]
               /\ owned' = owned \cup {"vectors"}
      BY <2>2, <3>2 DEF BuildVectorStore, dataVars
    <3> QED
      BY <2>2, <3>1, <3>2 DEF BuildVectorStore
  <2>3. CASE BuildRaises
    BY <2>3 DEF BuildRaises, dataVars
  <2>4. CASE BuildProvider
    BY <2>4 DEF BuildProvider, dataVars
  <2>5. CASE CloseStore
    BY <2>5 DEF CloseStore, dataVars
  <2>6. CASE CloseVectorStore
    BY <2>6 DEF CloseVectorStore, dataVars
  <2>7. CASE CloseRaises
    BY <2>7 DEF CloseRaises, dataVars
  <2>8. CASE Stop
    BY <2>8 DEF Stop, dataVars
  <2>9. CASE ConnectionBreaks
    BY <2>9 DEF ConnectionBreaks, dataVars
  <2> QED
    BY <2>1, <2>2, <2>3, <2>4, <2>5, <2>6, <2>7, <2>8, <2>9 DEF Lifespan
<1> QED
  BY <1>3, <1>4

LEMMA IngestInv ==
    ASSUME ApiInv, NEW id \in Ids, IngestNode(id) \/ IngestVector(id)
    PROVE  ApiInv'
<1>1. RequestInv'
  BY RequestKept DEF ApiInv, IngestNode, IngestVector, lifespanVars
<1>2. TypeOK' /\ LifeInv'
  BY DEF ApiInv, TypeOK, LifeInv, NoRequests, IngestNode, IngestVector,
         lifespanVars
<1> QED
  BY <1>1, <1>2 DEF ApiInv

-----------------------------------------------------------------------------
(* Requests.                                                               *)

LEMMA ArriveInv ==
    ASSUME ApiInv, NEW t \in Threads, NEW route \in Routes, NEW id \in Ids,
           Arrive(t, route, id)
    PROVE  ApiInv'
<1> USE DEF ApiInv
<1>1. PICK keyed \in BOOLEAN, status \in {0, 401, 429} :
        /\ status = 401 <=> KeyIsSet /\ ~keyed
        /\ request' = [request EXCEPT ![t] =
            [at |-> IF status = 0 THEN "handle" ELSE "answered", route |-> route,
             id |-> id, asked |-> 0, status |-> status,
             known |-> id \in IF route = "similar" THEN embedded ELSE nodes]]
  BY DEF Arrive
<1> DEFINE there == id \in IF route = "similar" THEN embedded ELSE nodes
           at == IF status = 0 THEN "handle" ELSE "answered"
           r == [at |-> at, route |-> route, id |-> id, asked |-> 0, status |-> status,
                 known |-> there]
<1>5. /\ r \in Requests /\ r.at \in {"handle", "answered"} /\ (r.at = "handle" => r.status = 0)
      /\ r.asked = 0 /\ r.id = id /\ r.route = route /\ r.status \in {0, 401, 429}
      /\ r.known = there
  <2>1. there \in BOOLEAN /\ at \in {"handle", "answered"} /\ (at = "handle" => status = 0)
    OBVIOUS
  <2> HIDE DEF there, at
  <2>2. r \in Requests
    BY <2>1 DEF Requests
  <2> QED
    BY <2>1, <2>2
<1> HIDE DEF r
<1>6. request' = [request EXCEPT ![t] = r]
  BY <1>1 DEF r
<1>2. TypeOK'
  BY <1>5, <1>6 DEF Arrive, TypeOK, lifespanVars, dataVars
<1>3. LifeInv'
  BY DEF Arrive, LifeInv, lifespanVars, NoRequests
<1>7. RequestFacts(r, nodes, embedded, provider)
  <2>1. r.known => r.id \in IF r.route = "similar" THEN embedded ELSE nodes
    BY <1>5
  <2> HIDE DEF there, at
  <2>2. r.asked = 0 /\ r.at \in {"handle", "answered"} /\ r.status \in {0, 401, 429}
    BY <1>5
  <2>3. ~(r.asked > 0) /\ r.status # 404 /\ r.status # 200
    BY <2>2
  <2>4. r.at = "handle" => r.status = 0
    BY <1>5
  <2> QED
    BY <2>1, <2>2, <2>3, <2>4 DEF RequestFacts, Reading
<1>4. RequestInv'
  <2>1. nodes' = nodes /\ embedded' = embedded /\ provider' = provider
    BY DEF Arrive, lifespanVars, dataVars
  <2> QED
    BY <1>6, <1>7, <2>1, OneRequestSteps
<1> QED
  BY <1>2, <1>3, <1>4

LEMMA AnsweredShape ==
    ASSUME NEW q \in Requests, NEW status \in {200, 404, 500, 503},
           NEW r, r = Answered(q, status)
    PROVE  /\ r \in Requests /\ r.at = "answered" /\ r.status = status
           /\ r.asked = q.asked /\ r.id = q.id /\ r.route = q.route /\ r.known = q.known
<1>1. /\ q = [at |-> q.at, route |-> q.route, id |-> q.id, known |-> q.known,
              asked |-> q.asked, status |-> q.status]
      /\ q.route \in Routes /\ q.id \in Ids /\ q.known \in BOOLEAN /\ q.asked \in 0..(LlmRetries + 1)
  BY DEF Requests
<1>2. r = [at |-> "answered", route |-> q.route, id |-> q.id, known |-> q.known,
           asked |-> q.asked, status |-> status]
  BY <1>1 DEF Answered
<1>3. r \in Requests
  BY <1>1, <1>2 DEF Requests
<1>4. /\ r.at = "answered" /\ r.status = status
      /\ r.asked = q.asked /\ r.id = q.id /\ r.route = q.route /\ r.known = q.known
  BY <1>2
<1> QED
  BY <1>3, <1>4

(* A handler gives a status, and says so of its own request only.          *)
LEMMA AnswerInv ==
    ASSUME ApiInv, NEW t \in Threads, NEW status \in {200, 404, 500, 503},
           NEW stage \in Reading, In(t, stage),
           Answers(t, status), UNCHANGED <<lifespanVars, dataVars>>,
           status = 404 => ~request[t].known,
           status = 200 => request[t].id \in IF request[t].route = "similar"
                                             THEN embedded ELSE nodes,
           request[t].route = "narrative" => status # 200
    PROVE  ApiInv'
<1> USE DEF ApiInv
<1>1. request[t] \in Requests /\ request[t].asked = 0
  BY DEF In, TypeOK, RequestInv, RequestFacts, Reading
<1> DEFINE r == Answered(request[t], status)
<1>2. request' = [request EXCEPT ![t] = r]
  BY DEF Answers, TypeOK
<1>3. /\ r \in Requests /\ r.at = "answered" /\ r.status = status /\ r.asked = 0
      /\ r.id = request[t].id /\ r.route = request[t].route /\ r.known = request[t].known
  BY <1>1, AnsweredShape
<1> HIDE DEF r
<1>4. request' = [request EXCEPT ![t] = r]
  BY <1>2
<1>5. TypeOK'
  BY <1>3, <1>4 DEF TypeOK, lifespanVars, dataVars
<1>6. LifeInv'
  BY <1>4 DEF LifeInv, NoRequests, lifespanVars, TypeOK, In
<1>7. RequestFacts(request[t], nodes, embedded, provider)
  BY DEF RequestInv, In
<1>8. RequestFacts(r, nodes, embedded, provider)
  BY <1>1, <1>3, <1>7 DEF RequestFacts, Reading
<1>9. RequestInv'
  <2>1. nodes' = nodes /\ embedded' = embedded /\ provider' = provider
    BY DEF lifespanVars, dataVars
  <2>2. TypeOK /\ RequestInv
    OBVIOUS
  <2> HIDE DEF ApiInv
  <2> QED
    BY ONLY <1>4, <1>8, <2>1, <2>2, OneRequestSteps
<1> QED
  BY <1>5, <1>6, <1>9

(* Not found: the id was not known at the arrival either.                  *)
LEMMA MissingInv ==
    ASSUME ApiInv, NEW t \in Threads, In(t, "handle"), Answers(t, 404),
           UNCHANGED <<lifespanVars, dataVars>>,
           request[t].id \notin IF request[t].route = "similar" THEN embedded ELSE nodes
    PROVE  ApiInv'
<1>1. RequestFacts(request[t], nodes, embedded, provider)
  BY DEF ApiInv, RequestInv, In
<1>2. ~request[t].known
  BY <1>1 DEF RequestFacts
<1>3. "handle" \in Reading
  BY DEF Reading
<1> QED
  BY <1>2, <1>3, AnswerInv

(* A request goes on to its next query, or to the model, when what it asks *)
(* about is there.                                                         *)
LEMMA GoesInv ==
    ASSUME ApiInv, NEW t \in Threads, NEW stage \in Reading, In(t, stage),
           NEW next \in {"search", "label", "ask"}, Goes(t, next),
           UNCHANGED <<lifespanVars, dataVars>>,
           next = "ask" => request[t].route = "narrative" /\ request[t].id \in nodes /\ provider,
           next # "ask" => request[t].route = "similar" /\ request[t].id \in embedded
    PROVE  ApiInv'
<1> USE DEF ApiInv
<1>1. request[t] \in Requests /\ request[t].asked = 0 /\ request[t].status = 0
  BY DEF In, TypeOK, RequestInv, RequestFacts, Reading
<1> DEFINE r == [request[t] EXCEPT !.at = next]
<1>2. /\ r \in Requests /\ r.at = next /\ r.status = 0 /\ r.asked = 0
      /\ r.id = request[t].id /\ r.route = request[t].route /\ r.known = request[t].known
  BY <1>1 DEF Requests
<1> HIDE DEF r
<1>3. request' = [request EXCEPT ![t] = r]
  BY DEF Goes, TypeOK, r
<1>4. TypeOK'
  BY <1>2, <1>3 DEF TypeOK, lifespanVars, dataVars
<1>5. LifeInv'
  BY <1>3 DEF LifeInv, NoRequests, lifespanVars, TypeOK, In
<1>6. RequestFacts(request[t], nodes, embedded, provider)
  BY DEF RequestInv, In
<1>7. RequestFacts(r, nodes, embedded, provider)
  BY <1>1, <1>2, <1>6 DEF RequestFacts, Reading
<1>8. RequestInv'
  <2>1. nodes' = nodes /\ embedded' = embedded /\ provider' = provider
    BY DEF lifespanVars, dataVars
  <2> QED
    BY <1>3, <1>7, <2>1, OneRequestSteps
<1> QED
  BY <1>4, <1>5, <1>8

(* The client has sent one more request to the LLM, and it is the answer,  *)
(* the failure, or one that is tried again within the limit.               *)
LEMMA AskedInv ==
    ASSUME ApiInv, NEW t \in Threads, In(t, "ask"), UNCHANGED <<lifespanVars, dataVars>>,
           NEW r \in Requests, request' = [request EXCEPT ![t] = r],
           r.id = request[t].id, r.route = request[t].route, r.known = request[t].known,
           r.asked = request[t].asked + 1,
           \/ r.at = "answered" /\ r.status \in {200, 500}
           \/ r.at = "ask" /\ r.status = request[t].status /\ r.asked <= LlmRetries
    PROVE  ApiInv'
<1> USE DEF ApiInv
<1>1. /\ request[t] \in Requests /\ request[t].at = "ask" /\ request[t].asked \in Nat
      /\ RequestFacts(request[t], nodes, embedded, provider)
  BY DEF In, TypeOK, RequestInv, Requests
<1>2. TypeOK'
  BY DEF TypeOK, lifespanVars, dataVars
<1>3. LifeInv'
  BY <1>1 DEF LifeInv, NoRequests, lifespanVars, TypeOK, In
<1>4. RequestFacts(r, nodes, embedded, provider)
  BY <1>1 DEF RequestFacts, Reading
<1>5. RequestInv'
  <2>1. nodes' = nodes /\ embedded' = embedded /\ provider' = provider
    BY DEF lifespanVars, dataVars
  <2> QED
    BY <1>4, <2>1, OneRequestSteps
<1> QED
  BY <1>2, <1>3, <1>5

(* A request to the LLM is counted.                                        *)
LEMMA AskedShape ==
    ASSUME NEW q \in Requests, q.asked <= LlmRetries
    PROVE  /\ Asked(q) \in Requests /\ Asked(q).asked = q.asked + 1
           /\ Asked(q).at = q.at /\ Asked(q).status = q.status /\ Asked(q).id = q.id
           /\ Asked(q).route = q.route /\ Asked(q).known = q.known
<1>1. /\ q = [at |-> q.at, route |-> q.route, id |-> q.id, known |-> q.known,
              asked |-> q.asked, status |-> q.status]
      /\ q.asked \in 0..(LlmRetries + 1)
  BY DEF Requests
<1> DEFINE n == q.asked + 1
<1>2. n \in 0..(LlmRetries + 1)
  BY <1>1
<1> HIDE DEF n
<1>3. Asked(q) = [at |-> q.at, route |-> q.route, id |-> q.id, known |-> q.known,
                  asked |-> n, status |-> q.status]
  BY <1>1 DEF Asked, n
<1>4. Asked(q) \in Requests
  BY <1>2, <1>3 DEF Requests
<1> QED
  BY <1>3, <1>4 DEF n

LEMMA NarrateInv ==
    ASSUME ApiInv, NEW t \in Threads, Narrate(t) \/ ClientRetries(t)
    PROVE  ApiInv'
<1> DEFINE q == Asked(request[t])
<1>1. In(t, "ask") /\ UNCHANGED <<lifespanVars, dataVars>>
  BY DEF Narrate, ClientRetries
<1>2. request[t] \in Requests /\ request[t].asked <= LlmRetries /\ request[t].at = "ask"
  BY <1>1 DEF ApiInv, In, TypeOK, RequestInv, RequestFacts
<1>3. /\ q \in Requests /\ q.asked = request[t].asked + 1
      /\ q.at = "ask" /\ q.status = request[t].status /\ q.id = request[t].id
      /\ q.route = request[t].route /\ q.known = request[t].known
  BY <1>2, AskedShape
<1>4. t \in DOMAIN request
  BY DEF ApiInv, TypeOK
<1>5. CASE Narrate(t)
  <2>1. PICK status \in {200, 500} : Narrated(t, status)
    BY <1>5 DEF Narrate
  <2> DEFINE r == Answered(q, status)
  <2>2. request' = [request EXCEPT ![t] = r]
    BY <2>1, <1>4 DEF Narrated
  <2> HIDE DEF q
  <2>3. /\ r \in Requests /\ r.at = "answered" /\ r.status = status
        /\ r.asked = q.asked /\ r.id = q.id /\ r.route = q.route /\ r.known = q.known
    BY <1>3, AnsweredShape
  <2> HIDE DEF r
  <2>4. /\ r.id = request[t].id /\ r.route = request[t].route /\ r.known = request[t].known
        /\ r.asked = request[t].asked + 1 /\ r.status \in {200, 500}
    BY <1>3, <2>3
  <2> QED
    BY <1>1, <2>2, <2>3, <2>4, AskedInv
<1>6. CASE ClientRetries(t)
  <2>1. request' = [request EXCEPT ![t] = q] /\ request[t].asked < LlmRetries
    BY <1>6, <1>4 DEF ClientRetries
  <2>2. q.asked <= LlmRetries
    BY <1>2, <1>3, <2>1 DEF Requests
  <2> HIDE DEF q
  <2> QED
    BY <1>1, <1>3, <2>1, <2>2, AskedInv
<1> QED
  BY <1>5, <1>6

LEMMA SentInv ==
    ASSUME ApiInv, NEW t \in Threads, Sent(t)
    PROVE  ApiInv'
<1> USE DEF ApiInv
<1>1. TypeOK'
  BY DEF Sent, TypeOK, lifespanVars, dataVars
<1>2. LifeInv'
  BY DEF Sent, LifeInv, NoRequests, lifespanVars, TypeOK
<1>3. RequestInv'
  <2> SUFFICES ASSUME NEW q \in Threads, request'[q] # Free
               PROVE  RequestFacts(request'[q], nodes, embedded, provider)
    BY DEF RequestInv, Sent, lifespanVars, dataVars
  <2>1. request'[q] = request[q]
    BY DEF Sent, TypeOK
  <2> QED
    BY <2>1 DEF RequestInv
<1> QED
  BY <1>1, <1>2, <1>3

LEMMA HandleInv ==
    ASSUME ApiInv, NEW t \in Threads, Handle(t)
    PROVE  ApiInv'
<1>0. Reading = {"handle", "search", "label"}
  BY DEF Reading
<1>1. CASE GetCorrelate(t)
  <2>1. /\ In(t, "handle") /\ request[t].route = "correlate"
        /\ UNCHANGED <<lifespanVars, dataVars>>
    BY <1>1 DEF GetCorrelate
  <2>2. CASE request[t].id \notin nodes
    <3>1. Answers(t, 404)
      BY <1>1, <2>2 DEF GetCorrelate, Correlated
    <3> QED
      BY <2>1, <2>2, <3>1, MissingInv
  <2>3. CASE request[t].id \in nodes
    <3>1. Answers(t, 500) \/ Answers(t, 200)
      BY <1>1, <2>3 DEF GetCorrelate, Correlated
    <3> QED
      BY <1>0, <2>1, <2>3, <3>1, AnswerInv
  <2> QED
    BY <2>2, <2>3
<1>2. CASE GetExpand(t)
  <2>1. /\ In(t, "handle") /\ request[t].route = "expand"
        /\ UNCHANGED <<lifespanVars, dataVars>>
        /\ Answers(t, IF request[t].id \notin nodes THEN 404 ELSE 200)
    BY <1>2 DEF GetExpand
  <2>2. CASE request[t].id \notin nodes
    BY <2>1, <2>2, MissingInv
  <2>3. CASE request[t].id \in nodes
    BY <1>0, <2>1, <2>3, AnswerInv
  <2> QED
    BY <2>2, <2>3
<1>3. CASE GetSimilar(t)
  <2>1. /\ In(t, "handle") /\ request[t].route = "similar"
        /\ UNCHANGED <<lifespanVars, dataVars>>
    BY <1>3 DEF GetSimilar
  <2>2. CASE handle["vectors"] = "none"
    <3>1. Answers(t, 503)
      BY <1>3, <2>2 DEF GetSimilar
    <3> QED
      BY <1>0, <2>1, <3>1, AnswerInv
  <2>3. CASE handle["vectors"] = "broken"
    <3>1. Answers(t, 500)
      BY <1>3, <2>3 DEF GetSimilar
    <3> QED
      BY <1>0, <2>1, <3>1, AnswerInv
  <2>4. CASE handle["vectors"] \notin {"none", "broken"}
    <3>1. IF request[t].id \notin embedded THEN Answers(t, 404) ELSE Goes(t, "search")
      BY <1>3, <2>4 DEF GetSimilar
    <3>2. CASE request[t].id \notin embedded
      BY <2>1, <3>1, <3>2, MissingInv
    <3>3. CASE request[t].id \in embedded
      BY <1>0, <2>1, <3>1, <3>3, GoesInv
    <3> QED
      BY <3>2, <3>3
  <2> QED
    BY <2>2, <2>3, <2>4
<1>8. ASSUME NEW stage \in {"search", "label"}, In(t, stage)
      PROVE  request[t].route = "similar" /\ request[t].id \in embedded
  BY <1>8 DEF ApiInv, RequestInv, RequestFacts, In
<1>9. CASE SearchSimilar(t)
  <2>1. In(t, "search") /\ UNCHANGED <<lifespanVars, dataVars>>
    BY <1>9 DEF SearchSimilar
  <2>2. request[t].route = "similar" /\ request[t].id \in embedded
    BY <1>8, <2>1
  <2>3. CASE Answers(t, 500)
    BY <1>0, <2>1, <2>2, <2>3, AnswerInv
  <2>4. CASE Goes(t, "label")
    BY <1>0, <2>1, <2>2, <2>4, GoesInv
  <2> QED
    BY <1>9, <2>3, <2>4 DEF SearchSimilar
<1>10. CASE LabelSimilar(t)
  <2>1. In(t, "label") /\ Answers(t, 200) /\ UNCHANGED <<lifespanVars, dataVars>>
    BY <1>10 DEF LabelSimilar
  <2>2. request[t].route = "similar" /\ request[t].id \in embedded
    BY <1>8, <2>1
  <2> QED
    BY <1>0, <2>1, <2>2, AnswerInv
<1>4. CASE GetNarrative(t)
  <2>1. /\ In(t, "handle") /\ request[t].route = "narrative"
        /\ UNCHANGED <<lifespanVars, dataVars>>
    BY <1>4 DEF GetNarrative
  <2>2. CASE ~provider
    <3>1. Answers(t, 503)
      BY <1>4, <2>2 DEF GetNarrative
    <3> QED
      BY <1>0, <2>1, <3>1, AnswerInv
  <2>3. CASE provider /\ request[t].id \notin nodes
    <3>1. Answers(t, 404)
      BY <1>4, <2>3 DEF GetNarrative, Correlated
    <3> QED
      BY <2>1, <2>3, <3>1, MissingInv
  <2>4. CASE provider /\ request[t].id \in nodes
    <3>1. Answers(t, 500) \/ Goes(t, "ask")
      BY <1>4, <2>4 DEF GetNarrative, Correlated
    <3> QED
      BY <1>0, <2>1, <2>4, <3>1, AnswerInv, GoesInv
  <2> QED
    BY <2>2, <2>3, <2>4
<1>5. CASE Narrate(t) \/ ClientRetries(t)
  BY <1>5, NarrateInv
<1>6. CASE QueryRaises(t)
  <2>1. PICK stage \in Reading : In(t, stage)
    BY <1>0, <1>6 DEF QueryRaises
  <2>2. Answers(t, 500) /\ UNCHANGED <<lifespanVars, dataVars>>
    BY <1>6 DEF QueryRaises
  <2> QED
    BY <2>1, <2>2, AnswerInv
<1>7. CASE Sent(t)
  BY <1>7, SentInv
<1> QED
  BY <1>1, <1>2, <1>3, <1>4, <1>5, <1>6, <1>7, <1>9, <1>10 DEF Handle

-----------------------------------------------------------------------------
LEMMA NextInv ==
    ASSUME ApiInv, [Next]_vars
    PROVE  ApiInv'
<1>1. CASE Lifespan \/ Stop \/ ConnectionBreaks
  BY <1>1, LifespanInv
<1>2. CASE \E t \in Threads, route \in Routes, id \in Ids : Arrive(t, route, id)
  BY <1>2, ArriveInv
<1>3. CASE \E t \in Threads : Handle(t)
  BY <1>3, HandleInv
<1>4. CASE \E id \in Ids : IngestNode(id) \/ IngestVector(id)
  BY <1>4, IngestInv
<1>5. CASE UNCHANGED vars
  BY <1>5 DEF vars, lifespanVars, dataVars, ApiInv, TypeOK, LifeInv, NoRequests,
              RequestInv
<1> QED
  BY <1>1, <1>2, <1>3, <1>4, <1>5 DEF Next

(* The invariant of the service: its types, how far the lifespan is, and   *)
(* what is known of every request in progress.                             *)
THEOREM ApiInvariant == Spec => []ApiInv
  BY InitApi, NextInv, PTL DEF Spec

(* Whatever the schedule, every request and both stores keep to their      *)
(* types: no handler and no step of the lifespan leaves a status, a stage  *)
(* or an ownership mark the service does not know.                         *)
THEOREM TypeCorrect == Spec => []TypeOK
<1>1. ApiInv => TypeOK
  BY DEF ApiInv
<1> QED
  BY <1>1, ApiInvariant, PTL

(* A handler never meets a store the lifespan has not opened or has closed:*)
(* requests come only between the yield and the last of them being sent.   *)
THEOREM RequestsMeetOpenStores == Spec => []StoresAreOpen
<1>1. ApiInv => StoresAreOpen
  BY DEF ApiInv, TypeOK, LifeInv, NoRequests, StoresAreOpen
<1> QED
  BY <1>1, ApiInvariant, PTL

(* A 200 is about what is in the stores and a 404 about what was missing when*)
(* the request came in, for any ids and any number of threads and ingests. *)
THEOREM AnswersAreTrue == Spec => []TruthfulStatus
<1>1. ApiInv => TruthfulStatus
  BY DEF ApiInv, RequestInv, RequestFacts, TruthfulStatus, In
<1> QED
  BY <1>1, ApiInvariant, PTL

(* Whatever the retry limit of the LLM's client, what is sent to the LLM   *)
(* is for a narrative of an indicator that is in the graph, and is sent no *)
(* more than one time above that limit for a request.                      *)
THEOREM NarrativesAreGrounded == Spec => []NarrativeGrounded
<1>1. ApiInv => NarrativeGrounded
  <2> SUFFICES ASSUME ApiInv, NEW t \in Threads, request[t] # Free
               PROVE  LET r == request[t]
                      IN  /\ r.at = "ask" \/ r.asked > 0 =>
                                r.route = "narrative" /\ r.id \in nodes /\ provider
                          /\ r.asked > 0 => r.at = "ask" \/ r.status \in {200, 500}
                          /\ r.asked <= LlmRetries + 1
                          /\ r.route = "narrative" /\ r.status = 200 => r.asked > 0
    BY DEF NarrativeGrounded
  <2>1. RequestFacts(request[t], nodes, embedded, provider) /\ request[t] \in Requests
    BY DEF ApiInv, RequestInv, TypeOK
  <2>2. request[t].asked \in 0..(LlmRetries + 1)
    BY <2>1 DEF Requests
  <2> QED
    BY <2>1, <2>2 DEF RequestFacts
<1> QED
  BY <1>1, ApiInvariant, PTL
=============================================================================
