----------------------------- MODULE Connectors -----------------------------
(***************************************************************************)
(* The connectors at work, one source after another: build a connector,    *)
(* fetch, normalise, write the indicators, close the HTTP client.  The     *)
(* write is GraphIngest's, here one step; failures of it are IngestRun's.  *)
(***************************************************************************)
EXTENDS RequestRetry, Indicators, HtmlText

CONSTANTS MaxRetries,   \* the max_retries of request_with_retry
          Payloads      \* what each source can answer with

Feeds == {"urlhaus", "malwarebazaar", "feodo", "otx"}
Sources == Feeds \cup {"document"}
ASSUME SourcesAssumption == DOMAIN Payloads = Sources /\ MaxRetries \in Nat

(* A field holds a string of its class, and only reports defang.  There is *)
(* one way to write an address but for its dots.                           *)
Class(f) ==
    CASE f = "url"        -> Urls
      [] f = "host"       -> Addresses \cup Domains
      [] f = "ip_address" -> Addresses
      [] f \in HashFields -> Hashes
      [] f = "indicator"  -> Names

Written(s) == s \in String /\ ~s.trimmed /\ (s.name \in Addresses => ~s.capitals)

FromFeed(records) ==
    \A pair \in UNION records :
        Written(pair[2]) /\ pair[2].name \in Class(pair[1]) /\ ~pair[2].defanged

ASSUME PayloadsAssumption ==
    /\ \A s \in {"urlhaus", "feodo", "otx"} : \A p \in Payloads[s] : FromFeed(p)
    /\ \A p \in Payloads["malwarebazaar"] : FromFeed(p.data)
    /\ \A p \in Payloads["document"] \cup {Contents} : \A s \in p : Written(s)

VARIABLES source,       \* at work, or "none"
          stage,
          client,       \* its HTTP client
          lent,         \* connector or client was injected: not ours to close
          graph         \* IOC nodes

connVars == <<source, stage, client, lent, graph>>
vars == <<retryVars, htmlVars, connVars>>

TypeOK ==
    /\ RetryTypeOK /\ HtmlTypeOK
    /\ source \in Sources \cup {"none"}
    /\ stage \in {"idle", "fetch", "request", "page", "close"}
    /\ client \in {"none", "open", "closed"}
    /\ lent \in BOOLEAN
    /\ graph \subseteq {s \in String : ~s.defanged /\ s.name \notin Unsupported}

Init ==
    /\ RetryInit /\ HtmlInit
    /\ source = "none" /\ stage = "idle"
    /\ client = "none"
    /\ lent = FALSE
    /\ graph = {}

-----------------------------------------------------------------------------
(* The type of a MalwareBazaar payload is a status and its samples.        *)
Normalize(payload) ==
    CASE source = "urlhaus"       -> NormalizeUrlhaus(payload)
      [] source = "malwarebazaar" -> NormalizeMalwareBazaar(payload.status, payload.data)
      [] source = "feodo"         -> NormalizeFeodo(payload)
      [] source = "otx"           -> NormalizeIndicators(payload)
      [] source = "document"      -> ParseIocs(payload)

(* abuse.ch goes through request_with_retry; OTX and documents do not.     *)
RetriesOf(s) == IF s \in {"otx", "document"} THEN 0 ELSE MaxRetries

(* run_ingest or run_ingest_doc takes up a source.                         *)
MakeConnector(s, injected) ==
    /\ stage = "idle"
    /\ source' = s
    /\ stage' = "fetch"
    /\ lent' = injected
    /\ client' = IF injected THEN "open" ELSE "none"
    /\ UNCHANGED <<retryVars, htmlVars, graph>>

(* _http() makes the client there is none of; the first request is next.   *)
Fetch ==
    /\ stage = "fetch"
    /\ client' = "open"
    /\ NoCall("send", RetriesOf(source))
    /\ stage' = "request"
    /\ UNCHANGED <<htmlVars, source, lent, graph>>

Requests == stage = "request" /\ RetryStep /\ UNCHANGED <<htmlVars, connVars>>

\* Mutant: only a fetch that went well closes.
FailsUnclosed ==
    /\ stage = "request"
    /\ call \in {"raised", "failed"}
    /\ stage' = "idle"
    /\ source' = "none"
    /\ NoCall("none", 0)
    /\ UNCHANGED <<htmlVars, client, lent, graph>>

(* The call raised, or the body is not what the connector can read.        *)
Fails ==
    /\ stage = "request"
    /\ call \in Ended
    /\ stage' = "close"
    /\ UNCHANGED <<retryVars, htmlVars, source, client, lent, graph>>

(* fetch_iocs or from_text on the body, and the write.                     *)
Ingests(payload) ==
    /\ stage = "request"
    /\ call = "returned"
    /\ graph' = graph \cup Normalize(payload)
    /\ stage' = "close"
    /\ UNCHANGED <<retryVars, htmlVars, source, client, lent>>

(* from_url with an HTML body: its text is extracted first.                *)
OpensPage ==
    /\ stage = "request"
    /\ call = "returned"
    /\ source = "document"
    /\ stage' = "page"
    /\ UNCHANGED <<retryVars, htmlVars, source, client, lent, graph>>

ReadsPage == stage = "page" /\ HtmlStep /\ UNCHANGED <<retryVars, connVars>>

(* The page ends; the text is parsed before the model is asked, and an     *)
(* exception of the model leaves no trace in the graph.                    *)
EndsPage ==
    /\ stage = "page"
    /\ graph' \in {graph, graph \cup ParseIocs(chunks)}
    /\ NewPage
    /\ stage' = "close"
    /\ UNCHANGED <<retryVars, source, client, lent>>

(* The finally of run_ingest and of run_ingest_doc.                        *)
Close ==
    /\ stage = "close"
    /\ client' = IF lent THEN client ELSE "closed"
    /\ NoCall("none", 0)
    /\ stage' = "idle"
    /\ source' = "none"
    /\ UNCHANGED <<htmlVars, lent, graph>>

Working ==
    \/ Fetch
    \/ Requests
    \/ Fails
    \/ \E s \in Sources \cap {source} : \E payload \in Payloads[s] : Ingests(payload)
    \/ OpensPage
    \/ ReadsPage
    \/ EndsPage
    \/ Close

Next ==
    \/ \E s \in Sources, injected \in BOOLEAN : MakeConnector(s, injected)
    \/ Working

Spec == Init /\ [][Next]_vars

(* A process that has begun goes on, and a page has an end.                *)
FairSpec == Spec /\ WF_vars(Working) /\ WF_vars(EndsPage)

-----------------------------------------------------------------------------
(* Properties.                                                             *)

(* "The same indicator from two feeds resolves to the same deterministic   *)
(* node id" (ingest_feed): however feeds and reports spell an indicator,   *)
(* it has one node.  Not so for a URL a report shows cut short.            *)
OneNodePerIndicator ==
    \A m, n \in graph : (m.name = n.name /\ m.name \notin Urls) => m = n

(* An indicator in the graph that the parser can read is found under its   *)
(* own node, not under its host's, however the query spells it.            *)
Readable(s) == s.name \notin Odd \/ s.trimmed

FoundInAnySpelling ==
    \A n \in {m \in graph : Readable(m)} :
        \A q \in Spellings(n) : Resolve(graph, q) = n

(* "Responds 404 when the indicator is not present in the graph"           *)
(* (get_correlate): an indicator that is present is found.                 *)
FoundWhenPresent == \A n \in graph : Resolve(graph, n) # NotFound

(* Between sources no client of ours is open, whatever raised; one that    *)
(* was lent never closes.                                                  *)
ClientsReleased ==
    /\ stage = "idle" /\ ~lent => client # "open"
    /\ lent => client = "open"

(* Every source comes to an end: no answer of a server keeps a run in its  *)
(* retry loop.                                                             *)
FetchEnds == stage # "idle" ~> stage = "idle"
=============================================================================
