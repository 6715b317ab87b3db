# ThreatWeave in TLA+

A verification project for ThreatWeave: a Python service that ingests threat
intelligence into a graph, correlates indicators over it, and serves a web
explorer. The modules are translated from the code, TLC checks them on small
instances, and TLAPS proves the theorems for every value of the constants.
Paths below are relative to `src/src/threatweave/`, those that begin with
`frontend/` to `src/`.

## The system

| component | code | state it keeps | what it does |
|---|---|---|---|
| ingestion state file | `ingest_state.py` | one JSON document, a copy of it per process, a `.tmp` sibling | load, record one source, write back by rename |
| ingest runner, CLI | `ingest_runner.py`, `cli.py` | the names left to run | per source: fetch, compare digests, write to the graph, record |
| ingestion into the graph | `ingest.py` | none of its own | the order of the node, edge and embedding writes |
| graph stores | `graph/` | nodes and edges | idempotent upserts, edges with checked ends, neighbourhoods |
| vector stores | `vector/` | one vector and content hash per entity | embedding cache, top-k similarity |
| correlation | `correlation/` | none | neighbourhood plus semantic edges |
| connectors | `connectors/` | HTTP clients | fetch and normalise; retry policy of `http.py` |
| parser and models | `parsers/`, `models/` | none | refang, classify and canonicalise indicators |
| LLM providers | `llm/` | none that matters | extraction, embeddings, narratives |
| API | `api/` | store handles on `app.state` | HTTP routes, API key, rate limits |
| web explorer | `frontend/src/` | React state | search, expand, similar, narrative |

How they interact. Cron starts `threatweave ingest` processes; nothing keeps
two of them apart. Each reads the state file, calls connectors (HTTP), writes to
the graph store (Neo4j, or a dictionary in the process) and to the vector store
(pgvector, or a dictionary), and rewrites the state file after every source.
`ingest-doc` does the same for one report, with an LLM call and without the state
file. The API reads the same stores and the same file while this goes on, one
query at a time. The browser calls the API; answers come back in any order into
whatever is on screen.

What is hard, and what must hold:

| component | what is hard | what makes it correct |
|---|---|---|
| state file, runner | overlapping processes share one `.tmp` name and write back whole copies; every step can raise or be the last one; recording an error can raise too | a digest vouches only for facts in the graph; a reader never parses half a document; a run ends; a published feed is ingested in the end; one source's failure stops no other |
| ingestion into the graph | a series of commits without a transaction; batched edges need every end; two reports can share a campaign | no unknown end whatever interleaves; a call commits its own facts, all of them by its return; a vector belongs to a node |
| correlation | the answer is put together from several queries while commits go on; vectors may outlive the graph | no dangling edge in an answer, no node the graph lacks; both stores find the same neighbourhood |
| explorer | late answers, failures, one spinner for many calls, one panel instance for many nodes | spinners end with their calls, the graph drawn has both ends of its edges, one narrative call at a time, search never locked for ever |
| connectors | retries with odd `Retry-After` values, exceptions half way, pages that are not well formed | bounded attempts with a wait between them, the last error surfaces, no client left open, the text kept is the text shown |
| parser, models | four connectors, the parser and the resolver each canonicalise on their own | one node per indicator, found however a query spells it |
| graph stores | MERGE without a uniqueness constraint makes copies of a node; a call is several statements; a driver can raise after the commit, or not raise at all | an answer has the ids and edges of the graph of ids; a batch is whole; a KeyError is about an end that was missing |
| API | lifespan of own and lent stores, requests in flight at shutdown, ingestion between two reads of a request | a request only meets open stores, a status is true, the model is asked about what is there and no more often than configured |

`PROJECT.json` lists the hazards one by one, each at its line.

## The modules

**IngestState** has the state file. `file` and `tmp` are the two directory entries,
`mem[p]` is `IngestState._data` of process `p`, and `fd[p]` says where the inode that
`p` has open for writing is linked now, since another process can rename it under
its writer. `Put; OpenTmp; FlushTmp; ReplaceFile` is `record()`: the copy, the truncating
open of `write_text`, its content, `os.replace`. `Load` is the constructor with `_read`: a file
that does not parse, or that cannot be read at the moment (the `OSError` branch), is
ignored with a warning, `ignored[p]` remembers that, and the next record replaces the
file by a document without the entries of the other sources.

**IngestRun** has `run_ingest` on top: `pc[p]` is the call a process is in, `todo[p]`
the names left, `phase[p]` whether it records in the `try` or in the `except`.
`FetchUnchanged/FetchNew` are the strategies up to the digest test, `IngestWrites`
and `IngestRaises` the graph writes, whole or in part, `RecordRaises` both ways an
exception in `record()` can go. `Crash` ends a process anywhere.
**StatusBoard** is what the file promises its readers: one atomic durable entry
per source, and an entry with a digest only for facts that are in the graph; only
while a run is on that has logged "ignoring unreadable ingest state" may a record
start from a blank board, as the comment in `_read` announces.
**IngestRunBoard** has the refinement mapping (the board is what the bytes of the file
parse to).

**RequestRetry** is one call of `request_with_retry` (`connectors/http.py`), request by
request: `attempt` is the loop's, `sent` counts what left the process, and `Returns`,
`GivesUp`, `BacksOff` and `SleepRaises` are the exits of one turn of the loop. `Retry-After`
is absent, a date, a number (negative and zero included) or a value `float` takes
and `sleep` does not. **Indicators** has the `normalize_*` functions, `parse_iocs` on whole
strings and the resolution of `correlate` as pure operators; a string is an indicator
and how it is written (capitals, defanged, cut short). **HtmlText** is
`_HTMLTextExtractor`, one handler call a step, beside the elements a browser has
open: an end tag may be stray or misnested, and `Shut` says what it ends for a browser
(the last open element of its name with all that is in it, or nothing), while
`skipDepth` follows the code. **Connectors** composes the three: build a connector, fetch, normalise, write,
close, one source after another, with a client of its own or a lent one.

**GraphIngest** has `ingest.py`. A job is one call: parts (pulses, or one report)
with a campaign, the entities linked to it and the text to embed. The actions
are the writes in their order: for a payload all campaigns, one batch of
indicators, one batch of edges, then the embeddings; for a report one entity,
its link, the next one, then the embedding. `ingest_feed` is a payload's path with one
part that has no campaign, for which the other stages do nothing. `NeedsVector`,
`EmbedComputes` and `EmbedStores` split `_embed_and_cache` at the call of the provider.
`Raises` ends a call anywhere, `GraphLost` is the end of a process with a graph in memory.
`UpsertNode` may be lost over Bolt without its caller hearing of it (`lost` remembers
where), `UpsertBatch` may not. **FactBase** is the promise: a call commits facts of its
job only, and all of them by the time it returns, but for what is `Fragile`: a campaign
that nothing links to, over Bolt. The loss of any other node is noticed, by the edge
that needs it. IngestRun takes that promise as its `IngestWrites` and `IngestRaises`.

**Neo4jStore** is the store one level down, statement by statement. A `MERGE` matches
the committed nodes (`Match`) and then commits what it found missing (`Commit`); two
processes can both miss an id, and the copy `<<id, p>>` is the one process `p` made.
`SET` writes all copies it matched, so `label` is of a copy. `FindEnds` is the first
query of `add_edges`, `EdgeExists` the second of `add_edge`, `DriverRaises` an error before
or after the server's commit, and `CloseSwallows` the failure of an `upsert_node`, which
does not consume its result, in the `close` of its session. `Answers` is `neighborhood`:
`collect(DISTINCT {id, kind, label})` makes one row of the copies that agree in all three.
**GraphStore** is what its callers rely on: atomic writes on ids, a return without
effect only for what is `Unheard` (`upsert_node`), and a `KeyError` only about an end that
was missing at some moment of the call. GraphIngest uses the store as GraphStore
describes it.

**Neighborhood** has both traversals as pure operators: `Hood`, the breadth-first
search of the memory store, and `CypherHood`, the path pattern of Neo4j, the rounds of the
one and the match lengths of the other as recursive functions.
**Correlate** is one request for `/api/correlate`, a step per query, and
**ThreatService** composes it with GraphIngest over the same stores.

**ApiService** is the API process. `app` is where the lifespan is, `handle` the stores on
`app.state` with `owned` those it built, `request[t]` the request a worker thread has.
`Arrive` is the key's dependency and the limit, `Get*` the handlers up to their first answer,
`SearchSimilar` and `LabelSimilar` the later reads of `/api/similar`. `Narrate` is a request
to the LLM, and `ClientRetries` one more that the SDK's client sends by itself, up to the
`max_retries` it was built with. `BuildRaises` (a store, or a provider's factory with
anything but ValueError) and `CloseRaises` are the exceptions the `try` of the lifespan does
not cover; `ConnectionBreaks` is the single connection of PgVectorStore, which nothing reopens.
Ingestion goes on beside it, so each handler reads stores that change.

**Explorer** is `useGraph.ts` with the search bar, the graph view and `App.tsx`; each
answer is one step because the code after an `await` runs as one callback.
**DetailPanel** is `NodeDetailPanel.tsx` with `useNarrative.ts`; **ExplorerApp** composes
them: every change of graph or selection renders the panel anew (`Show`).

Each component's theorems are in the module named after it with `Proofs`:
IngestRunProofs (IngestRunBoard's too), GraphIngestProofs (ThreatService's too),
NeighborhoodProofs, Neo4jStoreProofs, ConnectorsProofs, ApiServiceProofs and
ExplorerProofs. **Induction** has the facts about the naturals the recursive
functions need.

The definitions whose comment begins with "Mutant" are deliberate faults. No
specification uses them; each stands for a bug that the property beside it in
`PROJECT.json` has to catch.

## The runs

| run | bounds | shows |
|---|---|---|
| `ingest_alone` | 1 process, `--all` over 2 sources, nested payloads, all faults, loads that fail among them | TypeOK, DedupSound, NoHalfWrittenFile, IngestRun implements StatusBoard; FeedReachesGraph and SourceRecovers |
| `ingest_overlap` | 2 processes, one source each, faults of fetches and loads | DedupSound, RunTerminates, StateFileHeals |
| `graph` | 2 processes, 2 campaigns, 2 indicators, 1 actor, a report and a payload, both backends | no unknown end, vectors have nodes, answers closed and known, both traversals agree, ingestion implements FactBase |
| `neo4j` | 2 processes, 3 ids, 2 labels, 6 calls, depths 0 to 2 | every answer has the ids and edges of the graph of ids, and several rows for an id only where callers label it differently; the statements implement GraphStore |
| `connectors` | the 5 kinds of source, 7 names, `max_retries` 3, pages 3 elements deep | the retry policy, one node per indicator, found in any spelling, the text shown is the text kept, clients closed, every fetch ends |
| `api` | 2 requests at a time, 1 id, 4 routes, a key is set, 1 retry of the LLM's client | open stores only, true statuses, the model asked within its limit and about what is there, requests and shutdown end |
| `explorer` | a chain of 4 nodes, 2 calls in flight | spinners, ends of edges, one narrative, search usable again |

The bounds. Two processes are enough for a race on one file or store: the code
has no step that involves more than the process itself and one it overlaps with.
Two sources let one fail before another runs and let a copy be stale for the
source it does not run. Two facts in nested payloads let a write stop half way
and let feeds share facts. The graph instance has a cycle, shared indicators, a
pulse without a name and nodes three hops apart, so depths 1 to 4 differ on the graphs
left half way; both jobs embed under one campaign name with different texts. The
Neo4j instance links an indicator and a technique to one campaign, one edge at a time or
both in a batch, so an answer of depth 2 crosses a node with two copies and a batch can
lack one end of three, and the technique is labelled in two ways (its
name, or its id where the model gave none); a process makes an id at most once, so
copies need no bound. `max_retries` is the value of the code, and the headers cover every branch of
the delay: nothing, a date, nan, negative, zero, shorter and longer than the backoff
(9 is above the longest backoff of 4). The seven names are one indicator of each
class, an address that is a URL's host, and a domain and a URL the parser does not
give back; every pair of sources that shares one spells it differently. `MaxOpen` = 3
holds a head with a title in it, and an element in a skipped one in another; with `p`,
`template` and `script` among the tags, end tags come stray, misnested and of a kind that
is skipped while nothing is. Two requests
show two handlers at different stages and a shutdown with one of them in flight;
requests do not write, so they only meet through the lifespan. The chain of the
explorer is longer than the two hops a search shows.

Faults are constants so that a run can say what it assumes: `ingest_overlap` leaves
out those that only multiply its states, with one payload and one source per run.
A run's ending is cron's to follow up, so there is no deadlock to exclude there: every
state of these specifications has a successor. The API process does stop, and only
`api` is checked without the search for deadlocks.

**Fairness.** A process that runs keeps running (WF of each `RunStep`; WF of `Working` for a
connector, WF of `EndsPage` because a page is finite). Cron keeps starting runs (WF of
`Start`). `ServiceFairness`, in `ingest_alone` only, is for liveness of the feeds: what is
attempted again and again for a source (fetch, graph write, writing an ok
record) succeeds again and again; it is strong because faults
come in between, and it is what "transient" means. Without it a source that never
answers is a legal behaviour. A handler of the API runs on its thread until it
answers (WF of each `Handle`), and the server drives the lifespan on (WF of `Lifespan`);
nobody owes a request or a shutdown. In the explorer every call is answered or fails,
because `fetch` settles; the user owes nothing.

## What the checks found

Five runs end in a violation, each of one property that quotes the code's own words.

1. `ingest_torn`: overlapping runs truncate and rename each other's `.tmp`, and a
   reader can meet an empty state file ("never sees a half-written file").
2. `ingest_abandon`: the rename of an overlapping run makes `os.replace` raise; in the
   `except` block nothing catches it and the sources after it are not run
   ("the run continues with the rest").
3. `explorer_stale`: a late narrative or similarity answer appears under another
   node ("Reset on-demand results whenever the selected node changes").
4. `findable`: a feed stores a domain that ends like a file (`evil.zip`) or a URL that ends
   in punctuation as it is, and the parser through which a query goes refuses
   the one and cuts the other: the node is there and the query for its exact value
   answers 404 ("when the indicator is not present in the graph").
5. `pages`: a page may leave out `</head>`, which `<body>` then ends; the extractor waits
   for the end tag and keeps none of the text ("Collect visible text").

Known, and without a run of their own:

- Overlapping runs write back whole stale copies of the state file, so one can roll
  back the record of the other's source until that source runs again.
- An error record has no digest: a payload already processed is processed again after
  one failed fetch. Ingestion is idempotent, so this costs time.
- The embedding cache keeps one hash per campaign: two texts under one name evict each
  other and are embedded again in turn.
- A state file that cannot be read for a moment costs the entries and digests of all
  other sources at the next record (*AloneForgetsNothing* says that nothing else does
  when runs do not overlap). They are processed again.
- Over Bolt, `upsert_node` can return without its commit. A campaign whose pulse has no
  indicators and no technique is then missing without an error; every other node that
  is lost makes the edge that needs it raise.
- Two `ingest-doc` runs that race on a technique, one with its name and one without,
  leave two nodes that `neighborhood` returns as two rows with one id; the next upsert
  of that technique gives both the same label.
- A `Retry-After` that is a date, which HTTP allows, is ignored for the backoff
  (`_retry_after` is for numbers), although the docstring of `http.py` speaks of the header
  without that limit.
- A stray end tag of a skipped kind inside another skipped element (`</noscript>` in a
  `<template>`) lowers `_skip_depth`, and hidden text is kept.
- A start that fails, or a `close()` that raises, leaves open what was built before it;
  the end of the process closes it.
- A late expansion joins the graph of a newer search. Its edges have their ends
  (EdgesHaveEnds), so what is drawn is true but not what was asked for.

In all of them DedupSound and the edges of the graph stay sound: what is lost is
bookkeeping, money or what is shown; with `pages` it is the indicators of that page, with
a lost upsert a campaign that has none.

## What is proved

Every invariant, action property and refinement that a run checks is also a
theorem, for every value of the constants:

| module | theorem | what it establishes |
|---|---|---|
| IngestRunProofs | TypeCorrect | types |
| | DedupIsSound | no digest vouches for facts the graph lacks, overlapping runs and crashes included |
| | SkippedIsIngested | a source that is skipped as unchanged has all its facts in the graph |
| | AloneNeverHalfWritten | with at most one process, `file` is absent or a document |
| | AloneNotAbandoned | with at most one process and a disk that takes the file, no source keeps a run from the others |
| | AloneImplementsBoard | with at most one process, IngestRun implements StatusBoard |
| | AloneForgetsNothing | with at most one process and loads that do not fail, no source that has an entry loses it |
| GraphIngestProofs | TypeCorrect, IngestTypeCorrect | types, and which kinds an edge joins |
| | EndsAlwaysKnown | no ingestion meets an unknown end but one whose own upsert was lost |
| | EmbeddingsHaveNodes | with the persistent graph, vectors have nodes, but for a lost campaign without links |
| | IngestKeepsPromise | GraphIngest implements FactBase |
| | ReturnedCallsAreWhole | what a returned call wrote is in the graph from then on, but for a lost campaign without links |
| | AnswersClosed, AnswersKnown | answers of correlate have no dangling edge and no node the graph lacks |
| | BackendsAlwaysAgree | both traversals agree on every graph that ingestion leaves |
| NeighborhoodProofs | TraversalsAgree | both traversals agree on every graph, start and depth |
| Neo4jStoreProofs | StoreTypeCorrect | types; relationships join nodes of the database |
| | Neo4jImplementsStore | Neo4jStore implements GraphStore |
| | AcknowledgedWritesStay | what a returned call other than `upsert_node` wrote is there, with both ends of its edges |
| | AnswersAreSame | an answer has the ids and edges of the graph of ids, at any depth; only ids that callers label differently have several rows |
| ConnectorsProofs | TypeCorrect | types |
| | RetriesAsPromised | at most `max_retries` + 1 requests; which outcome surfaces, and when |
| | NeverHammersSources | a positive wait between two requests, no shorter than a number of seconds the header gives |
| | ClientsAreReleased | no client left open, no lent one closed |
| | KeptTextIsShown | whatever the order of a page's end tags, the text kept is the text shown, on the two conditions below |
| | OneNodeForAll | one node per indicator that is not a URL |
| | FoundHoweverSpelled | what the parser gives back is found from any spelling |
| ApiServiceProofs | TypeCorrect | types |
| | RequestsMeetOpenStores | a request meets open stores |
| | AnswersAreTrue | statuses are true of the stores |
| | NarrativesAreGrounded | the model is asked about what is in the graph, at most `LLM_MAX_RETRIES` + 1 times a request |
| ExplorerProofs | TypeCorrect | types; the panel shows the selected node if it is on screen |
| | SpinnerEnds | the spinner is off when no call is in flight |
| | EdgesAlwaysHaveEnds | edges on screen have both ends |
| | OneNarrative, NarrativeSpinnerIsTrue | one narrative at a time, its spinner on exactly as long |
| | SimilarSpinnerEnds | the similarity spinner has a call that ends it |

**Ingest runner.** *DedupSound* is not inductive: a document can come back from `tmp`,
which another process may have written. `DedupInv` says the same of every document in
circulation (`file`, `tmp`, all copies); a step only makes documents out of those,
with at most one entry changed, and an entry with a digest is made where
its payload has just entered the graph or was vouched for already. Facts are
never removed, so nothing else can break it. *AloneInv* ties `pc` to the
file system: while the one process has a write open, `fd` and `tmp` are in the state
the write left, and `file` is out of its reach until the rename; a rename
changes the entry of the current source only, because copy and file agree on the
others, or because the copy has none of the others and `ignored` says that the run has
logged it. Hence each rename is one step of StatusBoard, and it finds its `tmp`, which is
why `record()` cannot raise in the `except` block of a run that is alone. With no "read"
among the faults `ignored` stays FALSE, since the file of a lone process always parses,
and *AloneForgetsNothing* follows: the `OSError` branch is the only way to lose entries.

**Ingestion and correlation.** *IngestInv* says, for each stage of a call, which of the
job's nodes and edges are in the graph by then, or in `lost`; other processes only add
to their union, and losing the graph ends every call that relied on it (the memory graph
has one process). An edge that is written takes its ends out of doubt, so only what
has no edge in its job can still be lost at the return: `Bare`, a part with a campaign
and no links. *ReadInv* says that anchors of an answer are among its nodes, which is
what a semantic edge needs at its near end; its far end is added with it. *AnswerInv*
adds what *AnswerKnown* rests on: the graph is closed under its edges, hence a
neighbourhood in it too, the far ends of semantic edges are looked up before they are
added, and nodes go only when the whole graph and with it the request does.

**Traversals.** `Visited` and `Trails` are recursive functions. The library's induction
theorems take predicates, which the provers cannot instantiate, so module
**Induction** derives from the well-foundedness of `<` what is needed in first-order
form: a nonempty set of naturals has a least element, hence a set that holds 0 and
is closed under successor is all of `Nat`, and a function defined by iteration exists.
*TraversalsAgree* then goes both ways. What a match of the path pattern ends at is at
most that many rounds away. Conversely, a node that round `k` meets first ends a match
of length `k` whose relationships join nodes visited by then; the one that leads on to
a node not visited yet is none of them, so no relationship is used twice.
At depth 0 the code calls `get_node`, and the two agree where no node is linked to
itself.

**Neo4j store.** In *Neo4jImplementsStore* the nodes of GraphStore are the ids that have a
copy and its edges the pairs that have a relationship. *StoreInv* says what a running
statement has in its plan: a copy of each of its ids, found or to be made, and a
relationship for each of its pairs unless it is `add_edge` and an end was missing when it matched, which is what
`missed` remembers. Since copies are never deleted the plan is still good when it
commits, so `Commit` is one atomic write, `CloseSwallows` a return of an unheard call, and
`EdgeExists` a return or a `KeyError` about a missed end. *AcknowledgedWritesStay* is an invariant of GraphStore, carried
over by this refinement. For *AnswersAreSame*, *LinkInv* says that there is a choice
of one copy per id (the oldest) such that the chosen copies of two linked ids are
linked: a MATCH pairs all copies of both ends. The choice maps the graph of ids into
the graph of copies, forgetting the process maps it back, and a map that keeps
edges takes what a search finds to what a search finds. That an id has one row unless
it is `Renamed` needs that all copies of an id no call labels differently carry the one
label of the calls that write it.

**Connectors.** *CountInv* relates `sent` to `attempt`: they are equal before a request and
one apart after it, so the test on `attempt` bounds the requests. *WaitInv* needs that
the backoff doubled `attempt` times is a positive number, and that an advised wait
that `sleep` refuses never gets to `sleep`. *SpellingInv* says that what is in
the graph is in canonical form, which one name has only one of when it is no
URL; it rests on each `normalize_*` and on `parse_iocs` returning such forms (lemmas of
their own) given what the fields of a payload hold. For *FoundHoweverSpelled*, `Refang` and
`Lower` undo every spelling of such a form, and the classes of indicators do not
overlap, so a query parses to the node itself and, for a URL, to its host besides,
which `Resolve` tries later. *PageInv* says that
`skipDepth` is the number of open elements that are skipped: an end tag ends no skipped
element but one of its own name, since nothing ends from inside it, and a stray one
meets the guard `_skip_depth > 0` when none is open. `ClientsReleased` is inductive as it
stands.

**API.** *ApiInv* is TypeOK with *LifeInv*, which says which stores are built or
closed at each point of the lifespan and that only a serving or stopping service has
requests, and *RequestInv*, which relates the status, the stage and the LLM calls of a
request to what was there when it arrived; nodes and embeddings are only added, so what
the first read found is there at the later ones.

**Explorer.** *ScreenInv* holds because every operation that turns the spinner on fills a slot
in the same step, and every answer, whatever it finds on screen, turns it off; what an
answer brings is an induced subgraph, and the union of two has its ends. It does
not say that a spinner is on while a call is in flight, which is false: the first of
two answers turns it off. *PanelInv* needs both narrative properties at once:
Explain is enabled only without a spinner, hence only with nothing in flight, and an
answer empties `explaining` only because there was one.

The assumptions are the named ASSUMEs of the modules, evaluated by TLC in the runs:
that digests do not collide with None, payloads are sets of facts, a name list is
not empty, jobs have the shape their connectors give them, node kinds are disjoint,
a call of a store is an upsert or an edge write and no edge joins a node to itself (the
edges of `ingest.py` join different kinds), fields of a payload hold strings of their
class, the classes of indicators are disjoint, an error of the transport has no header, the
graph the explorer is served has both ends of its edges, and indicators and campaigns
are its nodes. Some theorems have a condition beyond those. The four *Alone* ones need
that at most one process runs, which findings 1 and 2 show, and *AloneForgetsNothing* that
loads do not fail besides. *KeptTextIsShown* needs pages that write `</head>`, as finding 5
shows (`OmitHeadEnd`), and that do not end a skipped element that is not open inside
another one (`StrayEnds`). *TraversalsAgree* has one at depth 0.

Only model-checked: the seven liveness properties (FeedReachesGraph, SourceRecovers,
RunTerminates, StateFileHeals, SearchUsableAgain, FetchEnds, ServiceLives), which need
fairness and ENABLED, out of the prover's reach. `ImplementsBoard` and the liveness of
the feeds with overlapping processes do not hold, as findings 1 and 2 show.

## What the models leave out

- Timestamps, counters, messages and logs of the state file. Its document fits one
  buffered write, so its content appears at once; longer ones would only
  make `Torn` more frequent.
- A digest is represented by its payload: equal digests mean equal payloads.
- `IngestRaises` commits any subset of a payload; GraphIngest says which are possible.
- GraphIngest and IngestRun take a store's write as one step, as GraphStore allows;
  Neo4jStore has the statements.
- The type of an edge follows from the kinds of its ends. Labels are left out, but for
  Neo4jStore, where they decide how many rows an id has in an answer.
- Which campaigns are nearest and which score enough: any subset of at most
  `MaxSimilar` others that have a vector. The threshold cannot be told from that.
- One request at a time in Correlate, and one query in ApiService: requests only read.
- In ApiService any vector store can lose its connection; the memory store cannot, so it
  has the behaviours of a store that never breaks.
- IngestRun takes the graph as durable, which is the deployment cron is documented for;
  a memory graph under a durable state file is a hazard listed without a property.
- Matching inside running text: a run of text is one indicator, capitals and defanging
  are those of the whole string, and text that a tag splits is not put together.
- Pages write the start tag of their head element, which HTML lets them leave out too,
  and a head holds no text of its own. A noscript holds text only, as it does for a
  browser that runs scripts. Elements other than those in `Tags` behave as `p`, and
  the rules by which a browser moves misnested formatting elements are left out: they
  move no text into or out of a skipped element.
- `ingest-doc` from a file has no request; its text goes through the same `ParseIocs`.
- Time: a sleep ends, however long `Retry-After` asks for. There is no limit on it in the
  code, which is a hazard listed without a property.
- slowapi and uvicorn are external: a request may be refused by the limit, and the server
  runs the lifespan once and waits for the requests it has. A second start of one app would
  take the closed stores of the first for injected ones; nothing in the repository makes one.
- The SDK's client of the LLM and the driver of Neo4j are external: the one sends a request
  again at most `max_retries` times, the other swallows a failure that comes while a session
  with an unconsumed result closes.
- Configuration is read once; its settings are constants of the modules.
- HTTP bodies, prompts, prices, styles and drawing. A connector or a provider answers
  or raises.

## Plan

Done: state file and runner, graph ingestion and correlation, the Neo4j store,
connectors with parser and retries, the API process, the explorer; all their
safety properties as theorems.

Next:

1. GraphIngest over Neo4jStore: the theorem that its steps need nothing of a store but
   what GraphStore promises, so that both refinements compose.
2. The promises of StatusBoard, FactBase and GraphStore as theorems of those modules.
3. **IngestPipeline**: IngestRun over GraphIngest, so that digest, commits and embeddings
   meet: embedding switched on after an unchanged digest, a memory graph under a
   durable file. Theorem: IngestRun's facts are those of FactBase.
4. The explorer over a graph that changes between two answers (GraphView's rebuild).
