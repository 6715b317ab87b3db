----------------------------- MODULE IngestRun -----------------------------
(***************************************************************************)
(* Scheduled ingestion: `threatweave ingest` (cli.run_ingest_cmd) running  *)
(* run_ingest over a list of sources, any number of processes at a time    *)
(* (cron may start a run while the previous one still works).              *)
(*                                                                         *)
(* For each source a run fetches the payload, compares its digest with the *)
(* one in its copy of the state file, writes the payload to the graph when *)
(* they differ, and records the outcome.  Anything that raises inside the  *)
(* try block is recorded as an error; what raises while THAT is recorded   *)
(* leaves run_ingest and ends the process.                                 *)
(***************************************************************************)
EXTENDS IngestState, Sequences

CONSTANTS Facts,        \* nodes and edges a payload turns into, but for a
                        \* campaign without links: FactBase's Fragile
          Selections    \* the lists of names --all and --source can give

ASSUME PayloadsAssumption   == Payloads \subseteq SUBSET Facts
ASSUME SelectionsAssumption == Selections \subseteq Seq(Sources) \ {<<>>}

VARIABLES feed,         \* feed[s]: what the remote source reports now
          graph,        \* the facts in the shared graph database
          pc,           \* pc[p]: the call process p is in
          todo,         \* todo[p]: names still to run, the current one first
          got,          \* got[p]: the payload fetched for the current source
          phase,        \* phase[p]: recording in the "try" or the "except"
          aborted       \* aborted[p]: the last run of p ended by an exception

vars == <<file, tmp, mem, fd, ignored, feed, graph, pc, todo, got, phase, aborted>>

TypeOK ==
    /\ IngestStateTypeOK
    /\ feed \in [Sources -> Payloads]
    /\ graph \in SUBSET Facts
    /\ pc \in [Procs -> {"idle", "fetch", "write", "open", "flush", "replace"}]
    /\ todo \in [Procs -> Seq(Sources)]
    /\ \A p \in Procs : pc[p] # "idle" => todo[p] # <<>>
    /\ got \in [Procs -> Payloads \cup {NoHash}]
    /\ \A p \in Procs : pc[p] = "write" => got[p] \in Payloads
    /\ phase \in [Procs -> {"try", "except"}]
    /\ aborted \in [Procs -> BOOLEAN]

Init ==
    /\ IngestStateInit
    /\ feed \in [Sources -> Payloads]
    /\ graph = {}
    /\ pc = [p \in Procs |-> "idle"]
    /\ todo = [p \in Procs |-> <<>>]
    /\ got = [p \in Procs |-> NoHash]
    /\ phase = [p \in Procs |-> "try"]
    /\ aborted = [p \in Procs |-> FALSE]

-----------------------------------------------------------------------------
Cur(p) == Head(todo[p])

(* state.payload_hash(name), from the process's own copy.                  *)
LastDigest(p) == mem[p][Cur(p)].hash

Goto(p, label) == pc' = [pc EXCEPT ![p] = label]

(* state.record(cur, ...) begins: p's copy changes and the write starts.   *)
Record(p, entry, block) ==
    /\ Put(p, Cur(p), entry)
    /\ Goto(p, "open")
    /\ got' = [got EXCEPT ![p] = NoHash]
    /\ phase' = [phase EXCEPT ![p] = block]
    /\ UNCHANGED <<feed, todo, aborted>>

RecordOk(p, payload) == Record(p, OkEntry(payload), "try")

(* The except block: state.record(name, status="error", error=str(exc)).   *)
RecordError(p) == Record(p, ErrorEntry, "except")

(* The process ends and its memory goes; after an exception todo keeps the  *)
(* names it did not get to.                                                *)
Exit(p, byException) ==
    /\ Forget(p)
    /\ Goto(p, "idle")
    /\ got' = [got EXCEPT ![p] = NoHash]
    /\ phase' = [phase EXCEPT ![p] = "try"]
    /\ aborted' = [aborted EXCEPT ![p] = byException]
    /\ feed' = feed

-----------------------------------------------------------------------------
\* Mutant: a state file that does not parse ends the run at once.
StartUnlessCorrupt(p, names) ==
    /\ pc[p] = "idle"
    /\ IF file.kind \in {"empty", "torn"}
       THEN aborted' = [aborted EXCEPT ![p] = TRUE] /\ UNCHANGED <<stateVars, pc, todo>>
       ELSE /\ Load(p)
            /\ Goto(p, "fetch")
            /\ todo' = [todo EXCEPT ![p] = names]
            /\ aborted' = [aborted EXCEPT ![p] = FALSE]
    /\ UNCHANGED <<feed, graph, got, phase>>

(* run_ingest_cmd: pick the names, load the state file, enter the loop.    *)
Start(p, names) ==
    /\ pc[p] = "idle"
    /\ Load(p)
    /\ Goto(p, "fetch")
    /\ todo' = [todo EXCEPT ![p] = names]
    /\ aborted' = [aborted EXCEPT ![p] = FALSE]
    /\ UNCHANGED <<feed, graph, got, phase>>

\* Mutant: a source that has any digest on record is skipped.
FetchUnchangedOnceIngested(p) ==
    /\ pc[p] = "fetch"
    /\ LastDigest(p) # NoHash
    /\ RecordOk(p, LastDigest(p))
    /\ graph' = graph

(* The strategies _feed_ingest and _otx_ingest up to the digest test.      *)
FetchUnchanged(p) ==
    /\ pc[p] = "fetch"
    /\ feed[Cur(p)] = LastDigest(p)
    /\ RecordOk(p, feed[Cur(p)])
    /\ graph' = graph

\* Mutant: the outcome enters the copy before the payload enters the graph.
FetchNewRecordsFirst(p) ==
    /\ pc[p] = "fetch"
    /\ feed[Cur(p)] # LastDigest(p)
    /\ Put(p, Cur(p), OkEntry(feed[Cur(p)]))
    /\ got' = [got EXCEPT ![p] = feed[Cur(p)]]
    /\ Goto(p, "write")
    /\ UNCHANGED <<feed, graph, todo, phase, aborted>>

\* Mutant: a source whose last run failed is not ingested again.
FetchNewUnlessFailed(p) ==
    /\ pc[p] = "fetch"
    /\ feed[Cur(p)] # LastDigest(p)
    /\ mem[p][Cur(p)].status # "error"
    /\ got' = [got EXCEPT ![p] = feed[Cur(p)]]
    /\ Goto(p, "write")
    /\ UNCHANGED <<stateVars, feed, graph, todo, phase, aborted>>

FetchNew(p) ==
    /\ pc[p] = "fetch"
    /\ feed[Cur(p)] # LastDigest(p)
    /\ got' = [got EXCEPT ![p] = feed[Cur(p)]]
    /\ Goto(p, "write")
    /\ UNCHANGED <<stateVars, feed, graph, todo, phase, aborted>>

(* The connector raises: network, HTTP status or normalisation error.      *)
FetchRaises(p) ==
    /\ "fetch" \in Faults
    /\ pc[p] = "fetch"
    /\ RecordError(p)
    /\ graph' = graph

(* ingest_feed / ingest_otx_payload return; then state.record(ok).         *)
IngestWrites(p) ==
    /\ pc[p] = "write"
    /\ graph' = graph \cup got[p]
    /\ RecordOk(p, got[p])

\* Mutant: the error record carries the digest of the payload that failed.
IngestRaisesKeepsDigest(p) ==
    /\ "graph" \in Faults
    /\ pc[p] = "write"
    /\ \E committed \in SUBSET got[p] : graph' = graph \cup committed
    /\ Record(p, ErrorEntryKeepsDigest(got[p]), "except")

(* They raise after committing only some of the facts.                     *)
IngestRaises(p) ==
    /\ "graph" \in Faults
    /\ pc[p] = "write"
    /\ \E committed \in SUBSET got[p] : graph' = graph \cup committed
    /\ RecordError(p)

WriteTextOpens(p) ==
    /\ pc[p] = "open"
    /\ OpenTmp(p)
    /\ Goto(p, "flush")
    /\ UNCHANGED <<feed, graph, todo, got, phase, aborted>>

WriteTextFlushes(p) ==
    /\ pc[p] = "flush"
    /\ FlushTmp(p)
    /\ Goto(p, "replace")
    /\ UNCHANGED <<feed, graph, todo, got, phase, aborted>>

\* Mutant: the loop does not notice that it is past the last name.
OsReplacesNoEnd(p) ==
    /\ pc[p] = "replace"
    /\ ReplaceFile
    /\ todo' = [todo EXCEPT ![p] = Tail(@)]
    /\ Goto(p, "fetch")
    /\ UNCHANGED <<mem, ignored, feed, graph, got, phase, aborted>>

\* Mutant: a source that failed is retried until it succeeds.
OsReplacesRetries(p) ==
    /\ pc[p] = "replace"
    /\ ReplaceFile
    /\ todo' = [todo EXCEPT ![p] = IF phase[p] = "except" THEN @ ELSE Tail(@)]
    /\ IF phase[p] = "try" /\ Tail(todo[p]) = <<>>
       THEN Exit(p, FALSE)
       ELSE Goto(p, "fetch") /\ UNCHANGED <<mem, ignored, feed, got, phase, aborted>>
    /\ graph' = graph

(* os.replace succeeds, record() returns: next name, or the run is over.   *)
OsReplaces(p) ==
    /\ pc[p] = "replace"
    /\ ReplaceFile
    /\ todo' = [todo EXCEPT ![p] = Tail(@)]
    /\ IF Tail(todo[p]) = <<>>
       THEN Exit(p, FALSE)
       ELSE /\ Goto(p, "fetch")
            /\ phase' = [phase EXCEPT ![p] = "try"]
            /\ UNCHANGED <<mem, ignored, feed, got, aborted>>
    /\ graph' = graph

(* record() raises.  In the try block the exception becomes the source's   *)
(* error record, although the payload is in the graph; in the except block *)
(* nothing catches it.                                                     *)
RecordRaises(p) ==
    \/ /\ phase[p] = "try"
       /\ mem' = [mem EXCEPT ![p][Cur(p)] = ErrorEntry]
       /\ phase' = [phase EXCEPT ![p] = "except"]
       /\ Goto(p, "open")
       /\ UNCHANGED <<ignored, feed, graph, todo, got, aborted>>
    \/ /\ phase[p] = "except"
       /\ Exit(p, TRUE)
       /\ UNCHANGED <<graph, todo>>

(* os.replace finds no temporary file: another process has renamed it.     *)
ReplaceFindsNoTmp(p) ==
    /\ pc[p] = "replace"
    /\ tmp.kind = "absent"
    /\ RecordRaises(p)
    /\ UNCHANGED <<file, tmp, fd>>

(* An OSError from mkdir, write_text or os.replace (disk full, locked file *)
(* on Windows, permissions).                                               *)
DiskRaises(p) ==
    /\ "disk" \in Faults
    /\ pc[p] \in {"open", "flush", "replace"}
    /\ AbandonWrite(p)
    /\ RecordRaises(p)

(* The process dies; what it was committing may be in the graph.           *)
Crash(p) ==
    /\ "crash" \in Faults
    /\ pc[p] # "idle"
    /\ AbandonWrite(p)
    /\ \E committed \in SUBSET (IF pc[p] = "write" THEN got[p] ELSE {}) :
          graph' = graph \cup committed
    /\ todo' = [todo EXCEPT ![p] = <<>>]
    /\ Exit(p, FALSE)

(* The remote source publishes something else.                             *)
FeedChanges(s, payload) ==
    /\ payload # feed[s]
    /\ feed' = [feed EXCEPT ![s] = payload]
    /\ UNCHANGED <<stateVars, graph, pc, todo, got, phase, aborted>>

RunStep(p) ==
    \/ FetchUnchanged(p)
    \/ FetchNew(p)
    \/ FetchRaises(p)
    \/ IngestWrites(p)
    \/ IngestRaises(p)
    \/ WriteTextOpens(p)
    \/ WriteTextFlushes(p)
    \/ OsReplaces(p)
    \/ ReplaceFindsNoTmp(p)
    \/ DiskRaises(p)

Next ==
    \/ \E p \in Procs, names \in Selections : Start(p, names)
    \/ \E p \in Procs : RunStep(p)
    \/ \E p \in Procs : Crash(p)
    \/ \E s \in Sources, payload \in Payloads : FeedChanges(s, payload)

Spec == Init /\ [][Next]_vars

(* A process that runs keeps running, and cron keeps starting runs.        *)
RunFairness == \A p \in Procs : WF_vars(RunStep(p))

CronFairness == WF_vars(\E p \in Procs, names \in Selections : Start(p, names))

(* A fetch, a database write and the write of an "ok" record that are      *)
(* attempted again and again succeed again and again, for every source.    *)
ServiceFairness ==
    \A p \in Procs, s \in Sources :
        /\ SF_vars((FetchNew(p) \/ FetchUnchanged(p)) /\ Cur(p) = s)
        /\ SF_vars(IngestWrites(p) /\ Cur(p) = s)
        /\ SF_vars(WriteTextOpens(p) /\ phase[p] = "try" /\ Cur(p) = s)
        /\ SF_vars(WriteTextFlushes(p) /\ phase[p] = "try" /\ Cur(p) = s)
        /\ SF_vars(OsReplaces(p) /\ phase[p] = "try" /\ Cur(p) = s)

FairSpec == Spec /\ RunFairness /\ CronFairness
ServedSpec == FairSpec /\ ServiceFairness

-----------------------------------------------------------------------------
(* Properties.                                                             *)

(* A digest that the state file or a running process holds for a source is *)
(* that of a payload every fact of which is in the graph, so the digest    *)
(* test of _feed_ingest / _otx_ingest never skips facts the graph lacks,   *)
(* whatever crashed, raised half way or overlapped before.                 *)
IngestedIn(d, facts) ==
    \A s \in Sources : d[s].hash # NoHash => d[s].hash \subseteq facts

DedupSound ==
    /\ IngestedIn(Read(file), graph)
    /\ \A p \in Procs : IngestedIn(mem[p], graph)

(* A reader of the state file never meets a truncated or a mixed document  *)
(* (IngestState's docstring and the comment in _write).                    *)
NoHalfWrittenFile == file.kind \in {"absent", "doc"}

(* One source's failure does not keep the run from the sources after it    *)
(* (run_ingest's docstring).                                               *)
NoSourceAbandoned == \A p \in Procs : aborted[p] => Tail(todo[p]) = <<>>

(* Every run ends, whatever raises and whoever overlaps with it: recording *)
(* an outcome is never retried for ever.                                   *)
RunTerminates == \A p \in Procs : pc[p] # "idle" ~> pc[p] = "idle"

(* A state file that does not parse is replaced by one that does once runs *)
(* stop overlapping (_read: "start fresh and let the next successful run   *)
(* overwrite it").                                                         *)
Quiet(p) == \A q \in Procs \ {p} : pc[q] = "idle"

StateFileHeals ==
    (\E p \in Procs : <>[]Quiet(p))
        => (file.kind \in {"empty", "torn"} ~> file.kind = "doc")

(* Over and over everything that a source publishes is in the graph:       *)
(* however often it changes, and at the latest once it stops changing, no  *)
(* payload is kept out by the digest of another one or by an error.        *)
FeedReachesGraph == \A s \in Sources : []<>(feed[s] \subseteq graph)

(* An error does not stick: a source run over and over is shown "ok" over  *)
(* and over.                                                               *)
SourceRecovers == \A s \in Sources : []<>(Read(file)[s].status = "ok")

=============================================================================
