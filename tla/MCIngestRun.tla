---------------------------- MODULE MCIngestRun ----------------------------
(***************************************************************************)
(* Instances of IngestRun for TLC.  Two sources and two facts suffice for  *)
(* every case: sources that share a fact, payloads that overlap, a commit  *)
(* of part of a payload, a run of both sources and a run of one.           *)
(***************************************************************************)
EXTENDS IngestRunBoard

CONSTANTS p1, p2, urlhaus, otx, f1, f2

OneProc == {p1}
TwoProcs == {p1, p2}
TwoSources == {urlhaus, otx}
TwoFacts == {f1, f2}

\* One payload is part of the other.
NestedPayloads == {{f1}, {f1, f2}}
OnePayload == {{f1}}

\* --all, and --source with one name.
All == {<<otx, urlhaus>>}
Each == {<<otx>>, <<urlhaus>>}

NoFaults == {}
AllFaults == {"fetch", "graph", "read", "disk", "crash"}
FetchFaults == {"fetch"}
ReadFaults == {"fetch", "read"}
=============================================================================
