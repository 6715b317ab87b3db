---------------------------- MODULE StatusBoard ----------------------------
(***************************************************************************)
(* What the state file promises its readers, GET /api/ingest/status and    *)
(* the digest test of the next run: one durable entry per source, changed  *)
(* one source at a time and as a whole, where an entry that carries a      *)
(* digest vouches for a payload whose facts are all in the graph.          *)
(*                                                                         *)
(* The one exception is announced: a run that could not read the file has  *)
(* logged "ignoring unreadable ingest state" and starts fresh, so what it  *)
(* records first may leave every other source as one that never ran.       *)
(*                                                                         *)
(* IngestRun implements it when runs do not overlap (IngestRunBoard).      *)
(***************************************************************************)
CONSTANTS Sources, Facts, Payloads, NoHash

VARIABLES board,        \* board[s]: the entry of source s
          graph,        \* the facts the graph holds
          ignoring      \* a run that has logged that it ignores the file is on

boardVars == <<board, graph, ignoring>>

NeverRun == [status |-> "never", hash |-> NoHash]
Blank == [s \in Sources |-> NeverRun]

Init ==
    /\ board = Blank
    /\ graph = {}
    /\ ignoring = FALSE

(* Facts are committed before anything is recorded about them.             *)
Commit ==
    /\ \E committed \in SUBSET Facts : graph' = graph \cup committed
    /\ board' = board

(* One entry changes, on the board or, if a run is ignoring it, on a blank. *)
Record(s, entry) ==
    /\ \/ board' = [board EXCEPT ![s] = entry]
       \/ ignoring /\ board' = [Blank EXCEPT ![s] = entry]
    /\ graph' = graph

RecordOk(s, payload) ==
    /\ payload \subseteq graph
    /\ Record(s, [status |-> "ok", hash |-> payload])

RecordError(s) == Record(s, [status |-> "error", hash |-> NoHash])

(* Which runs are on, and what they have logged, is theirs to choose.      *)
Next ==
    /\ \/ Commit
       \/ \E s \in Sources, payload \in Payloads : RecordOk(s, payload)
       \/ \E s \in Sources : RecordError(s)
    /\ ignoring' \in BOOLEAN

Spec == Init /\ [][Next]_boardVars

=============================================================================
