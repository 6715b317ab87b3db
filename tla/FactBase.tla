------------------------------ MODULE FactBase ------------------------------
(***************************************************************************)
(* What ingestion promises: a call commits facts of its own job only, in   *)
(* any portions, and when it returns they are all there, but for the facts *)
(* a backend can lose without anybody noticing (Fragile).  IngestRun rests *)
(* on this: a call that raises commits some subset of its payload's facts, *)
(* and only one that returns is recorded with a digest.                    *)
(***************************************************************************)
CONSTANTS Procs, Jobs, NoJob, Facts(_), Fragile

VARIABLES known,        \* the facts committed
          task,         \* the job a process works on or last worked on
          result        \* "idle", "busy", "done" or "error"

vars == <<known, task, result>>

Init ==
    /\ known = {}
    /\ task = [p \in Procs |-> NoJob]
    /\ result = [p \in Procs |-> "idle"]

Take(p, j) ==
    /\ result[p] # "busy"
    /\ task' = [task EXCEPT ![p] = j]
    /\ result' = [result EXCEPT ![p] = "busy"]
    /\ UNCHANGED known

Commit(p) ==
    /\ result[p] = "busy"
    /\ known \subseteq known'
    /\ known' \subseteq known \cup Facts(task[p])
    /\ UNCHANGED <<task, result>>

Return(p) ==
    /\ result[p] = "busy"
    /\ Facts(task[p]) \subseteq known \cup Fragile
    /\ result' = [result EXCEPT ![p] = "done"]
    /\ UNCHANGED <<known, task>>

Raise(p) ==
    /\ result[p] = "busy"
    /\ result' = [result EXCEPT ![p] = "error"]
    /\ UNCHANGED <<known, task>>

(* Only a graph in memory loses facts, and its process with it.            *)
Lose ==
    /\ known' = {}
    /\ result' = [p \in Procs |-> "idle"]
    /\ UNCHANGED task

Next ==
    \/ \E p \in Procs :
          \/ \E j \in Jobs : Take(p, j)
          \/ Commit(p)
          \/ Return(p)
          \/ Raise(p)
    \/ Lose

Spec == Init /\ [][Next]_vars
=============================================================================
