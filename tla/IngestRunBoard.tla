-------------------------- MODULE IngestRunBoard --------------------------
(***************************************************************************)
(* IngestRun as an implementation of StatusBoard: the board is what the    *)
(* bytes of the state file parse to, at every moment, and a run ignores it *)
(* from the warning it logs when it loads its copy until it ends.          *)
(***************************************************************************)
EXTENDS IngestRun

Board == INSTANCE StatusBoard WITH
             board <- Read(file),
             ignoring <- \E p \in Procs : ignored[p]

(* When runs do not overlap, the API and the next run see one atomic entry *)
(* per source, whatever raises and whenever a run dies: a torn file, an    *)
(* entry rolled back to what an earlier run recorded, an "ok" for facts    *)
(* the graph lacks, or the entries of the other sources wiped by a run     *)
(* that has not logged that it starts fresh, would each be a step          *)
(* StatusBoard does not have.                                              *)
ImplementsBoard == Board!Spec

=============================================================================
