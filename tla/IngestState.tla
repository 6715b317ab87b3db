---------------------------- MODULE IngestState ----------------------------
(***************************************************************************)
(* The ingestion state file (ingest_state.py): one JSON document with the  *)
(* last outcome of every source, written by `threatweave ingest` processes *)
(* and read by the API and by the next run.                                *)
(*                                                                         *)
(* Every process holds a copy of the document, loaded once when it starts. *)
(* record() changes one entry of that copy and writes the whole copy back: *)
(* write_text to a sibling temporary file (open with truncation, then the  *)
(* content, which fits one buffered write), then os.replace onto the       *)
(* target.  The temporary file has ONE name, whatever the process, so the  *)
(* model keeps the two directory entries (file and tmp) and, for each      *)
(* process, where the inode it has open for writing is now.                *)
(*                                                                         *)
(* This module has the state and the operations; IngestRun calls them.     *)
(***************************************************************************)
CONSTANTS Procs,        \* operating system processes running the CLI
          Sources,      \* names of the registered sources
          Payloads,     \* what a source can report; also its own digest
          NoHash,       \* payload_hash is None
          Faults        \* which faults the environment may produce

\* sha256 over a canonical serialisation: equal digests mean equal payloads,
\* so a digest is represented by the payload it was computed from.
ASSUME NoHashAssumption == NoHash \notin Payloads

\* "read": an existing state file may be unreadable when it is loaded;
\* "disk": writing or renaming it may fail.  The others are IngestRun's.
ASSUME FaultsAssumption ==
    Faults \subseteq {"fetch", "graph", "read", "disk", "crash"}

VARIABLES file,         \* the directory entry of the state file
          tmp,          \* the directory entry of its ".tmp" sibling
          mem,          \* mem[p]: the copy self._data of process p
          fd,           \* fd[p]: where the inode p is writing to is linked
          ignored       \* ignored[p]: p has logged that it ignores the file

stateVars == <<file, tmp, mem, fd, ignored>>

-----------------------------------------------------------------------------
(* SourceState, without the timestamps and the counters: status and hash.  *)
SourceState == [status : {"never", "ok", "error"}, hash : Payloads \cup {NoHash}]

(* IngestStateData: a source the dictionary lacks has the entry NeverRun.  *)
Docs == [Sources -> SourceState]
NeverRun == [status |-> "never", hash |-> NoHash]
EmptyDoc == [s \in Sources |-> NeverRun]

OkEntry(digest) == [status |-> "ok", hash |-> digest]
ErrorEntry      == [status |-> "error", hash |-> NoHash]
\* Mutant: the error record keeps the digest of the payload that failed.
ErrorEntryKeepsDigest(digest) == [status |-> "error", hash |-> digest]

(* What a directory entry can lead to.  "empty" is a file just truncated,  *)
(* "torn" one whose bytes parse as no document.                            *)
Contents == [kind : {"absent", "empty", "torn", "doc"}, doc : Docs]
Absent  == [kind |-> "absent", doc |-> EmptyDoc]
Empty   == [kind |-> "empty",  doc |-> EmptyDoc]
Torn    == [kind |-> "torn",   doc |-> EmptyDoc]
Full(d) == [kind |-> "doc",    doc |-> d]

(* What the bytes parse to: no file, or a broken one, is an empty document. *)
Read(c) == IF c.kind = "doc" THEN c.doc ELSE EmptyDoc

IngestStateTypeOK ==
    /\ file \in Contents
    /\ tmp \in Contents
    /\ mem \in [Procs -> Docs]
    /\ fd \in [Procs -> {"none", "tmp", "file", "gone"}]
    /\ ignored \in [Procs -> BOOLEAN]

IngestStateInit ==
    /\ file = Absent
    /\ tmp = Absent
    /\ mem = [p \in Procs |-> EmptyDoc]
    /\ fd = [p \in Procs |-> "none"]
    /\ ignored = [p \in Procs |-> FALSE]

-----------------------------------------------------------------------------
\* Mutant: the process silently starts from an empty document.
LoadNothing(p) ==
    /\ mem' = [mem EXCEPT ![p] = EmptyDoc]
    /\ ignored' = [ignored EXCEPT ![p] = FALSE]
    /\ UNCHANGED <<file, tmp, fd>>

(* IngestState(path): the process loads its copy.  A file that is there    *)
(* but does not parse (ValueError), or cannot be read at the moment        *)
(* (OSError), is logged and ignored: the process starts from an empty      *)
(* document, and its next record() replaces the file by it.                *)
Load(p) ==
    /\ \/ /\ file.kind \in {"absent", "doc"}
          /\ mem' = [mem EXCEPT ![p] = Read(file)]
          /\ ignored' = [ignored EXCEPT ![p] = FALSE]
       \/ /\ file.kind # "absent"
          /\ file.kind = "doc" => "read" \in Faults
          /\ mem' = [mem EXCEPT ![p] = EmptyDoc]
          /\ ignored' = [ignored EXCEPT ![p] = TRUE]
    /\ UNCHANGED <<file, tmp, fd>>

(* record(): the entry of one source changes in the copy; persisting it is *)
(* OpenTmp, FlushTmp and ReplaceFile, in this order.                       *)
Put(p, s, entry) ==
    /\ mem' = [mem EXCEPT ![p][s] = entry]
    /\ UNCHANGED <<file, tmp, fd, ignored>>

\* Mutant: the document is written over the target itself.
OpenInPlace(p) ==
    /\ file' = Empty
    /\ fd' = [fd EXCEPT ![p] = "file"]
    /\ UNCHANGED <<tmp, mem, ignored>>

(* write_text, open(..., "w"): creates the temporary file or truncates the *)
(* one that is there, also when another process is writing to it.          *)
OpenTmp(p) ==
    /\ tmp' = Empty
    /\ fd' = [fd EXCEPT ![p] = "tmp"]
    /\ UNCHANGED <<file, mem, ignored>>

(* What an inode holds after p writes its document from offset 0.  Bytes   *)
(* another process wrote there first remain beyond the end of a shorter    *)
(* document, and then nothing parses.                                      *)
Written(old, d) == IF old.kind = "empty" THEN {Full(d)} ELSE {Full(d), Torn}

(* write_text, the content and close.  The inode may meanwhile be the      *)
(* target (another process renamed it) or have no name any more.           *)
FlushTmp(p) ==
    /\ tmp' \in IF fd[p] = "tmp" THEN Written(tmp, mem[p]) ELSE {tmp}
    /\ file' \in IF fd[p] = "file" THEN Written(file, mem[p]) ELSE {file}
    /\ fd' = [fd EXCEPT ![p] = "none"]
    /\ UNCHANGED <<mem, ignored>>

(* Where the inode of q is linked after a rename of tmp onto file.         *)
Relinked(where) ==
    CASE where = "tmp"  -> "file"
      [] where = "file" -> "gone"
      [] OTHER          -> where

(* os.replace: the temporary file becomes the state file.                  *)
ReplaceFile ==
    /\ tmp.kind # "absent"
    /\ file' = tmp
    /\ tmp' = Absent
    /\ fd' = [q \in Procs |-> Relinked(fd[q])]

(* The process is over and its copy with it.                               *)
Forget(p) ==
    /\ mem' = [mem EXCEPT ![p] = EmptyDoc]
    /\ ignored' = [ignored EXCEPT ![p] = FALSE]

(* The write stops with p's document unfinished (OSError, or p dies): what *)
(* it had open is closed, as it was or cut short.                          *)
AbandonWrite(p) ==
    /\ tmp' \in IF fd[p] = "tmp" THEN {tmp, Torn} ELSE {tmp}
    /\ file' \in IF fd[p] = "file" THEN {file, Torn} ELSE {file}
    /\ fd' = [fd EXCEPT ![p] = "none"]

=============================================================================
