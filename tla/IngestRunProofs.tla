-------------------------- MODULE IngestRunProofs --------------------------
(***************************************************************************)
(* IngestRun, for every set of processes, sources, payloads, selections    *)
(* and faults: the state stays well typed, and no recorded digest vouches  *)
(* for facts the graph lacks.  When runs do not overlap, the state file is *)
(* a StatusBoard as well: readers never meet a half-written file, and      *)
(* every change is one entry of one source.                                *)
(***************************************************************************)
EXTENDS IngestRunBoard, TLAPS, SequenceTheorems

-----------------------------------------------------------------------------
(* Types of the state file's vocabulary.                                   *)

LEMMA DocTypes ==
    /\ EmptyDoc \in Docs
    /\ Absent \in Contents /\ Empty \in Contents /\ Torn \in Contents
    /\ ErrorEntry \in SourceState
    /\ \A payload \in Payloads : OkEntry(payload) \in SourceState
  BY DEF EmptyDoc, NeverRun, Docs, SourceState, Absent, Empty, Torn, Contents,
         ErrorEntry, OkEntry

LEMMA FullType ==
    ASSUME NEW d \in Docs PROVE Full(d) \in Contents
  BY DEF Full, Contents

LEMMA ReadType ==
    ASSUME NEW c \in Contents PROVE Read(c) \in Docs
  BY DocTypes DEF Read, Contents

LEMMA WrittenType ==
    ASSUME NEW c, NEW d \in Docs PROVE Written(c, d) \subseteq Contents
  BY DocTypes, FullType DEF Written

(* The steps every write of the state file is made of keep it well typed.  *)
LEMMA AbandonWriteType ==
    ASSUME IngestStateTypeOK, NEW p \in Procs, AbandonWrite(p)
    PROVE  file' \in Contents /\ tmp' \in Contents
           /\ fd' \in [Procs -> {"none", "tmp", "file", "gone"}]
  BY DocTypes DEF IngestStateTypeOK, AbandonWrite

LEMMA FlushTmpType ==
    ASSUME IngestStateTypeOK, NEW p \in Procs, FlushTmp(p)
    PROVE  IngestStateTypeOK'
  <1>1. mem[p] \in Docs
    BY DEF IngestStateTypeOK
  <1>2. Written(tmp, mem[p]) \subseteq Contents /\ Written(file, mem[p]) \subseteq Contents
    BY <1>1, WrittenType
  <1>. QED
    BY <1>2 DEF IngestStateTypeOK, FlushTmp

LEMMA ReplaceFileType ==
    ASSUME IngestStateTypeOK, ReplaceFile
    PROVE  file' \in Contents /\ tmp' \in Contents
           /\ fd' \in [Procs -> {"none", "tmp", "file", "gone"}]
  <1>1. \A q \in Procs : Relinked(fd[q]) \in {"none", "tmp", "file", "gone"}
    BY DEF IngestStateTypeOK, Relinked
  <1>. QED
    BY <1>1, DocTypes DEF IngestStateTypeOK, ReplaceFile

LEMMA PutType ==
    ASSUME IngestStateTypeOK, NEW p \in Procs, NEW s \in Sources,
           NEW entry \in SourceState
    PROVE  [mem EXCEPT ![p][s] = entry] \in [Procs -> Docs]
  BY DEF IngestStateTypeOK, Docs

LEMMA ForgetType ==
    ASSUME IngestStateTypeOK, NEW p \in Procs, Forget(p)
    PROVE  mem' \in [Procs -> Docs] /\ ignored' \in [Procs -> BOOLEAN]
  BY DocTypes DEF IngestStateTypeOK, Forget

-----------------------------------------------------------------------------
(* Type correctness.                                                       *)

LEMMA TodoTypes ==
    ASSUME TypeOK, NEW p \in Procs, pc[p] # "idle"
    PROVE  /\ Cur(p) \in Sources
           /\ Tail(todo[p]) \in Seq(Sources)
  <1>1. todo[p] \in Seq(Sources) /\ todo[p] # <<>>
    BY DEF TypeOK
  <1>. QED
    BY <1>1, HeadTailProperties DEF Cur

LEMMA InitTypeOK == Init => TypeOK
  BY DocTypes DEF Init, TypeOK, IngestStateInit, IngestStateTypeOK

LEMMA RecordTypeOK ==
    ASSUME TypeOK, NEW p \in Procs, pc[p] # "idle",
           NEW entry \in SourceState, NEW block \in {"try", "except"},
           Record(p, entry, block), graph' \in SUBSET Facts
    PROVE  TypeOK'
  <1>1. mem' \in [Procs -> Docs]
    BY TodoTypes, PutType DEF TypeOK, Record, Put
  <1>2. IngestStateTypeOK'
    BY <1>1 DEF TypeOK, IngestStateTypeOK, Record, Put
  <1>. QED
    BY <1>2 DEF TypeOK, Record, Goto

LEMMA ExitTypeOK ==
    ASSUME TypeOK, NEW p \in Procs, NEW byException \in BOOLEAN,
           Exit(p, byException),
           file' \in Contents, tmp' \in Contents,
           fd' \in [Procs -> {"none", "tmp", "file", "gone"}],
           todo' \in [Procs -> Seq(Sources)],
           \A q \in Procs \ {p} : todo'[q] = todo[q],
           graph' \in SUBSET Facts
    PROVE  TypeOK'
  <1>1. IngestStateTypeOK'
    BY ForgetType DEF TypeOK, IngestStateTypeOK, Exit
  <1>. QED
    BY <1>1 DEF TypeOK, Exit, Goto

LEMMA RecordRaisesTypeOK ==
    ASSUME TypeOK, NEW p \in Procs, pc[p] # "idle", RecordRaises(p),
           file' \in Contents, tmp' \in Contents,
           fd' \in [Procs -> {"none", "tmp", "file", "gone"}]
    PROVE  TypeOK'
  <1>1. CASE phase[p] = "try"
    <2>1. mem' \in [Procs -> Docs]
      <3>1. mem' = [mem EXCEPT ![p][Cur(p)] = ErrorEntry]
        BY <1>1 DEF RecordRaises
      <3>. QED
        BY <3>1, TodoTypes, PutType, DocTypes DEF TypeOK
    <2>2. IngestStateTypeOK'
      BY <1>1, <2>1 DEF TypeOK, RecordRaises, IngestStateTypeOK
    <2>. QED
      BY <1>1, <2>2 DEF TypeOK, RecordRaises, Goto
  <1>2. CASE phase[p] = "except"
    <2>1. Exit(p, TRUE) /\ UNCHANGED <<graph, todo>>
      BY <1>2 DEF RecordRaises
    <2>2. graph' \in SUBSET Facts /\ todo' \in [Procs -> Seq(Sources)]
          /\ \A q \in Procs \ {p} : todo'[q] = todo[q]
      BY <2>1 DEF TypeOK
    <2>. QED
      BY <2>1, <2>2, ExitTypeOK
  <1>. QED
    BY <1>1, <1>2 DEF TypeOK

LEMMA NextTypeOK == TypeOK /\ [Next]_vars => TypeOK'
  <1>. SUFFICES ASSUME TypeOK, [Next]_vars PROVE TypeOK'
    OBVIOUS
  <1>1. ASSUME NEW p \in Procs, NEW names \in Selections, Start(p, names)
        PROVE  TypeOK'
    <2>1. names \in Seq(Sources) /\ names # <<>>
      BY SelectionsAssumption
    <2>2. IngestStateTypeOK'
      <3>1. Read(file) \in Docs /\ EmptyDoc \in Docs
        BY ReadType, DocTypes DEF TypeOK, IngestStateTypeOK
      <3>2. /\ UNCHANGED <<file, tmp, fd>>
            /\ \/ mem' = [mem EXCEPT ![p] = Read(file)]
               \/ mem' = [mem EXCEPT ![p] = EmptyDoc]
            /\ \/ ignored' = [ignored EXCEPT ![p] = FALSE]
               \/ ignored' = [ignored EXCEPT ![p] = TRUE]
        BY <1>1 DEF Start, Load
      <3>3. ignored' \in [Procs -> BOOLEAN]
        BY <3>2, Zenon DEF TypeOK, IngestStateTypeOK
      <3>. QED
        BY <3>1, <3>2, <3>3 DEF TypeOK, IngestStateTypeOK
    <2>. QED
      BY <1>1, <2>1, <2>2 DEF TypeOK, Start, Goto
  <1>2. ASSUME NEW p \in Procs, FetchUnchanged(p) PROVE TypeOK'
    <2>1. feed[Cur(p)] \in Payloads
      BY <1>2, TodoTypes DEF TypeOK, FetchUnchanged
    <2>. QED
      BY <1>2, <2>1, DocTypes, RecordTypeOK DEF TypeOK, FetchUnchanged, RecordOk
  <1>3. ASSUME NEW p \in Procs, FetchNew(p) PROVE TypeOK'
    <2>1. feed[Cur(p)] \in Payloads
      BY <1>3, TodoTypes DEF TypeOK, FetchNew
    <2>. QED
      BY <1>3, <2>1 DEF TypeOK, IngestStateTypeOK, FetchNew, Goto, stateVars
  <1>4. ASSUME NEW p \in Procs, FetchRaises(p) PROVE TypeOK'
    BY <1>4, DocTypes, RecordTypeOK DEF TypeOK, FetchRaises, RecordError
  <1>5. ASSUME NEW p \in Procs, IngestWrites(p) PROVE TypeOK'
    <2>1. got[p] \in Payloads /\ got[p] \subseteq Facts
      BY <1>5, PayloadsAssumption DEF TypeOK, IngestWrites
    <2>2. graph' \in SUBSET Facts
      BY <1>5, <2>1 DEF TypeOK, IngestWrites
    <2>. QED
      BY <1>5, <2>1, <2>2, DocTypes, RecordTypeOK DEF IngestWrites, RecordOk
  <1>6. ASSUME NEW p \in Procs, IngestRaises(p) PROVE TypeOK'
    <2>1. got[p] \subseteq Facts
      BY <1>6, PayloadsAssumption DEF TypeOK, IngestRaises
    <2>2. graph' \in SUBSET Facts
      BY <1>6, <2>1 DEF TypeOK, IngestRaises
    <2>. QED
      BY <1>6, <2>2, DocTypes, RecordTypeOK DEF IngestRaises, RecordError
  <1>7. ASSUME NEW p \in Procs, WriteTextOpens(p) PROVE TypeOK'
    BY <1>7, DocTypes DEF TypeOK, IngestStateTypeOK, WriteTextOpens, OpenTmp, Goto
  <1>8. ASSUME NEW p \in Procs, WriteTextFlushes(p) PROVE TypeOK'
    BY <1>8, FlushTmpType DEF TypeOK, WriteTextFlushes, Goto
  <1>9. ASSUME NEW p \in Procs, OsReplaces(p) PROVE TypeOK'
    <2>1. file' \in Contents /\ tmp' \in Contents
          /\ fd' \in [Procs -> {"none", "tmp", "file", "gone"}]
      BY <1>9, ReplaceFileType DEF TypeOK, OsReplaces
    <2>2. todo' \in [Procs -> Seq(Sources)] /\ graph' \in SUBSET Facts
          /\ todo' = [todo EXCEPT ![p] = Tail(todo[p])]
      BY <1>9, TodoTypes DEF TypeOK, OsReplaces
    <2>3. CASE Tail(todo[p]) = <<>>
      <3>1. Exit(p, FALSE)
        BY <1>9, <2>3 DEF OsReplaces
      <3>. QED
        BY <2>1, <2>2, <3>1, ExitTypeOK DEF TypeOK
    <2>4. CASE Tail(todo[p]) # <<>>
      <3>1. IngestStateTypeOK'
        BY <1>9, <2>1, <2>4 DEF TypeOK, IngestStateTypeOK, OsReplaces
      <3>. QED
        BY <1>9, <2>2, <2>4, <3>1 DEF TypeOK, OsReplaces, Goto
    <2>. QED
      BY <2>3, <2>4
  <1>10. ASSUME NEW p \in Procs, ReplaceFindsNoTmp(p) PROVE TypeOK'
    BY <1>10, RecordRaisesTypeOK DEF TypeOK, IngestStateTypeOK, ReplaceFindsNoTmp
  <1>11. ASSUME NEW p \in Procs, DiskRaises(p) PROVE TypeOK'
    <2>1. file' \in Contents /\ tmp' \in Contents
          /\ fd' \in [Procs -> {"none", "tmp", "file", "gone"}]
      BY <1>11, AbandonWriteType DEF TypeOK, DiskRaises
    <2>. QED
      BY <1>11, <2>1, RecordRaisesTypeOK DEF DiskRaises
  <1>12. ASSUME NEW p \in Procs, Crash(p) PROVE TypeOK'
    <2>1. file' \in Contents /\ tmp' \in Contents
          /\ fd' \in [Procs -> {"none", "tmp", "file", "gone"}]
      BY <1>12, AbandonWriteType DEF TypeOK, Crash
    <2>2. graph' \in SUBSET Facts
      BY <1>12, PayloadsAssumption DEF TypeOK, Crash
    <2>3. todo' = [todo EXCEPT ![p] = <<>>] /\ todo' \in [Procs -> Seq(Sources)]
      BY <1>12, EmptySeq DEF TypeOK, Crash
    <2>. QED
      BY <1>12, <2>1, <2>2, <2>3, ExitTypeOK DEF TypeOK, Crash
  <1>13. ASSUME NEW s \in Sources, NEW payload \in Payloads, FeedChanges(s, payload)
         PROVE  TypeOK'
    BY <1>13 DEF TypeOK, IngestStateTypeOK, FeedChanges, stateVars
  <1>14. CASE UNCHANGED vars
    BY <1>14 DEF TypeOK, IngestStateTypeOK, vars
  <1>. QED
    BY <1>1, <1>2, <1>3, <1>4, <1>5, <1>6, <1>7, <1>8, <1>9, <1>10, <1>11, <1>12,
       <1>13, <1>14 DEF Next, RunStep

(* Every reachable state is well typed.                                    *)
THEOREM TypeCorrect == Spec => []TypeOK
  BY InitTypeOK, NextTypeOK, PTL DEF Spec

-----------------------------------------------------------------------------
(* Soundness of the digests.  DedupSound alone is not inductive: what is   *)
(* in the temporary file becomes the state file at the next os.replace.    *)

DedupInv ==
    /\ TypeOK
    /\ DedupSound
    /\ IngestedIn(Read(tmp), graph)

(* The documents a step can copy: those in memory, in either file, and the *)
(* empty one.                                                              *)
Circulating == {Read(file), Read(tmp), EmptyDoc} \cup {mem[p] : p \in Procs}

(* A document of the next state is one that circulates now, or one of them *)
(* with a new entry whose digest, if any, is of facts in the graph by then.*)
Derived(d) ==
    \/ d \in Circulating
    \/ \E c \in Circulating, s \in Sources, entry \in SourceState :
          /\ d = [c EXCEPT ![s] = entry]
          /\ entry.hash # NoHash => entry.hash \subseteq graph'

LEMMA IngestedMonotone ==
    ASSUME NEW d, NEW g, NEW h, g \subseteq h, IngestedIn(d, g)
    PROVE  IngestedIn(d, h)
  BY DEF IngestedIn

LEMMA CirculatingIngested ==
    ASSUME DedupInv, NEW c \in Circulating
    PROVE  c \in Docs /\ IngestedIn(c, graph)
  <1>1. EmptyDoc \in Docs /\ IngestedIn(EmptyDoc, graph)
    BY DocTypes DEF EmptyDoc, NeverRun, IngestedIn
  <1>2. Read(file) \in Docs /\ Read(tmp) \in Docs
    BY ReadType DEF DedupInv, TypeOK, IngestStateTypeOK
  <1>. QED
    BY <1>1, <1>2 DEF Circulating, DedupInv, DedupSound, TypeOK, IngestStateTypeOK

LEMMA DerivedIngested ==
    ASSUME DedupInv, graph \subseteq graph', NEW d, Derived(d)
    PROVE  IngestedIn(d, graph')
  <1>1. CASE d \in Circulating
    BY <1>1, CirculatingIngested, IngestedMonotone
  <1>2. ASSUME NEW c \in Circulating, NEW s \in Sources, NEW entry \in SourceState,
               d = [c EXCEPT ![s] = entry],
               entry.hash # NoHash => entry.hash \subseteq graph'
        PROVE  IngestedIn(d, graph')
    <2>1. c \in Docs /\ IngestedIn(c, graph')
      BY CirculatingIngested, IngestedMonotone
    <2>. QED
      BY <1>2, <2>1 DEF IngestedIn, Docs
  <1>. QED
    BY <1>1, <1>2 DEF Derived

(* What a reader of either file finds after a flush, an abandoned write or *)
(* a rename is a document that circulated before.                          *)
LEMMA WrittenCirculates ==
    ASSUME NEW p \in Procs, NEW c, NEW w \in Written(c, mem[p])
    PROVE  Read(w) \in Circulating
  BY DEF Written, Full, Torn, Read, Circulating

LEMMA AbandonCirculates ==
    ASSUME NEW p \in Procs, AbandonWrite(p)
    PROVE  Read(file') \in Circulating /\ Read(tmp') \in Circulating
  <1>1. Read(Torn) = EmptyDoc
    BY DEF Read, Torn
  <1>2. file' \in {file, Torn} /\ tmp' \in {tmp, Torn}
    BY DEF AbandonWrite
  <1>. QED
    BY <1>1, <1>2 DEF Circulating

LEMMA RecordDerived ==
    ASSUME TypeOK, NEW p \in Procs, pc[p] # "idle", NEW entry \in SourceState,
           mem' = [mem EXCEPT ![p][Cur(p)] = entry],
           entry.hash # NoHash => entry.hash \subseteq graph'
    PROVE  \A q \in Procs : Derived(mem'[q])
  <1>1. Cur(p) \in Sources
    BY TodoTypes
  <1>2. mem'[p] = [mem[p] EXCEPT ![Cur(p)] = entry] /\ mem[p] \in Circulating
    BY DEF TypeOK, IngestStateTypeOK, Circulating
  <1>3. ASSUME NEW q \in Procs, q # p PROVE mem'[q] \in Circulating
    BY <1>3 DEF TypeOK, IngestStateTypeOK, Circulating
  <1>. QED
    BY <1>1, <1>2, <1>3 DEF Derived

LEMMA ForgetDerived ==
    ASSUME TypeOK, NEW p \in Procs, Forget(p)
    PROVE  \A q \in Procs : Derived(mem'[q])
  BY DEF TypeOK, IngestStateTypeOK, Forget, Circulating, Derived

LEMMA RecordRaisesDerived ==
    ASSUME TypeOK, NEW p \in Procs, pc[p] # "idle", RecordRaises(p)
    PROVE  graph' = graph /\ \A q \in Procs : Derived(mem'[q])
  <1>1. CASE phase[p] = "try"
    <2>1. mem' = [mem EXCEPT ![p][Cur(p)] = ErrorEntry] /\ graph' = graph
      BY <1>1 DEF RecordRaises
    <2>2. ErrorEntry \in SourceState /\ ErrorEntry.hash = NoHash
      BY DocTypes DEF ErrorEntry
    <2>. QED
      BY <2>1, <2>2, RecordDerived
  <1>2. CASE phase[p] = "except"
    BY <1>2, ForgetDerived DEF RecordRaises, Exit
  <1>. QED
    BY <1>1, <1>2 DEF TypeOK

(* What any step does to the graph and to the documents.                   *)
StepDerives ==
    /\ graph \subseteq graph'
    /\ Read(file') \in Circulating
    /\ Read(tmp') \in Circulating
    /\ \A q \in Procs : Derived(mem'[q])

LEMMA StepCirculates ==
    ASSUME DedupInv, [Next]_vars
    PROVE  StepDerives
  <1>. USE DEF StepDerives
  <1>0. TypeOK
    BY DEF DedupInv
  <1>a. Read(file) \in Circulating /\ Read(tmp) \in Circulating
        /\ \A q \in Procs : Derived(mem[q])
    BY DEF Circulating, Derived
  <1>1. ASSUME NEW p \in Procs, NEW names \in Selections, Start(p, names)
        PROVE  StepDerives
    BY <1>0, <1>1, <1>a DEF Start, Load, TypeOK, IngestStateTypeOK, Circulating, Derived
  <1>2. ASSUME NEW p \in Procs, FetchUnchanged(p) PROVE StepDerives
    <2>1. Cur(p) \in Sources /\ feed[Cur(p)] \in Payloads
      BY <1>0, <1>2, TodoTypes DEF TypeOK, FetchUnchanged
    <2>2. feed[Cur(p)] \subseteq graph
      BY <1>2, <2>1, NoHashAssumption
         DEF FetchUnchanged, LastDigest, DedupInv, DedupSound, IngestedIn
    <2>3. OkEntry(feed[Cur(p)]) \in SourceState
          /\ OkEntry(feed[Cur(p)]).hash \subseteq graph
      BY <2>1, <2>2, DocTypes DEF OkEntry
    <2>4. graph' = graph /\ file' = file /\ tmp' = tmp /\ pc[p] # "idle"
          /\ mem' = [mem EXCEPT ![p][Cur(p)] = OkEntry(feed[Cur(p)])]
      BY <1>2 DEF FetchUnchanged, RecordOk, Record, Put
    <2>. QED
      BY <1>0, <1>a, <2>3, <2>4, RecordDerived
  <1>3. ASSUME NEW p \in Procs, FetchNew(p) PROVE StepDerives
    BY <1>3, <1>a DEF FetchNew, stateVars
  <1>4. ASSUME NEW p \in Procs, pc[p] # "idle", RecordError(p), graph \subseteq graph'
        PROVE  StepDerives
    <2>1. ErrorEntry \in SourceState /\ ErrorEntry.hash = NoHash
      BY DocTypes DEF ErrorEntry
    <2>2. file' = file /\ tmp' = tmp
          /\ mem' = [mem EXCEPT ![p][Cur(p)] = ErrorEntry]
      BY <1>4 DEF RecordError, Record, Put
    <2>. QED
      BY <1>0, <1>4, <1>a, <2>1, <2>2, RecordDerived
  <1>5. ASSUME NEW p \in Procs, IngestWrites(p) PROVE StepDerives
    <2>1. got[p] \in Payloads /\ got[p] \subseteq graph' /\ graph \subseteq graph'
      BY <1>0, <1>5 DEF TypeOK, IngestWrites
    <2>2. OkEntry(got[p]) \in SourceState /\ OkEntry(got[p]).hash \subseteq graph'
      BY <2>1, DocTypes DEF OkEntry
    <2>3. file' = file /\ tmp' = tmp /\ pc[p] # "idle"
          /\ mem' = [mem EXCEPT ![p][Cur(p)] = OkEntry(got[p])]
      BY <1>5 DEF IngestWrites, RecordOk, Record, Put
    <2>. QED
      BY <1>0, <1>a, <2>1, <2>2, <2>3, RecordDerived
  <1>6. ASSUME NEW p \in Procs, WriteTextOpens(p) PROVE StepDerives
    <2>1. Read(tmp') = EmptyDoc
      BY <1>6 DEF WriteTextOpens, OpenTmp, Read, Empty
    <2>. QED
      BY <1>6, <1>a, <2>1 DEF WriteTextOpens, OpenTmp, Circulating
  <1>7. ASSUME NEW p \in Procs, WriteTextFlushes(p) PROVE StepDerives
    <2>1. Read(file') \in Circulating /\ Read(tmp') \in Circulating
      BY <1>7, <1>a, WrittenCirculates DEF WriteTextFlushes, FlushTmp
    <2>. QED
      BY <1>7, <1>a, <2>1 DEF WriteTextFlushes, FlushTmp
  <1>8. ASSUME NEW p \in Procs, OsReplaces(p) PROVE StepDerives
    <2>1. Read(file') \in Circulating /\ Read(tmp') \in Circulating
      BY <1>8, <1>a DEF OsReplaces, ReplaceFile, Circulating, Read, Absent
    <2>2. \A q \in Procs : Derived(mem'[q])
      BY <1>0, <1>8, <1>a, ForgetDerived DEF OsReplaces, Exit
    <2>. QED
      BY <1>8, <2>1, <2>2 DEF OsReplaces
  <1>9. ASSUME NEW p \in Procs, ReplaceFindsNoTmp(p) PROVE StepDerives
    BY <1>0, <1>9, <1>a, RecordRaisesDerived DEF ReplaceFindsNoTmp
  <1>10. ASSUME NEW p \in Procs, DiskRaises(p) PROVE StepDerives
    BY <1>0, <1>10, AbandonCirculates, RecordRaisesDerived DEF DiskRaises
  <1>11. ASSUME NEW p \in Procs, Crash(p) PROVE StepDerives
    BY <1>0, <1>11, AbandonCirculates, ForgetDerived DEF Crash, Exit
  <1>12. ASSUME NEW s \in Sources, NEW payload \in Payloads, FeedChanges(s, payload)
         PROVE  StepDerives
    BY <1>12, <1>a DEF FeedChanges, stateVars
  <1>13. CASE UNCHANGED vars
    BY <1>13, <1>a DEF vars
  <1>14. ASSUME NEW p \in Procs, RunStep(p) PROVE StepDerives
    <2>1. CASE FetchRaises(p)
      BY <1>4, <2>1 DEF FetchRaises
    <2>2. CASE IngestRaises(p)
      BY <1>4, <2>2 DEF IngestRaises
    <2>. QED
      BY <1>2, <1>3, <1>5, <1>6, <1>7, <1>8, <1>9, <1>10, <1>14, <2>1, <2>2 DEF RunStep
  <1>. QED
    BY <1>1, <1>11, <1>12, <1>13, <1>14 DEF Next

LEMMA InitDedup == Init => DedupInv
  <1>. SUFFICES ASSUME Init PROVE DedupInv
    OBVIOUS
  <1>1. IngestedIn(EmptyDoc, graph)
    BY DEF IngestedIn, EmptyDoc, NeverRun
  <1>2. Read(file) = EmptyDoc /\ Read(tmp) = EmptyDoc /\ \A p \in Procs : mem[p] = EmptyDoc
    BY DEF Init, IngestStateInit, Read, Absent
  <1>. QED
    BY <1>1, <1>2, InitTypeOK DEF DedupInv, DedupSound

LEMMA NextDedup == DedupInv /\ [Next]_vars => DedupInv'
  <1>. SUFFICES ASSUME DedupInv, [Next]_vars PROVE DedupInv'
    OBVIOUS
  <1>1. TypeOK'
    BY NextTypeOK DEF DedupInv
  <1>2. StepDerives
    BY StepCirculates
  <1>3. Derived(Read(file')) /\ Derived(Read(tmp'))
    BY <1>2 DEF Derived, StepDerives
  <1>4. IngestedIn(Read(file'), graph') /\ IngestedIn(Read(tmp'), graph')
    BY <1>2, <1>3, DerivedIngested DEF StepDerives
  <1>5. \A p \in Procs : IngestedIn(mem'[p], graph')
    BY <1>2, DerivedIngested DEF StepDerives
  <1>. QED
    BY <1>1, <1>4, <1>5 DEF DedupInv, DedupSound, Read

(* However many runs overlap, crash, or fail half way through a graph or a *)
(* file write: a digest that can make run_ingest skip a payload is of one  *)
(* whose facts are all in the graph.                                       *)
THEOREM DedupIsSound == Spec => []DedupSound
  <1>1. DedupInv => DedupSound
    BY DEF DedupInv
  <1>. QED
    BY <1>1, InitDedup, NextDedup, PTL DEF Spec

(* The digest test never costs a fact: whatever overlapped, crashed or     *)
(* raised before, a run that skips a source as unchanged has every fact of *)
(* the payload it skips in the graph, and it records them as ingested.     *)
SkipsOnlyIngested ==
    [][\A p \in Procs : FetchUnchanged(p) => feed[Cur(p)] \subseteq graph']_vars

THEOREM SkippedIsIngested == Spec => SkipsOnlyIngested
  <1>1. ASSUME DedupInv, NEW p \in Procs, FetchUnchanged(p)
        PROVE  feed[Cur(p)] \subseteq graph'
    <2>1. TypeOK /\ DedupSound
      BY <1>1 DEF DedupInv
    <2>2. Cur(p) \in Sources
      BY <1>1, <2>1, TodoTypes DEF FetchUnchanged
    <2>3. feed[Cur(p)] # NoHash
      BY <2>1, <2>2, NoHashAssumption DEF TypeOK
    <2>. QED
      BY <1>1, <2>1, <2>2, <2>3 DEF FetchUnchanged, LastDigest, DedupSound, IngestedIn
  <1>2. DedupInv => [\A p \in Procs : FetchUnchanged(p) => feed[Cur(p)] \subseteq graph']_vars
    BY <1>1
  <1>. QED
    BY <1>2, InitDedup, NextDedup, PTL DEF Spec, SkipsOnlyIngested

-----------------------------------------------------------------------------
(* Runs that do not overlap.                                               *)

(* Runs do not overlap: there is at most one process.                      *)
NoOverlap == \A p, q \in Procs : p = q

Recording(p) == pc[p] \in {"open", "flush", "replace"}

(* p's copy has the file's entries of the sources in S; or p has logged    *)
(* that it ignores the file, and its copy has none of them.                *)
Agrees(p, S) ==
    \/ \A s \in S : mem[p][s] = Read(file)[s]
    \/ ignored[p] /\ \A s \in S : mem[p][s] = NeverRun

(* With one process, its copy of the document agrees with the file but for *)
(* the entry it is recording, and the temporary file is its own.           *)
AloneInv ==
    /\ DedupInv
    /\ NoHalfWrittenFile
    /\ \A p \in Procs :
        /\ pc[p] \in {"fetch", "write"} => Agrees(p, Sources)
        /\ Recording(p) =>
              /\ Agrees(p, Sources \ {Cur(p)})
              /\ \/ mem[p][Cur(p)] = ErrorEntry
                 \/ \E payload \in Payloads : mem[p][Cur(p)] = OkEntry(payload)
        /\ pc[p] = "flush" => fd[p] = "tmp" /\ tmp = Empty
        /\ pc[p] # "flush" => fd[p] = "none"
        /\ pc[p] = "replace" => tmp = Full(mem[p])

LEMMA InitAlone == Init => AloneInv
  BY InitDedup DEF Init, IngestStateInit, AloneInv, NoHalfWrittenFile, Absent,
                   Recording

(* RecordRaises once the write is abandoned: the process has nothing open  *)
(* and the state file is as it was.                                        *)
LEMMA RecordRaisesAlone ==
    ASSUME NoOverlap, AloneInv, DedupInv', NEW p \in Procs, Recording(p), RecordRaises(p),
           file' = file, fd'[p] = "none"
    PROVE  AloneInv'
  <1>0. TypeOK /\ Cur(p) \in Sources
    BY TodoTypes DEF AloneInv, DedupInv, Recording
  <1>1. CASE phase[p] = "try"
    <2>1. /\ mem' = [mem EXCEPT ![p][Cur(p)] = ErrorEntry]
          /\ pc' = [pc EXCEPT ![p] = "open"]
          /\ todo' = todo /\ ignored' = ignored
      BY <1>1 DEF RecordRaises, Goto
    <2>2. /\ pc'[p] = "open" /\ Cur(p)' = Cur(p)
          /\ mem'[p][Cur(p)] = ErrorEntry
          /\ \A s \in Sources \ {Cur(p)} : mem'[p][s] = mem[p][s]
      BY <1>0, <2>1 DEF TypeOK, IngestStateTypeOK, Docs, Cur
    <2>3. Agrees(p, Sources \ {Cur(p)})'
      BY <2>1, <2>2 DEF AloneInv, Agrees, Read, NeverRun
    <2>. QED
      BY <1>0, <2>2, <2>3 DEF AloneInv, NoOverlap, NoHalfWrittenFile, Recording, ErrorEntry
  <1>2. CASE phase[p] = "except"
    <2>1. pc'[p] = "idle"
      BY <1>0, <1>2 DEF RecordRaises, Exit, Goto, TypeOK
    <2>. QED
      BY <2>1 DEF AloneInv, NoOverlap, NoHalfWrittenFile, Recording
  <1>. QED
    BY <1>0, <1>1, <1>2 DEF TypeOK

(* The first half of record(): the copy and the file part at one entry.    *)
LEMMA RecordAlone ==
    ASSUME NoOverlap, AloneInv, DedupInv', NEW p \in Procs, pc[p] \in {"fetch", "write"},
           NEW entry, NEW block, Record(p, entry, block),
           entry = ErrorEntry \/ \E payload \in Payloads : entry = OkEntry(payload)
    PROVE  AloneInv'
  <1>0. TypeOK /\ Cur(p) \in Sources
    BY TodoTypes DEF AloneInv, DedupInv
  <1>1. /\ mem' = [mem EXCEPT ![p][Cur(p)] = entry]
        /\ pc' = [pc EXCEPT ![p] = "open"]
        /\ todo' = todo /\ file' = file /\ fd' = fd /\ ignored' = ignored
    BY DEF Record, Put, Goto
  <1>2. /\ pc'[p] = "open" /\ Cur(p)' = Cur(p)
        /\ mem'[p][Cur(p)] = entry
        /\ \A s \in Sources \ {Cur(p)} : mem'[p][s] = mem[p][s]
    BY <1>0, <1>1 DEF TypeOK, IngestStateTypeOK, Docs, Cur
  <1>3. Agrees(p, Sources) /\ Read(file)' = Read(file)
    BY <1>1 DEF AloneInv, Read
  <1>4. \/ mem'[p][Cur(p)'] = ErrorEntry'
        \/ \E payload \in Payloads : mem'[p][Cur(p)'] = OkEntry(payload)'
    BY <1>2 DEF ErrorEntry, OkEntry
  <1>5. Agrees(p, Sources \ {Cur(p)})'
    BY <1>1, <1>2, <1>3 DEF Agrees, NeverRun
  <1>6. pc'[p] \notin {"fetch", "write", "flush", "replace"} /\ fd'[p] = "none"
    BY <1>1, <1>2 DEF AloneInv
  <1>. QED
    BY <1>1, <1>4, <1>5, <1>6 DEF AloneInv, NoOverlap, NoHalfWrittenFile

(* A process that is idle constrains nothing but its descriptor.           *)
LEMMA IdleAlone ==
    ASSUME NoOverlap, DedupInv', NoHalfWrittenFile', NEW p \in Procs,
           pc'[p] = "idle", fd'[p] = "none"
    PROVE  AloneInv'
  BY DEF AloneInv, NoOverlap, Recording

LEMMA AbandonAlone ==
    ASSUME AloneInv, NEW p \in Procs, AbandonWrite(p)
    PROVE  file' = file /\ fd'[p] = "none"
  BY DEF AloneInv, DedupInv, TypeOK, IngestStateTypeOK, AbandonWrite

LEMMA ReplacesAlone ==
    ASSUME NoOverlap, AloneInv, NEW p \in Procs, OsReplaces(p)
    PROVE  file' = Full(mem[p]) /\ fd'[p] = "none"
  BY DEF AloneInv, OsReplaces, ReplaceFile, Relinked

LEMMA NextAlone ==
    ASSUME NoOverlap, AloneInv, [Next]_vars
    PROVE  AloneInv'
  <1>0. DedupInv' /\ TypeOK /\ TypeOK'
    BY NextDedup DEF AloneInv, DedupInv
  <1>1. ASSUME NEW p \in Procs, NEW names \in Selections, Start(p, names)
        PROVE  AloneInv'
    <2>1. /\ file' = file /\ fd' = fd /\ pc'[p] = "fetch"
          /\ mem'[p] = Read(file) \/ (mem'[p] = EmptyDoc /\ ignored'[p])
      BY <1>0, <1>1 DEF Start, Load, Goto, TypeOK, IngestStateTypeOK
    <2>3. Agrees(p, Sources)'
      BY <2>1 DEF Agrees, Read, EmptyDoc, NeverRun
    <2>2. fd'[p] = "none"
      BY <1>1, <2>1 DEF AloneInv, Start
    <2>. QED
      BY <1>0, <2>1, <2>2, <2>3 DEF AloneInv, NoOverlap, NoHalfWrittenFile, Recording
  <1>2. ASSUME NEW p \in Procs, FetchUnchanged(p) PROVE AloneInv'
    <2>1. feed[Cur(p)] \in Payloads
      BY <1>0, <1>2, TodoTypes DEF TypeOK, FetchUnchanged
    <2>. QED
      BY <1>0, <1>2, <2>1, RecordAlone DEF FetchUnchanged, RecordOk
  <1>3. ASSUME NEW p \in Procs, FetchNew(p) PROVE AloneInv'
    <2>1. pc'[p] = "write" /\ pc[p] = "fetch"
      BY <1>0, <1>3 DEF FetchNew, Goto, TypeOK
    <2>2. UNCHANGED stateVars
      BY <1>3 DEF FetchNew
    <2>. QED
      BY <1>0, <2>1, <2>2 DEF AloneInv, NoOverlap, NoHalfWrittenFile, Recording, Agrees,
                              Read, NeverRun, stateVars
  <1>4. ASSUME NEW p \in Procs, FetchRaises(p) PROVE AloneInv'
    BY <1>0, <1>4, RecordAlone DEF FetchRaises, RecordError
  <1>5. ASSUME NEW p \in Procs, IngestWrites(p) PROVE AloneInv'
    <2>1. got[p] \in Payloads
      BY <1>0, <1>5 DEF TypeOK, IngestWrites
    <2>. QED
      BY <1>0, <1>5, <2>1, RecordAlone DEF IngestWrites, RecordOk
  <1>6. ASSUME NEW p \in Procs, IngestRaises(p) PROVE AloneInv'
    BY <1>0, <1>6, RecordAlone DEF IngestRaises, RecordError
  <1>7. ASSUME NEW p \in Procs, WriteTextOpens(p) PROVE AloneInv'
    <2>1. /\ pc'[p] = "flush" /\ fd'[p] = "tmp" /\ tmp' = Empty
          /\ UNCHANGED <<file, mem, todo, ignored>>
      BY <1>0, <1>7 DEF WriteTextOpens, OpenTmp, Goto, TypeOK, IngestStateTypeOK
    <2>2. Recording(p)
      BY <1>7 DEF WriteTextOpens, Recording
    <2>. QED
      BY <1>0, <2>1, <2>2
         DEF AloneInv, NoOverlap, NoHalfWrittenFile, Agrees, Read, NeverRun, Cur,
             Recording, Empty, OkEntry, ErrorEntry
  <1>8. ASSUME NEW p \in Procs, WriteTextFlushes(p) PROVE AloneInv'
    <2>1. fd[p] = "tmp" /\ tmp = Empty /\ Recording(p)
      BY <1>8 DEF WriteTextFlushes, AloneInv, Recording
    <2>2. tmp' = Full(mem[p]) /\ file' = file
      BY <1>8, <2>1 DEF WriteTextFlushes, FlushTmp, Written, Empty
    <2>3. pc'[p] = "replace" /\ fd'[p] = "none" /\ UNCHANGED <<mem, todo, ignored>>
      BY <1>0, <1>8 DEF WriteTextFlushes, FlushTmp, Goto, TypeOK, IngestStateTypeOK
    <2>. QED
      BY <1>0, <2>1, <2>2, <2>3
         DEF AloneInv, NoOverlap, NoHalfWrittenFile, Agrees, Read, NeverRun, Cur,
             Recording, Full, OkEntry, ErrorEntry
  <1>9. ASSUME NEW p \in Procs, OsReplaces(p) PROVE AloneInv'
    <2>1. file' = Full(mem[p]) /\ fd'[p] = "none"
      BY <1>9, ReplacesAlone
    <2>2. NoHalfWrittenFile' /\ Read(file)' = mem[p]
      BY <2>1 DEF NoHalfWrittenFile, Full, Read
    <2>3. CASE Tail(todo[p]) = <<>>
      <3>1. pc'[p] = "idle"
        BY <1>0, <1>9, <2>3 DEF OsReplaces, Exit, Goto, TypeOK
      <3>. QED
        BY <1>0, <2>1, <2>2, <3>1, IdleAlone
    <2>4. CASE Tail(todo[p]) # <<>>
      <3>1. pc'[p] = "fetch" /\ mem' = mem
        BY <1>0, <1>9, <2>4 DEF OsReplaces, Goto, TypeOK
      <3>. QED
        BY <1>0, <2>1, <2>2, <3>1 DEF AloneInv, NoOverlap, Recording, Agrees
    <2>. QED
      BY <2>3, <2>4
  <1>10. ASSUME NEW p \in Procs, ReplaceFindsNoTmp(p) PROVE AloneInv'
    BY <1>0, <1>10, RecordRaisesAlone DEF ReplaceFindsNoTmp, AloneInv, Recording
  <1>11. ASSUME NEW p \in Procs, DiskRaises(p) PROVE AloneInv'
    BY <1>0, <1>11, AbandonAlone, RecordRaisesAlone DEF DiskRaises, Recording
  <1>12. ASSUME NEW p \in Procs, Crash(p) PROVE AloneInv'
    <2>1. file' = file /\ fd'[p] = "none" /\ pc'[p] = "idle"
      BY <1>0, <1>12, AbandonAlone DEF Crash, Exit, Goto, TypeOK
    <2>2. NoHalfWrittenFile'
      BY <2>1 DEF AloneInv, NoHalfWrittenFile
    <2>. QED
      BY <1>0, <2>1, <2>2, IdleAlone
  <1>13. ASSUME NEW s \in Sources, NEW payload \in Payloads, FeedChanges(s, payload)
         PROVE  AloneInv'
    BY <1>0, <1>13 DEF FeedChanges, stateVars, AloneInv, NoHalfWrittenFile, Recording,
                       Agrees, Read, NeverRun, Cur, OkEntry, ErrorEntry
  <1>14. CASE UNCHANGED vars
    BY <1>0, <1>14 DEF vars, AloneInv, NoHalfWrittenFile, Recording, Agrees, Read,
                       NeverRun, Cur, OkEntry, ErrorEntry
  <1>. QED
    BY <1>1, <1>2, <1>3, <1>4, <1>5, <1>6, <1>7, <1>8, <1>9, <1>10, <1>11, <1>12,
       <1>13, <1>14 DEF Next, RunStep

(* No reader meets a truncated or mixed document when runs do not overlap. *)
THEOREM AloneNeverHalfWritten ==
    ASSUME NoOverlap PROVE Spec => []NoHalfWrittenFile
  <1>1. AloneInv /\ [Next]_vars => AloneInv'
    BY NextAlone
  <1>2. AloneInv => NoHalfWrittenFile
    BY DEF AloneInv
  <1>. QED
    BY <1>1, <1>2, InitAlone, PTL DEF Spec

-----------------------------------------------------------------------------
(* The refinement.                                                         *)

Ignoring == \E p \in Procs : ignored[p]

BoardVars == <<Read(file), graph, Ignoring>>

LEMMA InitBoard == Init => Board!Init
  BY DEF Init, IngestStateInit, Board!Init, Board!NeverRun, Board!Blank, Read, Absent,
         EmptyDoc, NeverRun

(* A step that leaves the state file alone commits facts, or nothing.      *)
LEMMA CommitStep ==
    ASSUME AloneInv, AloneInv', graph \subseteq graph', Read(file)' = Read(file)
    PROVE  Board!Commit
  <1>1. graph' \in SUBSET Facts /\ graph' = graph \cup graph'
    BY DEF AloneInv, DedupInv, TypeOK
  <1>. QED
    BY <1>1 DEF Board!Commit

(* os.replace records one outcome of the source just run, over the entries *)
(* the run found, or over none of them if it has logged that it could not. *)
LEMMA ReplaceStep ==
    ASSUME NoOverlap, AloneInv, NEW p \in Procs, OsReplaces(p)
    PROVE  \/ \E s \in Sources, payload \in Payloads : Board!RecordOk(s, payload)
           \/ \E s \in Sources : Board!RecordError(s)
  <1>1. TypeOK /\ Cur(p) \in Sources /\ Recording(p)
    BY TodoTypes DEF AloneInv, DedupInv, OsReplaces, Recording
  <1>2. Read(file)' = mem[p] /\ graph' = graph
    <2>1. file' = Full(mem[p])
      BY ReplacesAlone
    <2>2. graph' = graph
      BY DEF OsReplaces
    <2>. QED
      BY <2>1, <2>2 DEF Read, Full
  <1>3. mem[p] \in Docs /\ Read(file) \in Docs
    BY <1>1, ReadType DEF TypeOK, IngestStateTypeOK
  <1>4. \/ mem[p] = [Read(file) EXCEPT ![Cur(p)] = mem[p][Cur(p)]]
        \/ Ignoring /\ mem[p] = [Board!Blank EXCEPT ![Cur(p)] = mem[p][Cur(p)]]
    <2>1. Agrees(p, Sources \ {Cur(p)})
      BY <1>1 DEF AloneInv
    <2>. QED
      BY <1>1, <1>3, <2>1
         DEF Agrees, Docs, Ignoring, Board!Blank, Board!NeverRun, NeverRun
  <1>5. Board!Record(Cur(p), mem[p][Cur(p)])
    BY <1>2, <1>4 DEF Board!Record, Ignoring
  <1>6. CASE mem[p][Cur(p)] = ErrorEntry
    <2>1. Board!RecordError(Cur(p))
      BY <1>5, <1>6 DEF Board!RecordError, ErrorEntry
    <2>. QED
      BY <1>1, <2>1
  <1>7. ASSUME NEW payload \in Payloads, mem[p][Cur(p)] = OkEntry(payload)
        PROVE  \E s \in Sources, q \in Payloads : Board!RecordOk(s, q)
    <2>1. payload \subseteq graph
      BY <1>1, <1>7, NoHashAssumption
         DEF AloneInv, DedupInv, DedupSound, IngestedIn, OkEntry
    <2>2. Board!RecordOk(Cur(p), payload)
      BY <1>5, <1>7, <2>1 DEF Board!RecordOk, OkEntry
    <2>. QED
      BY <1>1, <2>2
  <1>. QED
    BY <1>1, <1>6, <1>7 DEF AloneInv

LEMMA NextBoard ==
    ASSUME NoOverlap, AloneInv, [Next]_vars
    PROVE  [Board!Next]_BoardVars
  <1>1. AloneInv' /\ graph \subseteq graph'
    BY NextAlone, StepCirculates DEF AloneInv, StepDerives
  <1>2. Ignoring' \in BOOLEAN
    BY DEF Ignoring
  <1>3. ASSUME NEW p \in Procs, OsReplaces(p) PROVE Board!Next
    BY <1>2, <1>3, ReplaceStep DEF Board!Next, Ignoring
  <1>4. ASSUME ~ \E p \in Procs : OsReplaces(p) PROVE file' = file
    <2>1. ASSUME NEW p \in Procs, WriteTextFlushes(p) PROVE file' = file
      BY <2>1 DEF AloneInv, WriteTextFlushes, FlushTmp
    <2>2. ASSUME NEW p \in Procs, AbandonWrite(p) PROVE file' = file
      BY <2>2, AbandonAlone
    <2>. QED
      BY <1>4, <2>1, <2>2
         DEF Next, RunStep, vars, stateVars, Start, Load, FetchUnchanged, FetchNew,
             FetchRaises, IngestWrites, IngestRaises, RecordOk, RecordError, Record,
             Put, WriteTextOpens, OpenTmp, ReplaceFindsNoTmp, DiskRaises, Crash,
             FeedChanges
  <1>5. ASSUME file' = file PROVE Board!Next
    <2>1. Read(file)' = Read(file)
      BY <1>5 DEF Read
    <2>. QED
      BY <1>1, <1>2, <2>1, CommitStep DEF Board!Next, Ignoring
  <1>. QED
    BY <1>3, <1>4, <1>5

(* When runs do not overlap, the state file behaves as the board: one      *)
(* source's entry changes at a time, as a whole, and an entry with a       *)
(* digest is made when the graph has the facts.  The entries of the other  *)
(* sources go only when a run that has logged that it could not read the   *)
(* file starts fresh (_read), and then together.                           *)
THEOREM AloneImplementsBoard ==
    ASSUME NoOverlap PROVE Spec => ImplementsBoard
  <1>1. AloneInv /\ [Next]_vars => AloneInv'
    BY NextAlone
  <1>2. AloneInv /\ [Next]_vars => [Board!Next]_BoardVars
    BY NextBoard
  <1>. QED
    BY <1>1, <1>2, InitAlone, InitBoard, PTL
       DEF Spec, ImplementsBoard, Board!Spec, Board!boardVars, BoardVars, Ignoring

(* Nothing is forgotten: a source that has been run stays one that has.    *)
NothingForgotten ==
    [][\A s \in Sources : Read(file)[s].status # "never"
                           => Read(file)'[s].status # "never"]_vars

NobodyIgnores == \A p \in Procs : ~ignored[p]

LEMMA NextNobodyIgnores ==
    ASSUME NoOverlap, "read" \notin Faults, AloneInv, NobodyIgnores, [Next]_vars
    PROVE  NobodyIgnores'
  <1>1. ASSUME NEW p \in Procs, NEW names \in Selections, Start(p, names)
        PROVE  NobodyIgnores'
    <2>1. ignored' = [ignored EXCEPT ![p] = FALSE]
      BY <1>1 DEF Start, Load, AloneInv, NoHalfWrittenFile
    <2>. QED
      BY <2>1 DEF NobodyIgnores, AloneInv, DedupInv, TypeOK, IngestStateTypeOK
  <1>2. ASSUME NEW p \in Procs, Forget(p) PROVE NobodyIgnores'
    BY <1>2 DEF Forget, NobodyIgnores, AloneInv, DedupInv, TypeOK, IngestStateTypeOK
  <1>3. ASSUME NEW p \in Procs, RecordRaises(p) PROVE NobodyIgnores'
    BY <1>2, <1>3 DEF RecordRaises, Exit, NobodyIgnores
  <1>4. ASSUME NEW p \in Procs, RunStep(p) PROVE NobodyIgnores'
    <2>1. CASE OsReplaces(p)
      BY <1>2, <2>1 DEF OsReplaces, Exit, NobodyIgnores
    <2>2. CASE ReplaceFindsNoTmp(p) \/ DiskRaises(p)
      BY <1>3, <2>2 DEF ReplaceFindsNoTmp, DiskRaises
    <2>. QED
      BY <1>4, <2>1, <2>2
         DEF RunStep, FetchUnchanged, FetchNew, FetchRaises, IngestWrites, IngestRaises,
             RecordOk, RecordError, Record, Put, WriteTextOpens, OpenTmp,
             WriteTextFlushes, FlushTmp, stateVars, NobodyIgnores
  <1>5. ASSUME NEW p \in Procs, Crash(p) PROVE NobodyIgnores'
    BY <1>2, <1>5 DEF Crash, Exit
  <1>6. ASSUME NEW s \in Sources, NEW payload \in Payloads, FeedChanges(s, payload)
        PROVE  NobodyIgnores'
    BY <1>6 DEF FeedChanges, stateVars, NobodyIgnores
  <1>7. CASE UNCHANGED vars
    BY <1>7 DEF vars, NobodyIgnores
  <1>. QED
    BY <1>1, <1>4, <1>5, <1>6, <1>7 DEF Next

(* The wiping of the board is the OSError of _read and nothing else: runs  *)
(* that do not overlap and can read the file forget no source, whatever    *)
(* raises, dies or fails half way through a write.                         *)
THEOREM AloneForgetsNothing ==
    ASSUME NoOverlap, "read" \notin Faults PROVE Spec => NothingForgotten
  <1>1. AloneInv /\ NobodyIgnores /\ [Next]_vars => AloneInv' /\ NobodyIgnores'
    BY NextAlone, NextNobodyIgnores
  <1>2. Init => NobodyIgnores
    BY DEF Init, IngestStateInit, NobodyIgnores
  <1>3. ASSUME AloneInv, NobodyIgnores, [Next]_vars, NEW s \in Sources,
               Read(file)[s].status # "never"
        PROVE  Read(file)'[s].status # "never"
    <2>1. [Board!Next]_BoardVars
      BY <1>3, NextBoard
    <2>2. CASE UNCHANGED BoardVars \/ Board!Commit
      BY <1>3, <2>2 DEF BoardVars, Board!Commit
    <2>3. ASSUME NEW t \in Sources, NEW entry \in SourceState, Board!Record(t, entry),
                 entry.status # "never"
          PROVE  Read(file)'[s].status # "never"
      <3>1. Read(file)' = [Read(file) EXCEPT ![t] = entry]
        BY <1>3, <2>3 DEF Board!Record, NobodyIgnores
      <3>2. Read(file) \in Docs
        BY <1>3, ReadType DEF AloneInv, DedupInv, TypeOK, IngestStateTypeOK
      <3>. QED
        BY <1>3, <2>3, <3>1, <3>2 DEF Docs
    <2>4. ASSUME NEW t \in Sources, NEW payload \in Payloads, Board!RecordOk(t, payload)
          PROVE  Read(file)'[s].status # "never"
      BY <2>3, <2>4 DEF Board!RecordOk, SourceState
    <2>5. ASSUME NEW t \in Sources, Board!RecordError(t)
          PROVE  Read(file)'[s].status # "never"
      BY <2>3, <2>5 DEF Board!RecordError, SourceState
    <2>. QED
      BY <2>1, <2>2, <2>4, <2>5 DEF Board!Next
  <1>4. AloneInv /\ NobodyIgnores /\ [Next]_vars
        => [\A s \in Sources : Read(file)[s].status # "never"
                               => Read(file)'[s].status # "never"]_vars
    BY <1>3
  <1>. QED
    BY <1>1, <1>2, <1>4, InitAlone, PTL DEF Spec, NothingForgotten

-----------------------------------------------------------------------------
(* Recording an error raises only in another process's way or the disk's.  *)

NeverAborted == \A p \in Procs : ~aborted[p]

LEMMA NoTmpAlone ==
    ASSUME AloneInv, NEW p \in Procs
    PROVE  ~ReplaceFindsNoTmp(p)
  <1>1. pc[p] = "replace" => tmp = Full(mem[p])
    BY DEF AloneInv
  <1>2. Full(mem[p]).kind # "absent"
    BY DEF Full
  <1>. QED
    BY <1>1, <1>2 DEF ReplaceFindsNoTmp

LEMMA NextNeverAborted ==
    ASSUME NoOverlap, "disk" \notin Faults, AloneInv, NeverAborted, [Next]_vars
    PROVE  NeverAborted'
  <1>0. TypeOK
    BY DEF AloneInv, DedupInv
  <1>1. ASSUME NEW p \in Procs, NEW names \in Selections, Start(p, names)
        PROVE  NeverAborted'
    BY <1>0, <1>1 DEF Start, NeverAborted, TypeOK
  <1>2. ASSUME NEW p \in Procs, RunStep(p)
        PROVE  NeverAborted'
    <2>1. ~DiskRaises(p) /\ ~ReplaceFindsNoTmp(p)
      BY NoTmpAlone DEF DiskRaises
    <2>2. CASE OsReplaces(p)
      BY <1>0, <2>2 DEF OsReplaces, Exit, NeverAborted, TypeOK
    <2>3. CASE ~OsReplaces(p)
      BY <1>2, <2>1, <2>3
         DEF RunStep, FetchUnchanged, FetchNew, FetchRaises, IngestWrites, IngestRaises,
             RecordOk, RecordError, Record, WriteTextOpens, WriteTextFlushes, NeverAborted
    <2>. QED
      BY <2>2, <2>3
  <1>3. ASSUME NEW p \in Procs, Crash(p)
        PROVE  NeverAborted'
    BY <1>0, <1>3 DEF Crash, Exit, NeverAborted, TypeOK
  <1>4. ASSUME NEW s \in Sources, NEW payload \in Payloads, FeedChanges(s, payload)
        PROVE  NeverAborted'
    BY <1>4 DEF FeedChanges, NeverAborted
  <1>5. CASE UNCHANGED vars
    BY <1>5 DEF vars, NeverAborted
  <1>. QED
    BY <1>1, <1>2, <1>3, <1>4, <1>5 DEF Next

(* run_ingest's promise that one failing source does not keep the others   *)
(* from running, under the two conditions it silently has: no other        *)
(* process records, and the disk takes the record of the error.            *)
THEOREM AloneNotAbandoned ==
    ASSUME NoOverlap, "disk" \notin Faults PROVE Spec => []NoSourceAbandoned
  <1>1. AloneInv /\ NeverAborted /\ [Next]_vars => AloneInv' /\ NeverAborted'
    BY NextAlone, NextNeverAborted
  <1>2. Init => NeverAborted
    BY DEF Init, NeverAborted
  <1>3. NeverAborted => NoSourceAbandoned
    BY DEF NeverAborted, NoSourceAbandoned
  <1>. QED
    BY <1>1, <1>2, <1>3, InitAlone, PTL DEF Spec
=============================================================================
