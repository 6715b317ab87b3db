SPECIFICATION ServedSpec
CONSTANTS
    p1 = p1
    p2 = p2
    urlhaus = urlhaus
    otx = otx
    f1 = f1
    f2 = f2
    NoHash = NoHash
    Procs <- OneProc
    Sources <- TwoSources
    Facts <- TwoFacts
    Payloads <- NestedPayloads
    Selections <- All
    Faults <- AllFaults
INVARIANTS
    TypeOK
    DedupSound
    NoHalfWrittenFile
PROPERTIES
    ImplementsBoard
    FeedReachesGraph
    SourceRecovers
