SPECIFICATION Spec
CONSTANTS
    p1 = p1
    p2 = p2
    urlhaus = urlhaus
    otx = otx
    f1 = f1
    f2 = f2
    NoHash = NoHash
    Procs <- TwoProcs
    Sources <- TwoSources
    Facts <- TwoFacts
    Payloads <- OnePayload
    Selections <- Each
    Faults <- NoFaults
INVARIANT
    NoHalfWrittenFile
