SPECIFICATION Spec
SYMMETRY ProcSymmetry
CONSTANTS
    p1 = p1
    p2 = p2
    ip = ip
    kit = kit
    ttp = ttp
    plain = plain
    named = named
    Procs <- TwoProcs
    Ids <- ThreeIds
    Labels <- TwoLabels
    NoLabel = NoLabel
    Calls <- SomeCalls
    NoCall = NoCall
    Depths <- UpToTwo
INVARIANTS
    TypeOK
    SameAnswers
PROPERTY
    ImplementsStore
