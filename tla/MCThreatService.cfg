SPECIFICATION Spec
CONSTANTS
    p1 = p1
    p2 = p2
    phish = phish
    kit = kit
    ip = ip
    url = url
    actor = actor
    t1 = t1
    t2 = t2
    Procs <- TwoProcs
    Hubs <- TwoHubs
    Indicators <- TwoIndicators
    Others <- OneActor
    Texts <- TwoTexts
    NoHub = NoHub
    NoText = NoText
    NoJob = NoJob
    Jobs <- Mixed
    Backends <- BothBackends
    Questions <- UrlThenIp
    Depths <- JustTwo
    MaxSimilar = 1
SYMMETRY ProcSymmetry
INVARIANTS
    TypeOK
    EndsAreKnown
    EmbeddingHasNode
    AnswerClosed
    AnswerKnown
    BackendsAgree
PROPERTY
    KeepsPromise
