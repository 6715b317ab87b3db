SPECIFICATION Spec
CONSTANTS
    t1 = t1
    t2 = t2
    campaign = campaign
    Free = Free
    Threads <- TwoThreads
    Ids <- OneId
    Sample <- OneId
    KeyIsSet = TRUE
    LlmRetries = 1
CHECK_DEADLOCK FALSE
INVARIANTS
    TypeOK
    StoresAreOpen
    TruthfulStatus
    NarrativeGrounded
PROPERTY
    ServiceLives
