SPECIFICATION FairSpec
CONSTANTS
    ip = ip
    phish = phish
    url = url
    kit = kit
    lone = lone
    Threats <- Chain
    Findable <- TwoIndicators
    Indicators <- TwoIndicators
    Campaigns <- TwoCampaigns
    Unknown = Unknown
    NoNode = NoNode
    NoPanel = NoNode
    Nothing = Nothing
    MaxCalls = 2
    MaxSimilar = 1
INVARIANTS
    TypeOK
    NoStuckSpinner
    EdgesHaveEnds
    OneNarrativeAtATime
    NarrativeSpinner
    SimilarSpinner
PROPERTY
    SearchUsableAgain
