SPECIFICATION Spec
CONSTANTS
    ip = ip
    phish = phish
    url = url
    kit = kit
    lone = lone
    Threats <- TwoParts
    Findable <- IndicatorAndLone
    Indicators <- IndicatorAndLone
    Campaigns <- OneCampaign
    Unknown = Unknown
    NoNode = NoNode
    NoPanel = NoNode
    Nothing = Nothing
    MaxCalls = 2
    MaxSimilar = 1
INVARIANT
    ResultsOfThisNode
