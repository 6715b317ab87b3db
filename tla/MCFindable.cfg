SPECIFICATION Spec
CONSTANTS
    hash = hash
    ip = ip
    dom = dom
    zip = zip
    url = url
    dotUrl = dotUrl
    cve = cve
    NotFound = NotFound
    Hashes <- OneHash
    Addresses <- OneAddress
    Domains <- TwoDomains
    Urls <- TwoUrls
    Unsupported <- OneCve
    HostOf <- Hosts
    Odd <- OddOnes
    Backoff = 1
    Answers <- AllAnswers
    MaxRetries = 3
    Tags <- PageTags
    Contents <- PageContents
    MaxOpen = 3
    OmitHeadEnd = FALSE
    StrayEnds = FALSE
    Payloads <- FeedPayloads
INVARIANT
    FoundWhenPresent
