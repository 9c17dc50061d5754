SPECIFICATION FairSpec
CONSTANTS
    Urls <- MCUrls
    Addresses <- MCAddresses
    AllowPrivate = FALSE
    AllowedPorts = {80, 443}
    Allowlist = {}
    Denylist <- MCDenylist
    Crawls = {c1}
    Sites = {s1}
    Requests <- MCRequests
    None = None
    MaxSessions = 1
    Delay = 1
    HighWater = 0
    Documents = TRUE
    PdfFallback = TRUE
    MaxRedirects = 1
    MaxPages = 1
    MaxClock = 0
INVARIANTS
    OnlyVettedContent
    OneBrowser
PROPERTIES
    SlotsAreSpaced
    CrawlsEnd
CHECK_DEADLOCK FALSE
