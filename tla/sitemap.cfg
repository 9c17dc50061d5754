SPECIFICATION Spec
CONSTANTS
    Urls <- MCUrls
    Addresses <- MCAddresses
    AllowPrivate = FALSE
    AllowedPorts = {80, 443}
    Allowlist = {}
    Denylist = {}
    Entries <- MCEntries
    Named <- MCNamed
    Links = {l1, l2, l3}
    Matching = {l1, l2}
    Limit = 1
    MaxNested = 2
    MaxRedirects = 2
INVARIANTS
    OnlyVettedRequests
    RequestsAreBounded
CHECK_DEADLOCK FALSE
