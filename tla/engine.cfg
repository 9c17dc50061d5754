SPECIFICATION FairSpec
CONSTANTS
    Urls = {u1, u2}
    Breadth = 3
    Depth = 2
    Concurrency = 2
    TopK = 1
    Cap = 4
    Room = 5
    Tokens <- TwoAndOne
INVARIANTS
    NoPageTwice
    AllFindingsReported
PROPERTIES
    SpendingWindsDown
    RunEnds
CHECK_DEADLOCK FALSE
