SPECIFICATION FairSpec
CONSTANTS
    Calls = {c1, c2, c3}
    Kinds = {"answer", "stream", "extract", "tool", "rank"}
    Keys = {k1}
    None = None
    Limit = 1
    Cap = 1
    Results = 2
    TopK = 1
    Pages = 2
INVARIANTS
    PaidOnce
    OvershootIsInFlight
PROPERTIES
    CallsEnd
CHECK_DEADLOCK FALSE
