SPECIFICATION FairSpec
CONSTANTS
    Calls = {c1, c2, c3}
    Queries = {q1, q2}
    None = None
    Ttl = 2
    MaxSize = 1
    MaxClock = 3
INVARIANTS
    TypeOK
    OneFetchPerQuery
    AnswersAreFresh
PROPERTIES
    NoGap
    SearchesEnd
CHECK_DEADLOCK FALSE
