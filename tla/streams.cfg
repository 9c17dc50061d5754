SPECIFICATION FairSpec
CONSTANTS
    Readers = {r1, r2}
    MaxProgress = 2
    QueueSize = 2
    MaxEvents = 4
INVARIANTS
    InOrder
    NoneMissing
    OutcomeDelivered
PROPERTY StreamsEnd
CHECK_DEADLOCK FALSE
