CONSTANTS
    Jobs = {j1, j2}
    Durable = TRUE
SPECIFICATION FairSpec
INVARIANTS
    MemoryJobsSettle
PROPERTIES
    DurableOutcomeIsFinal
    ImplementsContract
    NothingLingers
