SPECIFICATION LogSpec
CONSTANTS
    Cap = 2
    Faults = {"insert", "commit", "prune", "settle"}
    Publishers = 2
    MaxEvents = 6
INVARIANTS
    LogTypeOK
    RestoredInOrder
    OutcomeLogged
    NewestAreKept
CHECK_DEADLOCK FALSE
