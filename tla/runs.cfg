SPECIFICATION Spec
CONSTANTS
    Runs = {r1, r2, r3}
    Slots = 1
    Cap = 1
    Faults = TRUE
    MaxSpend = 2
SYMMETRY Symmetry
INVARIANTS
    SlotsMatch
    SettledRunsAreBilled
    CallbackMatchesOutcome
CHECK_DEADLOCK FALSE
