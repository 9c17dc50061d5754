SPECIFICATION LimiterSpec
CONSTANTS
    Labels = {l1}
    Addresses = {a1, a2}
    None = None
    Anonymous = Anonymous
    AuthEnabled = TRUE
    TrustedProxy = TRUE
    Points = 1
    Limit <- LabelsHaveMore
    Weights = {1, 2}
    Window = 2
    PurgeInterval = 2
    Second = 2
    MaxClients = 2
    MaxClock = 4
    MaxCalls = 1
SYMMETRY Symmetry
INVARIANTS
    LimiterTypeOK
    BudgetHolds
    RetryAfterFrees
    StaleWindowsGo
