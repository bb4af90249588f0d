SPECIFICATION Spec
CONSTANTS
    Procs = {p1, p2}
    MaxClaims = 8
    Lease = 2
    MaxRetries = 1
    Batch = 1
    BestEffort = FALSE
    Required = TRUE
    Exact = TRUE
    Cancellable = TRUE
    TimersOnTime = FALSE
    MaxTrouble = 1
SYMMETRY Symmetry
INVARIANTS HandoffIsFenced
PROPERTIES UnknownNeverReplayed
CHECK_DEADLOCK FALSE
