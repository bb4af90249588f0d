SPECIFICATION Spec
CONSTANTS
    Procs = {p1, p2}
    MaxClaims = 8
    Lease = 2
    MaxRetries = 2
    Batch = 1
    BestEffort = FALSE
    Required = FALSE
    Exact = FALSE
    Cancellable = TRUE
    TimersOnTime = TRUE
    MaxTrouble = 1
SYMMETRY Symmetry
INVARIANTS AtMostOnce
PROPERTIES ImplementsDelivery
CHECK_DEADLOCK FALSE
