SPECIFICATION LiveSpec
CONSTANTS
    Procs = {p1}
    MaxClaims = 8
    Lease = 2
    MaxRetries = 2
    Batch = 2
    BestEffort = TRUE
    Required = TRUE
    Exact = FALSE
    Cancellable = TRUE
    TimersOnTime = TRUE
    MaxTrouble = 3
INVARIANTS LedgerTruth FailedIsSettled
PROPERTIES EventuallySettled
CHECK_DEADLOCK FALSE
