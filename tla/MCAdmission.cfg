SPECIFICATION LiveSpec
CONSTANTS
    MaxTxn = 4
    HasDeadline = TRUE
INVARIANTS
    SettlementIsComplete
PROPERTIES
    DecisionIsFinal
    ImplementsPublication
    FencesAreLifted
    WorkerIsAnswered
CHECK_DEADLOCK FALSE
