CONSTANTS
    Keys = {k1, k2}
    MaxItems = 3
    MaxCancels = 2
    Debounce = 2
    Multiplier = 2
    MaxTracked = 1
    Serialize = {TRUE, FALSE}
SPECIFICATION LiveSpec
INVARIANTS ExactlyOnce WindowIsBounded InOrder
PROPERTIES CancelIsEffective DrainReturns
CHECK_DEADLOCK FALSE
