CONSTANTS
    Owners = {o1, o2, o3}
    NoOwner = NoOwner
    LeaseMs = 2
    MaxClock = 4
SPECIFICATION Spec
INVARIANTS GuardedWriteIsOwned AtMostOneAuthority
PROPERTIES LiveGrantIsStable FenceDefersLoss
SYMMETRY Symmetry
CHECK_DEADLOCK FALSE
