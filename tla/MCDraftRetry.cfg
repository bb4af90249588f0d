CONSTANTS
    Flushes = {f1, f2, f3}
    NoFlush = NoFlush
    MaxUpdates = 3
    Coalesce = {TRUE}
    JobsBetween = TRUE
SPECIFICATION Spec
INVARIANTS NeverBackwards
