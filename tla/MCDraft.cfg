CONSTANTS
    Flushes = {f1, f2, f3}
    NoFlush = NoFlush
    MaxUpdates = 3
    Coalesce = {TRUE, FALSE}
    JobsBetween = TRUE
SPECIFICATION LiveSpec
INVARIANTS OneEditOutstanding
PROPERTIES OwedIsServed
