CONSTANTS
    Runs = {r1, r2}
    NoRun = NoRun
    Items = {i1, i2}
    NoItem = NoItem
    Owners = {o1}
    NoOwner = NoOwner
    Limits = {1, 2}
    Holdable = {i1}
    MaxRestored = 1
SPECIFICATION LiveSpec
INVARIANTS OnePlace CleanupAfterLaunch
PROPERTIES StartsAreRight EveryRunIsServed RemovalReturns
