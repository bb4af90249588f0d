SPECIFICATION LiveSpec
CONSTANTS
    Procs = {p1, p2}
    Accounts = {a1, a2}
    MaxGen = 3
    MaxTrouble = 1
INVARIANTS
    SpentOnce
PROPERTIES
    NewestSurvives
    HandedOutIsStored
    PendingIsSettled
CHECK_DEADLOCK FALSE
