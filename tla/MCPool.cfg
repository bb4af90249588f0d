CONSTANTS
    Tasks = {t1, t2, t3}
    NoTask = NoTask
    Big = {t1, t2}
    Asking = {t1}
    MaxWorkers = 1
    MaxPendingTasks = 2
    MaxPendingBytes = 3
    RestartOnError = {TRUE, FALSE}
    MaxFaults = 1
    MaxRotations = 1
SPECIFICATION LiveSpec
INVARIANTS ChargesAreExact OneTaskPerWorker ReleasedIsUnread QueueIsJustified
PROPERTIES EveryCallSettles
CHECK_DEADLOCK FALSE
