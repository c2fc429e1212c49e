SPECIFICATION FairSpec
CONSTANTS
    Jobs = {j1, j2}
    Limit = 1
    Pages = 1
    MaxCount = 1
    Waiters = {w1}
    MaxRestarts = 0
    MaxFaults = 0
PROPERTIES
    QueueDrains
    StopEnds
    WaiterReturns
CHECK_DEADLOCK FALSE
