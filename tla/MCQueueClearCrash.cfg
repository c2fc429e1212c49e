SPECIFICATION Spec
CONSTANTS
    Jobs = {j1}
    Limit = 1
    Pages = 1
    MaxCount = 1
    Waiters = {}
    MaxRestarts = 1
    MaxFaults = 0
INVARIANT NotResurrected
CHECK_DEADLOCK FALSE
