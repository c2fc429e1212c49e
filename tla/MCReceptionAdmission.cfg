SPECIFICATION FairSpec
CONSTANTS
    Faxes = {f1, f2}
    Callers = {c1}
    Accounts = {a1}
    Limit = 1
    Manual = TRUE
    MaxConfigs = 1
    MaxFaults = 0
INVARIANTS
    NoOrphan
PROPERTIES
    ReceptionEnds
    StopEnds
CHECK_DEADLOCK FALSE
