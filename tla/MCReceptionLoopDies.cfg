SPECIFICATION Spec
CONSTANTS
    Faxes = {f1}
    Callers = {c1}
    Accounts = {a1}
    Limit = 1
    Manual = FALSE
    MaxConfigs = 1
    MaxFaults = 1
INVARIANT SettledWhenGone
CHECK_DEADLOCK FALSE
