SPECIFICATION Spec
CONSTANTS
    Faxes = {f1, f2}
    Callers = {c1, c2}
    Accounts = {a1, a2}
    Limit = 2
    Manual = FALSE
    MaxConfigs = 2
    MaxFaults = 2
SYMMETRY Symmetry
INVARIANTS
    EndsOnce
    SlotsAgree
PROPERTIES
    ImplementsInbox
CHECK_DEADLOCK FALSE
