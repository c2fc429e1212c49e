SPECIFICATION Spec
CONSTANTS
    Jobs = {j1, j2}
    Limit = 2
    Pages = 1
    MaxCount = 2
    Waiters = {}
    MaxRestarts = 1
    MaxFaults = 1
SYMMETRY Symmetry
INVARIANTS
    ClaimsAgree
    ViewIsStore
    OldestFirst
    ClearedStays
PROPERTIES
    AcknowledgedIsKept
    ImplementsLifecycle
CHECK_DEADLOCK FALSE
