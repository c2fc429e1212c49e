SPECIFICATION FairSpec
CONSTANTS
    Senders = {s1}
    Calls = 2
    Awaited = {1}
    Capacity = 1
    Workloads <- TheWorkloads
INVARIANTS
    NoStray
    FinalUpdateKept
PROPERTY EverybodyReturns
\* A client that is closed, and one nobody uses, are at rest.
CHECK_DEADLOCK FALSE
