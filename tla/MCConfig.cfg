SPECIFICATION FairSpec
CONSTANTS
    c1 = c1
    c2 = c2
    c3 = c3
    c4 = c4
    office = office
    Calls <- TheCalls
    Profiles <- TheProfiles
    Direct = Direct
    None = None
    PoolSize = 1
    MaxReplies = 2
    Cases <- TheCases
INVARIANTS
    ReceiverIsCurrent
    LastSaveWins
PROPERTIES
    CallsEnd
CHECK_DEADLOCK FALSE
