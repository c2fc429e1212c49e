SPECIFICATION FairSpec
CONSTANTS
    s1 = s1
    s2 = s2
    Sends <- TheSends
    Accounts <- TheAccounts
    Direct = "nil"
    None = None
    Cases <- TheCases
PROPERTY ContestedEnds
CHECK_DEADLOCK FALSE
