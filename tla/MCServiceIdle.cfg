SPECIFICATION Spec
CONSTANTS
    s1 = s1
    s2 = s2
    Sends <- TheSends
    Accounts <- TheAccounts
    Direct = "nil"
    None = None
    Cases <- TheCases
INVARIANT OnlySleepInterrupts
CHECK_DEADLOCK FALSE
