SPECIFICATION Spec
CONSTANTS
    Faxes = {f1}
    Suffixes = 2
    MaxFiles = 0
    MaxRestarts = 0
    MaxFaults <- OneFault
INVARIANT OneCopy
CHECK_DEADLOCK FALSE
