SPECIFICATION Spec
CONSTANTS
    Faxes = {f1}
    Suffixes = 2
    MaxFiles = 0
    MaxRestarts = 0
    MaxFaults <- NoFaults
INVARIANT PublishedHasFile
CHECK_DEADLOCK FALSE
