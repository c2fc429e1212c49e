SPECIFICATION FairSpec
CONSTANTS
    Faxes = {f1, f2}
    Suffixes = 2
    MaxFiles = 1
    MaxRestarts = 2
    MaxFaults <- Faults
INVARIANTS
    JournalledFirst
    ExportsOnce
PROPERTIES
    ImplementsDelivery
    ExportEnds
CHECK_DEADLOCK FALSE
