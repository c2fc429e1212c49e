SPECIFICATION FairSpec
CONSTANTS
    caller = caller
    answerer = answerer
    Ends <- TheEnds
    Sender = caller
    Faxes <- TheFaxes
    MaxQueue = 2
    MaxDatagram = 4
    Patience = 1
INVARIANTS
    HeardAsSent
PROPERTIES
    OnlyLongGaps
    CallEnds
CHECK_DEADLOCK FALSE
