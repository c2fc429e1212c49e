SPECIFICATION Spec
CONSTANTS
    a = a
    b = b
    Streams <- TheStreams
    First <- TheFirst
    Length <- TheLength
    Datagrams <- TheDatagrams
    Remotes <- TheRemotes
    FrameSamples = 2
    Capacity = 6
    Delay = 1
    Wrap = 64
    WrapSeq = 4
    Patience = 3
    Slack = 2
    CatchUp = 2
    Symmetric = TRUE
    None = None
    MaxClock = 4
    MaxArrivals = 5
    MaxUpdates = 1
INVARIANTS
    RingAgrees
    SamplesInPlace
    OnePeer
PROPERTIES
    TrainingKept
CHECK_DEADLOCK FALSE
