CONSTANTS
    maxCachedFragmentsPerTrack = 3
    Total = 7
    DiscontinuityAt <- SecondFragment
    PrePlayBufferCount = 1
    Timeouts <- TimedOnly
    MaxRestarts = 2
    MaxSwitches = 0
    SegmentInjectThreshold = 2
    SinkDiscards = TRUE
    Spurious = FALSE
SPECIFICATION FairSpec
INVARIANTS
    RingInOrder
PROPERTIES
    ImplementsChannel
    EosAfterLastFragment
    StreamIsInjected
CHECK_DEADLOCK FALSE
