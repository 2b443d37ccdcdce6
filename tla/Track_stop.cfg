CONSTANTS
    maxCachedFragmentsPerTrack = 2
    Total = 4
    DiscontinuityAt <- SecondFragment
    PrePlayBufferCount = 1
    Timeouts <- TimedOnly
    MaxRestarts = 1
    MaxSwitches = 1
    SegmentInjectThreshold = 2
    SinkDiscards = FALSE
    Spurious = TRUE
SPECIFICATION StopSpec
PROPERTIES
    StopReturns
CHECK_DEADLOCK FALSE
