CONSTANTS
    NFragments = 4
    Layouts <- Mixed
    maxCached = 1
    Configs <- DashAndHls
    EsChanges = TRUE
    Commands = {"seek"}
SPECIFICATION FairSpec
INVARIANTS
    NoMutualWait
    TaskIsAlive
PROPERTIES
    FlushAtDiscontinuity
    WaitEnds
CHECK_DEADLOCK FALSE
