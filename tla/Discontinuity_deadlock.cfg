CONSTANTS
    NFragments = 4
    Layouts <- Paired
    maxCached = 1
    Configs <- Dash
    EsChanges = FALSE
    Commands = {"rate"}
SPECIFICATION FairSpec
PROPERTIES
    TeardownReturns
CHECK_DEADLOCK FALSE
