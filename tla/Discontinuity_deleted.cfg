CONSTANTS
    NFragments = 4
    Layouts <- Paired
    maxCached = 1
    Configs <- Dash
    EsChanges = TRUE
    Commands = {"seek"}
SPECIFICATION Spec
INVARIANTS
    StreamIsAlive
CHECK_DEADLOCK FALSE
