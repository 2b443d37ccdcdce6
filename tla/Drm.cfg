CONSTANTS
    NSlots = 2
    Keys = {"v", "a", "b", "c"}
    KeySet <- MCKeySet
    Asks <- MCAsks
    License = License
    Decryptor = Decryptor
    Nobody = Nobody
    Configs <- MCConfigs
    Ticks = {1}
    MaxRequests = 4
    MaxTunes = 2
SPECIFICATION FairSpec
INVARIANTS
    SessionInUse
    RefusedIfFailed
    LastUsedSurvives
    StopIsSilent
PROPERTIES
    CallsReturn
CHECK_DEADLOCK FALSE
