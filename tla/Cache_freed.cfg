CONSTANTS
    Urls = {}
    InitUrls <- MCInitUrls
    Effective <- MCEffective
    FileType <- MCFileType
    Size <- MCSize
    Unlimited = Unlimited
    DefaultSize = 1
    DefaultSlots = 1
    Sizes = {}
    Slots = {}
    Requested <- MCInitUrls
    StoredBound = 0
    QueueBound = 3
SPECIFICATION Spec
INVARIANTS
    InitBuffersLive
CHECK_DEADLOCK FALSE
