CONSTANTS
    Urls = {}
    InitUrls <- MCInitUrls
    Effective <- MCEffective
    FileType <- MCFileType
    Size <- MCSize
    Unlimited = Unlimited
    DefaultSize = 1
    DefaultSlots = 2
    Sizes = {}
    Slots = {1}
    Requested <- MCInitUrls
    StoredBound = 0
    QueueBound = 3
SPECIFICATION Spec
INVARIANTS
    QueueIsCache
CHECK_DEADLOCK FALSE
