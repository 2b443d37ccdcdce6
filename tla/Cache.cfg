CONSTANTS
    Urls <- MCUrls
    InitUrls <- MCInitUrls
    Effective <- MCEffective
    FileType <- MCFileType
    Size <- MCSize
    Unlimited = Unlimited
    DefaultSize = 4
    DefaultSlots = 2
    Sizes = {3}
    Slots = {1}
    Requested <- MCRequested
    StoredBound = 5
    QueueBound = 3
SPECIFICATION FairSpec
INVARIANTS
    BuffersLive
    RightContent
    StoredSizeCovers
    QueueIsCache
PROPERTIES
    WithinLimits
    DestructorReturns
CHECK_DEADLOCK FALSE
