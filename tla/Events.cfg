CONSTANTS
    Senders = {s1, s2}
    Listeners = {l1, l2}
    MaxEvents = 2
    MaxSyncs = 1
    MaxStops = 1
    MaxChanges = 2
SPECIFICATION FairSpec
INVARIANTS
    CallbacksMatchEvents
    OnlyOwedCalls
PROPERTIES
    ImplementsMailbox
    QueuedIsTaken
CHECK_DEADLOCK FALSE
