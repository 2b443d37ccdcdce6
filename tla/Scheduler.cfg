CONSTANTS
    Callers = {c1, c2}
    IdMax = 4
    MaxTasks = 3
    MaxSuspends = 2
SPECIFICATION FairSpec
INVARIANTS
    ClearedTasksNeverRun
    ClearedQueueStaysEmpty
PROPERTIES
    ImplementsSerialExecutor
    QueueIsServed
    StopTerminates
CHECK_DEADLOCK FALSE
