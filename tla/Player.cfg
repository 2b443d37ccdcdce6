SPECIFICATION FairSpec
CONSTANTS
    App = App
    Worker = Worker
    Loop = Loop
    MaxCommands = 4
    MaxRequests = 2
    MaxReports = 1
INVARIANTS
    StopExcludesRetune
    CancelledIsWithdrawn
    PauseAtIsWatched
    RetuneIsScheduled
PROPERTIES
    CallsReturn
CHECK_DEADLOCK FALSE
