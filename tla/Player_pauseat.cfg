SPECIFICATION Spec
CONSTANTS
    App = App
    Worker = Worker
    Loop = Loop
    MaxCommands = 3
    MaxRequests = 2
    MaxReports = 2
INVARIANTS
    PausesForItsRequest
CHECK_DEADLOCK FALSE
