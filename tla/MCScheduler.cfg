CONSTANTS
    MAX_EVENTS = 3
    MaxTimestamp = 3
    MaxId = 4
    TieGuard = TRUE
SPECIFICATION Spec
INVARIANTS NothingOverdue EveryEventAccounted
PROPERTY ImplementsTimerService
