\* Five events make a heap with two inner nodes and a half-filled last one.
CONSTANTS
    MAX_EVENTS = 5
    MaxTimestamp = 2
    MaxId = 5
    TieGuard = FALSE
SPECIFICATION HeapSpec
INVARIANTS HeapOrdered
PROPERTIES ImplementsScheduler
CHECK_DEADLOCK FALSE
