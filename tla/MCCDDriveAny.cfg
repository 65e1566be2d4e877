\* A guest that respects nothing.
CONSTANTS
    FIFO_SIZE = 2
    PARAM_SIZE = 1
    GETSTAT_NORMAL = 1
    GET_ID = 1
    READ_TOC = 2
    STOP = 3
    PAUSE = 2
    PAUSE_PAUSED = 1
    READ = 4
    INT_DELAY = 1
    DATA_DELAY = 1
    HasDisc = TRUE
    Sectors = 2
    IntMasks <- AllBits
    Commands = {"GetID", "Pause", "ReadN", "Init", "Setmode"}
    Care = {}
    MaxStray = 1
SPECIFICATION Spec
INVARIANTS CommandSlot AnnouncedSectorIntact ReadingIsLive
CHECK_DEADLOCK FALSE
