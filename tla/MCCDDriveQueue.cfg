\* A command that answers at once is queued behind another one.
CONSTANTS
    FIFO_SIZE = 4
    PARAM_SIZE = 1
    GETSTAT_NORMAL = 2
    GET_ID = 1
    READ_TOC = 3
    STOP = 5
    PAUSE = 4
    PAUSE_PAUSED = 1
    READ = 8
    INT_DELAY = 1
    DATA_DELAY = 1
    HasDisc = TRUE
    Sectors = 2
    IntMasks <- AllBits
    Commands = {"GetStat", "GetID"}
    Care = {"acks", "init", "reads"}
    MaxStray = 1
SPECIFICATION Spec
INVARIANTS NoOrphanResponse
