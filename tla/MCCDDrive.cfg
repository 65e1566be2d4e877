\* A careful guest: what it may rely on, and progress.
CONSTANTS
    FIFO_SIZE = 3
    PARAM_SIZE = 3
    GETSTAT_NORMAL = 2
    GET_ID = 1
    READ_TOC = 3
    STOP = 3
    PAUSE = 2
    PAUSE_PAUSED = 1
    READ = 4
    INT_DELAY = 1
    DATA_DELAY = 1
    HasDisc = TRUE
    Sectors = 1
    IntMasks <- AllBits
    Commands = {"GetID", "SetLoc", "Stop", "SeekL", "Test", "Pause", "ReadN", "Init"}
    Care = {"acks", "init", "queue", "reads"}
    MaxStray = 1
SPECIFICATION FairSpec
INVARIANTS NoOrphanResponse FlagMatchesHead SilenceOrdered
PROPERTIES ResponseDelivered QueuedCommandRuns
