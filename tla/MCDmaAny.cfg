\* Any guest.
SPECIFICATION MCSpec
CONSTANTS
    Channels <- MCChannels
    U16 = 3
    SPU_BLOCK = 1
    Sizes = {1}
    Counts = {2}
    Nodes <- MCNodes
    Priorities = {0}
    IntControls <- MCControls
    Faults = {TRUE, FALSE}
    Careful = FALSE
INVARIANTS ActiveAreRunning MasterFlagAgrees
PROPERTIES StallEnds
CHECK_DEADLOCK FALSE
