\* A careful guest, with pauses; the registers that are not written hold 0.
SPECIFICATION MCSpec
CONSTANTS
    Channels <- MCChannels
    U16 = 3
    SPU_BLOCK = 2
    Sizes = {2}
    Counts = {0, 2}
    Nodes <- MCNodes
    Priorities = {0}
    IntControls <- Silent
    Faults = {FALSE}
    Careful = TRUE
INVARIANT NoIdleRequest
PROPERTIES CompletedInFull StartedCompletes
CHECK_DEADLOCK FALSE
