SPECIFICATION FairSpec
CONSTANTS
    N = 4
    R = 2
    Instructions <- MCInstructions
    Sr <- MCSr
INVARIANT SlotFlags
PROPERTIES ImplementsArchitecture InterruptTaken
CHECK_DEADLOCK FALSE
