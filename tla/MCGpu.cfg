SPECIFICATION Spec
CONSTANTS
    VX = 4
    VY = 2
    ALIGN = 2
    MAX_PRIMITIVES = 2
    FIFO_SIZE = 16
    MaxCommands = 3
    Commands <- MCCommands
    Care = {"cache", "page", "copy", "pair", "read", "polyline"}
INVARIANTS
    InStep
    DmaFed
PROPERTIES
    ImplementsPainter
    ReadsImage
