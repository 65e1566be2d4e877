SPECIFICATION MCSpec
CONSTANTS
    SECTOR = 2
    MAX_SECTOR = 1
    RX_SIZE = 2
    Controls <- MCControls
    Guests <- MCGuests
INVARIANTS OneReplyPerByte PadFrames CardHoldsWrites
PROPERTY AckInterrupts
