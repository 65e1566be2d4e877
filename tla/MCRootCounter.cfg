\* All counters, all modes.
SPECIFICATION Spec
CONSTANTS
    Ids = {0, 1, 2}
    U16 = 4
    DOT_CYCLES <- TwoRates
    DIVIDER = 2
    Modes <- AllModes
    Values = {2}
    Targets = {0, 1, 3}
    MaxStep = 2
    MaxElapsed = 4
INVARIANTS EventIffRunning OneshotOnce CountsEveryCycle EventOnTime
