SPECIFICATION Spec
CONSTANTS
    MAX = 3
    Total = 16
    Nuls <- SomeNuls
    Polling = FALSE
    Excluded <- NoRace
CHECK_DEADLOCK FALSE
INVARIANT InOrder
