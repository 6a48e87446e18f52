SPECIFICATION FairSpec
CONSTANTS
    MAX = 3
    Total = 16
    Nuls <- SomeNuls
    Polling = TRUE
    Excluded <- AllSchedules
CHECK_DEADLOCK FALSE
INVARIANTS
    TypeOK
    InOrder
    InBounds
PROPERTY Delivered
