SPECIFICATION FairSpec
CONSTANTS
    N = 2
    MaxTyped = 2
    MaxDeaths = 1
    Manners <- CarefulOrNot
CHECK_DEADLOCK FALSE
INVARIANTS
    TypeOK
    AtMostOnce
    WaitedFor
    InStep
    Obeyed
    ActiveIsConnected
PROPERTIES
    Responds
    Recovers
