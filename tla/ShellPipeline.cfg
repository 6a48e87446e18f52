SPECIFICATION FairSpec
CONSTANTS
    J = 2
    Stages = 3
    MaxSize = 3
    MaxBuf = 4
    Capacity = 5
    Lengths = {0, 1, 6}
    Manners <- OneOrTheOther
CHECK_DEADLOCK FALSE
INVARIANTS
    TypeOK
    Composes
    PipesCompose
    LeavesNothing
PROPERTIES
    PromptReturns
