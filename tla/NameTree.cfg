SPECIFICATION Spec
CONSTANTS
    Names <- TwoNames
    Paths <- ShortPaths
    MaxNodes = 3
    Avoids <- Everything
INVARIANTS
    TypeOK
    NothingLost
    ProperTree
    Survives
PROPERTY KeepsNames
