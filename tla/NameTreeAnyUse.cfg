SPECIFICATION Spec
CONSTANTS
    Names <- OneName
    Paths <- LoopPaths
    MaxNodes = 2
    Avoids <- Anything
CHECK_DEADLOCK FALSE
INVARIANT FilesAreLeaves
