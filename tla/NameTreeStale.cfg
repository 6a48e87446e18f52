SPECIFICATION Spec
CONSTANTS
    Names <- TwoNames
    Paths <- ShortPaths
    MaxNodes = 3
    Avoids <- NotStale
INVARIANT NothingLost
