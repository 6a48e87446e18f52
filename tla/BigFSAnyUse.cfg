SPECIFICATION Spec
CONSTANTS
    Letters = {"f", "g"}
    Names <- PlainNames
    OldFiles <- LeftOver
    D = 2
    MaxChunks = 2
    MaxWrites = 2
    Tails <- AnyTail
    Careful = FALSE
CHECK_DEADLOCK FALSE
INVARIANTS
    UniqueNames
    StopAndWait
    FilesStayWhole
