SPECIFICATION Spec
CONSTANTS
    Letters = {"f", "g"}
    Names <- NumeralNames
    OldFiles <- Nothing
    D = 2
    MaxChunks = 2
    MaxWrites = 2
    Tails <- FullTail
    Careful = TRUE
INVARIANT FilesStayWhole
