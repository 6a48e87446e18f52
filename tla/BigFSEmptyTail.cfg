SPECIFICATION FairSpec
CONSTANTS
    Letters = {"f", "g"}
    Names <- PlainNames
    OldFiles <- Nothing
    D = 2
    MaxChunks = 1
    MaxWrites = 1
    Tails <- NoFullTail
    Careful = TRUE
CHECK_DEADLOCK FALSE
PROPERTY Completes
