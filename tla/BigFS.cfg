SPECIFICATION FairSpec
CONSTANTS
    Letters = {"f", "g"}
    Names <- PlainNames
    OldFiles <- LeftOver
    D = 2
    MaxChunks = 3
    MaxWrites = 2
    Tails <- FullTail
    Careful = TRUE
INVARIANTS
    TypeOK
    InSync
    NoneCrashes
    DistinctLocations
    DisksMatchDirectory
PROPERTIES
    KeepsPromise
    Completes
