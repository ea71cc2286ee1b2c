SPECIFICATION Spec
CONSTANTS
    Clients = {c1, c2}
    TotalBlocks = 6
    WordBits = 3
    ChunkBits = 3
    Reserved = 1
    MaxCount = 3
    MaxWrites = 0
    MaxCrashes = 0
INVARIANTS NoSpaceMeansNone
CHECK_DEADLOCK FALSE
