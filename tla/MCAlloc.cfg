SPECIFICATION FairSpec
CONSTANTS
    Clients = {c1, c2}
    TotalBlocks = 6
    WordBits = 3
    ChunkBits = 3
    Reserved = 1
    MaxCount = 3
    MaxWrites = 1
    MaxCrashes = 1
INVARIANTS TypeOK NoDoubleAllocation NothingLeaks FirstFit
PROPERTIES AcceptedBitmapIsWhole SearchEnds
CHECK_DEADLOCK FALSE
