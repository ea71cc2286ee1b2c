SPECIFICATION Spec
CONSTANTS
    Handles = {h1, h2}
    Sectors = {s1, s2, s3, s4, s5}
    Blocks <- MCBlocks
    Capacity = 2
    MaxWriters = 1
    MaxNoSpace = 1
INVARIANTS
    TypeOK
    MappedSectorsReadable
    NoSlotShared
SYMMETRY MCSymmetry
CHECK_DEADLOCK FALSE
