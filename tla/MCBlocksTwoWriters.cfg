SPECIFICATION Spec
CONSTANTS
    Handles = {h1, h2}
    Sectors = {s1, s2, s3}
    Blocks <- MCBlocks
    Capacity = 2
    MaxWriters = 2
    MaxNoSpace = 0
PROPERTY AppendOnly
SYMMETRY MCSymmetry
CHECK_DEADLOCK FALSE
