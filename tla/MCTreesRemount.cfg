SPECIFICATION Spec
VIEW MCView
CONSTANTS
    NumBlocks = 6
    MaxLeaf = 2
    MaxIndex = 3
    Clump = 2
    MaxDepth = 4
    PerOwner = 3
    InlineMax = 2
    Kinds = {"stdata", "stref"}
    Remountable = {"stdata", "stref"}
    Chained = {"stdata", "stref"}
    Inputs <- MCInputs
    MaxBadBlocks = 0
    MaxDeleteLevels = 0
    MaxRemovals = 0
PROPERTY ActsAsMap
