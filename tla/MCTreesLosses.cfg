SPECIFICATION Spec
VIEW MCView
CONSTANTS
    NumBlocks = 7
    MaxLeaf = 2
    MaxIndex = 3
    Clump = 2
    MaxDepth = 4
    PerOwner = 3
    InlineMax = 2
    Kinds = {"stref", "media"}
    Remountable = {"media"}
    Chained = {"stref", "media"}
    Inputs <- MCInputs
    MaxBadBlocks = 0
    MaxDeleteLevels = 2
    MaxRemovals = 2
INVARIANT ExternalExact
PROPERTY ActsAsMap
