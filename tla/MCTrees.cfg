SPECIFICATION Spec
VIEW MCView
CONSTANTS
    NumBlocks = 7
    MaxLeaf = 2
    MaxIndex = 3
    Clump = 2
    MaxDepth = 4
    PerOwner = 3
    InlineMax = 2
    Kinds = {"catalog", "inode", "refcount", "overflow", "stdata", "stref", "media", "cd", "junk", "meta", "midx", "numidx", "dedup"}
    Remountable = {"catalog", "inode", "refcount", "overflow", "media", "cd", "junk", "meta", "midx", "numidx", "dedup"}
    Chained = {"catalog", "inode", "refcount", "overflow", "stdata", "media", "cd", "junk", "meta", "midx", "numidx", "dedup"}
    Inputs <- MCInputs
    MaxBadBlocks = 1
    MaxDeleteLevels = 2
    MaxRemovals = 2
INVARIANTS
    TreeSound
    BesideTree
PROPERTY ActsAsMap
