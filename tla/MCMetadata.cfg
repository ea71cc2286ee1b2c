SPECIFICATION Spec
CONSTANTS
    NumBlocks = 5
    MaxLeaf = 2
    MaxIndex = 4
    Clump = 1
    MaxDepth = 2
    PerOwner = 12
    Inodes = {1, 2, 3}
    MetaKeys = {1, 2}
    Comments = 2
    Values <- MCValues
    Takes <- MCTakes
    Queries <- MCQueries
    MinNum <- MCMinNum
    MaxNum = 3
    UserIndexes <- MCUserIndexes
    LargeBuilds = FALSE
    MaxChanges = 4
    MaxFaults = 1
INVARIANTS
    IndexesSound
    AnswersRight
CHECK_DEADLOCK FALSE
