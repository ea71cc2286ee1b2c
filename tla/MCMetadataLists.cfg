SPECIFICATION Spec
CONSTANTS
    NumBlocks = 10
    MaxLeaf = 2
    MaxIndex = 4
    Clump = 1
    MaxDepth = 3
    PerOwner = 12
    Inodes = {1, 2, 3}
    MetaKeys = {1, 2}
    Comments = 2
    Values <- MCValues
    Takes <- MCTakesLists
    Queries <- MCListQueries
    MinNum <- MCMinNum
    MaxNum = 3
    UserIndexes <- MCUserIndexes
    LargeBuilds = FALSE
    MaxChanges = 2
    MaxFaults = 0
INVARIANT QueryAnswers
CHECK_DEADLOCK FALSE
