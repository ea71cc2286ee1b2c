SPECIFICATION Spec
CONSTANTS
    Inodes = {1, 2, 3}
    Answers = {{1, 2}, {2, 3}, {1, 2, 3}}
    Clients = {c1}
    MaxCursors = 2
    PageSize = 2
    MaxQueries = 1
INVARIANT AllPathsOnce
CHECK_DEADLOCK FALSE
