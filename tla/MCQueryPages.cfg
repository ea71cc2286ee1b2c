SPECIFICATION Spec
CONSTANTS
    Inodes = {1, 2, 3}
    Answers = {{1, 2}, {1, 2, 3}}
    Clients = {c1, c2}
    MaxCursors = 2
    PageSize = 1
    MaxQueries = 4
INVARIANT ClientsServed
PROPERTY QueriesEnd
CHECK_DEADLOCK FALSE
