SPECIFICATION FairSpec
CONSTANTS
    Workers = {w1, w2}
    Submitter = sub
    AsyncJobs = {a1}
    BatchTotals <- MCOneBatch
INVARIANTS
    TypeOK
    NoUseOfFreedJob
    JobsRunOnce
PROPERTIES
    SubmissionsComplete
    DestroyJoinsWorkers
