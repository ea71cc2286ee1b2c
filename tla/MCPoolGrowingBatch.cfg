SPECIFICATION Spec
CONSTANTS
    Workers = {w1, w2}
    Submitter = sub
    AsyncJobs = {}
    BatchTotals <- MCShortThenLong
INVARIANTS
    SubmitWaitsForCompletion
