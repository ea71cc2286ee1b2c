SPECIFICATION FairSpec
CONSTANTS
    Workers = {w1}
    Submitter = sub
    AsyncJobs = {}
    BatchTotals <- MCTwoBatches
PROPERTY SubmitReturns
