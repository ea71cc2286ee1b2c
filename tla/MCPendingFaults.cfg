SPECIFICATION Spec
CONSTANTS
    Hashes <- MCHashes
    SizeOf <- MCTwoSizes
    BatchSize = 2
    KeysetCapacity = 3
    MaxMounts = 1
    FaultKinds = {"create", "grow", "tree", "badmagic", "trim", "saveKeyset"}
    MaxFaults = 2
INVARIANTS
    TypeOK
    NothingLost
    DrainedBufferStays
CHECK_DEADLOCK FALSE
