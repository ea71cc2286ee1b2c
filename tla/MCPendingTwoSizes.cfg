SPECIFICATION Spec
CONSTANTS
    Hashes <- MCHashes
    SizeOf <- MCTwoSizes
    BatchSize = 1
    KeysetCapacity = 3
    MaxMounts = 0
    FaultKinds = {}
    MaxFaults = 0
INVARIANTS
    BoundToOneSize
CHECK_DEADLOCK FALSE
