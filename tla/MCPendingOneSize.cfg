SPECIFICATION FairSpec
CONSTANTS
    Hashes <- MCHashes
    SizeOf <- MCOneSize
    BatchSize = 2
    KeysetCapacity = 3
    MaxMounts = 1
    FaultKinds = {}
    MaxFaults = 0
INVARIANTS
    StoredOnce
PROPERTIES
    EventuallyDrained
    CloseCompletes
CHECK_DEADLOCK FALSE
