SPECIFICATION Spec
CONSTANTS
    Files = {f1, f2}
    Values = {"zero", "a"}
    NumBlocks = 5
    GroupBlocks = 2
    InlineSlots = 1
    Compression = TRUE
    MaxSize = 3
    Risks = {"deleteShared"}
INVARIANTS
    ReferencesCounted
CHECK_DEADLOCK FALSE
