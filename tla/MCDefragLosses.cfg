SPECIFICATION Spec
CONSTANTS
    Layouts <- MCKnownLosses
    TreeClump = 1
INVARIANTS
    FilesKept
    AllocatedOnce
