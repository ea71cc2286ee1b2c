SPECIFICATION Spec
CONSTANTS
    Layouts <- MCLayouts
    TreeClump = 1
INVARIANTS
    VolumeSound
    FilesKept
    ImagesReadable
    Packed
PROPERTY
    Terminates
