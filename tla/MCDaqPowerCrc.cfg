CONSTANTS
    Cells = 4
    Windows = 3

SPECIFICATION Spec

INVARIANT
    ChecksumCoversBuffer
