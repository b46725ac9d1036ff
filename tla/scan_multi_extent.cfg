SPECIFICATION Spec
CONSTANTS
    BlockSize = 8
    RecHdr = 2
    Discs <- MultiDiscs
    MaxCounts = {6}
INVARIANT
    MultiExtentScans
