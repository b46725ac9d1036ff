SPECIFICATION Spec
CONSTANTS
    BlockSize = 4
    UMod = 16
    StdioBuf = 3
    JunkMax = 1
    Discs <- SharedBlockDiscs
    FileLens = {0, 2, 4, 5}
    Caps = {9, 100}
INVARIANT
    AssertHolds
