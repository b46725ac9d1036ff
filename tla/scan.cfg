SPECIFICATION FairSpec
CONSTANTS
    BlockSize = 8
    RecHdr = 2
    Discs <- AllDiscs
    MaxCounts = {0, 1, 2, 3, 6}
INVARIANTS
    TypeOK
    WithinTable
    FreesOnce
    ScanIsExact
    NeverTorn
    IntactScans
PROPERTY
    ScanEnds
