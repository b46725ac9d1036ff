SPECIFICATION Spec
CONSTANTS
    MaxAvail = 34
    HashSize = 2
    IntMod = 16
    Irds <- SmallIrds
INVARIANTS
    TypeOK
    LoadedHasNoJunk
    AllOrNothing
    BadFreeOnlyOnTitle
    IntactLoads
