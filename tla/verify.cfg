SPECIFICATION Spec
CONSTANTS
    Names <- MCNames
    Sums = {1, 2}
    Lens = {0, 1}
    MaxChanges = 2
    Discs <- AllDiscs
INVARIANTS
    TypeOK
    
    SectorsAgree
