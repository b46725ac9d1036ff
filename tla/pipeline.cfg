SPECIFICATION Spec
CONSTANTS
    Runs = {1, 2}
    Sigs = {1, 2}
    Rips = {1, 2}
    Outs = {1, 2}
    None = 0
    OptSets <- AllOptions
INVARIANTS
    TypeOK
    AloneIsWhole
    
