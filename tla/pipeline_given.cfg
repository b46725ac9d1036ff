SPECIFICATION Spec
CONSTANTS
    Runs = {1, 2}
    Sigs = {1}
    Rips = {1}
    Outs = {1}
    None = 0
    OptSets <- GivenFile
INVARIANT
    SuppliedIrdIsRead
