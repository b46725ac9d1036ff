SPECIFICATION FairSpec
CONSTANTS
    BufSize = 2
    StdioBuf = 2
    Unbounded = 100
    Jobs <- AllJobs
    Caps = {1, 3, 20}
INVARIANTS
    TypeOK
    UnboundedLosesOnlyTail
    JunkLeavesStreamFailed
PROPERTY
    Returns
    KeepsContract
