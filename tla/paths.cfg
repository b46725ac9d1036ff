SPECIFICATION FairSpec
CONSTANTS
    DescEnd = 4
    RecHdr = 2
    ByteMod = 16
    MaxFolders = 4
    BufSize = 6
    Discs <- AllDiscs
INVARIANTS
    TypeOK
    TableIsComplete
    PathIsOfDisc
    NamesStayInBounds
    OverrunsByTheSlash
    FreedOnceAndLast
    DiesOnlyInTable
PROPERTY
    PathsEnd
