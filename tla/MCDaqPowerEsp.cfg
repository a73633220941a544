CONSTANTS
    Cells = 4
    Windows = 4

SPECIFICATION FairSpec

PROPERTY
    EveryWindowReachesEsp
