CONSTANTS
    Cells = 4
    Windows = 3

SPECIFICATION FairSpec

INVARIANTS
    WholeFrame

PROPERTIES
    ImplementsReports
    EveryWindowSent
