CONSTANTS
    Cells = 4
    Windows = 3

SPECIFICATION FairSpec

INVARIANTS
    WholeWindow

PROPERTIES
    ImplementsReports
    EveryWindowReported
