SPECIFICATION FairSpec
CONSTANTS
    Blocks = 3
INVARIANTS
    TypeOK
    StopBoundsWork
    SuccessShowsResults
PROPERTIES
    PageCatchesUp
CHECK_DEADLOCK FALSE
