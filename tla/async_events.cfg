SPECIFICATION FairSpec
CONSTANTS
    j1 = j1
    j2 = j2
    Job = {j1, j2}
    MAX_RETRIES = 1
    MAX_EVENT_COUNT = 2
    StreamLimit = 2
INVARIANTS
    TypeOK
    NothingSkipped
PROPERTIES
    PromiseSafety
    PromiseSettles
CHECK_DEADLOCK FALSE
