SPECIFICATION FairSpec
CONSTANTS
    w1 = w1
    w2 = w2
    Worker = {w1, w2}
    ScheduleTypes <- AllTypes
    GracePeriod = 4
    WorkingTimeout = 1
    TimeoutLag = 0
    Retention = 2
    Period = 1
    MaxQueued = 2
INVARIANTS
    TypeOK
PROPERTIES
    GraceRespected
    RefusedKeepsResult
    WorkingIsUnlocked
