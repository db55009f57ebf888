SPECIFICATION FairSpec
CONSTANTS
    s1 = s1
    s2 = s2
    s3 = s3
    s4 = s4
    Undefined = Undefined
    Slice = {s1, s2, s3, s4}
    RawDecks <- AllPhases
    LAZY_BATCH_SIZE = 2
    MaxRenders = 1
    MaxEdits = 0
INVARIANTS
    LazyLast
    LazyBatchBound
PROPERTIES
    NoViewportJump
    FitWaitsForAutozoom
    RevealSettles
CHECK_DEADLOCK FALSE
