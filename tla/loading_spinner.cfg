SPECIFICATION Spec
CONSTANTS
    s1 = s1
    s2 = s2
    s3 = s3
    s4 = s4
    Undefined = Undefined
    Slice = {s1}
    RawDecks <- AutoDeck
    LAZY_BATCH_SIZE = 2
    MaxRenders = 0
    MaxEdits = 0
INVARIANTS
    CanvasShownWhenSettled
CHECK_DEADLOCK FALSE
