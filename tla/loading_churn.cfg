SPECIFICATION Spec
CONSTANTS
    s1 = s1
    s2 = s2
    s3 = s3
    s4 = s4
    Undefined = Undefined
    Slice = {s1, s2}
    RawDecks <- ChurnDecks
    LAZY_BATCH_SIZE = 2
    MaxRenders = 2
    MaxEdits = 1
INVARIANTS
    TypeOK
    NoStaleLayers
    OneLayerPerSlice
PROPERTIES
    StaleChainStartsNothing
    LayersOnlyGrow
    RevealSafety
CHECK_DEADLOCK FALSE
