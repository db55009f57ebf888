SPECIFICATION FairSpec
CONSTANTS
    a = a
    b = b
    Slice = {a, b}
    Large = {a}
    LayerLists <- FixedLists
    None = None
    Gated = FALSE
    MaxDraws = 3
INVARIANTS
    ResultMatchesShape
PROPERTIES
    ShapeAnswered
