SPECIFICATION Spec
CONSTANTS
    a = a
    b = b
    Slice = {a, b}
    Large = {a}
    LayerLists <- OneLayerList
    None = None
    Gated = FALSE
    MaxDraws = 1
INVARIANTS
    ResetDiscardsResult
