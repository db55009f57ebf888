SPECIFICATION Spec
CONSTANTS
    a = a
    b = b
    Slice = {a, b}
    Large = {a}
    LayerLists <- ChangingLists
    None = None
    Gated = TRUE
    MaxDraws = 2
INVARIANTS
    TypeOK
    OneTool
    RulerOffMeasuresNothing
    CanAlwaysDraw
    SomeLayerSelected
PROPERTIES
    NewestFilterWins
