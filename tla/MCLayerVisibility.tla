-------------------------- MODULE MCLayerVisibility --------------------------
(***************************************************************************)
(* Instances of LayerVisibility for TLC: a layer with categories, a layer  *)
(* without, and one that may be either, under one or two legend titles.    *)
(***************************************************************************)
EXTENDS LayerVisibility

CONSTANTS categorical, plain, mixed, red, blue, title1, title2

Deck(charts, hidden) == [charts |-> charts, hidden |-> hidden]

LegendDecks ==
    { Deck({categorical, plain, mixed}, {}),
      Deck({categorical, plain, mixed}, {categorical, plain}) }

ShownDecks == { Deck({categorical, plain, mixed}, {}) }

\* An answer may bring other categories after an edit or another filter.
Categories ==
    [s \in Slice |->
        CASE s = categorical -> {{red}, {red, blue}}
          [] s = plain -> {{}}
          [] s = mixed -> {{}, {blue}}]

OwnTitles == [s \in Slice |-> IF s = categorical THEN title1 ELSE title2]

\* The layer without categories changes its group when it is loaded.
StubTitles == [s \in Slice |-> IF s = mixed THEN title2 ELSE title1]
=============================================================================
