--------------------------- MODULE MCLayerLoading ---------------------------
(***************************************************************************)
(* Instances of LayerLoading for TLC: the decks each run lets the user     *)
(* choose from.                                                            *)
(***************************************************************************)
EXTENDS LayerLoading

CONSTANTS s1, s2, s3, s4

Item(s, auto, lazy) ==
    [sliceId |-> s, autozoom |-> auto, lazyLoading |-> lazy,
     lassoSelectable |-> Undefined]

AutoItem(s)   == Item(s, TRUE, FALSE)
EagerItem(s)  == Item(s, FALSE, FALSE)
LazyItem(s)   == Item(s, TRUE, TRUE)    \* lazy loading wins over autozoom
LegacyItem(s) == Item(s, Undefined, Undefined)

\* A chart moves between the phases, leaves, comes back and is reordered.
ChurnDecks ==
    { <<AutoItem(s1), EagerItem(s2)>>,
      <<EagerItem(s2), LegacyItem(s1)>>,
      <<LazyItem(s2)>>,
      <<>> }

AllPhases ==
    { <<LazyItem(s1), EagerItem(s4), LazyItem(s2), LazyItem(s3)>>,
      <<AutoItem(s4), LazyItem(s2), AutoItem(s3), LazyItem(s1)>> }

AutoDeck == { <<AutoItem(s1)>> }
=============================================================================
