----------------------------- MODULE MCMapTools -----------------------------
(***************************************************************************)
(* Instances of MapTools for TLC: which layers a load may leave on the map *)
(* and which of them can be lassoed.                                       *)
(***************************************************************************)
EXTENDS MapTools

CONSTANTS a, b

List(layers, lasso) == [loaded |-> layers, available |-> lasso]

\* Two layers, the first one found again after every load.
FixedLists == { List({a, b}, <<a, b>>) }

OneLayerList == { List({a}, <<a>>) }

\* Layers come and go; one of them may not be lasso-selectable.
ChangingLists ==
    { List({}, <<>>), List({a, b}, <<b, a>>), List({a, b}, <<b>>),
      List({a}, <<>>) }
=============================================================================
