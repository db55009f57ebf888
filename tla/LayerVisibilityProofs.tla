----------------------- MODULE LayerVisibilityProofs -----------------------
(***************************************************************************)
(* Proofs about LayerVisibility, for every set of charts, labels, titles,  *)
(* decks and categories, and any number of loads.                          *)
(***************************************************************************)
EXTENDS LayerVisibility, TLAPS

-----------------------------------------------------------------------------
(* Lemmas about the operators.                                             *)

\* An override has the entries of its first argument, and those of its second
\* one that the first one lacks.
LEMMA OverrideDomain ==
    ASSUME NEW f, NEW g
    PROVE  DOMAIN Override(f, g) = DOMAIN f \cup DOMAIN g
BY DEF Override

LEMMA OverrideFirst ==
    ASSUME NEW f, NEW g, NEW x \in DOMAIN f
    PROVE  Override(f, g)[x] = f[x]
BY DEF Override

LEMMA OverrideSecond ==
    ASSUME NEW f, NEW g, NEW x \in DOMAIN g, x \notin DOMAIN f
    PROVE  Override(f, g)[x] = g[x]
BY DEF Override

LEMMA OverridePartial ==
    ASSUME NEW S, NEW T, NEW f, NEW g,
           PartialFunction(f, S, T), PartialFunction(g, S, T)
    PROVE  PartialFunction(Override(f, g), S, T)
<1>1. \A x \in DOMAIN f : f[x] \in T
  BY DEF PartialFunction
<1>2. \A x \in DOMAIN g : g[x] \in T
  BY DEF PartialFunction
<1>3. DOMAIN Override(f, g) \subseteq S
  BY OverrideDomain DEF PartialFunction
<1>4. Override(f, g) \in [DOMAIN f \cup DOMAIN g -> T]
  BY <1>1, <1>2 DEF Override
<1> QED
  BY <1>3, <1>4, OverrideDomain DEF PartialFunction

\* The parts of the type invariant that the effects are about.
LayerFor(s, l) ==
    /\ l \in Layer
    /\ l.labels \in CategorySets[s]
    /\ l.drawn \subseteq l.labels

LayersFor(ls) == \A s \in DOMAIN ls : LayerFor(s, ls[s])

CategoryMap(cv) ==
    /\ DOMAIN cv \subseteq Slice
    /\ \A s \in DOMAIN cv : PartialFunction(cv[s], Label, BOOLEAN)

VisibilityMap(lv) == PartialFunction(lv, Slice, BOOLEAN)

LEMMA TypeParts ==
    ASSUME TypeOK
    PROVE  /\ LayersFor(layers)
           /\ DOMAIN layers \subseteq slicesData \ pending
           /\ CategoryMap(categoryVisibility)
           /\ VisibilityMap(layerVisibility)
BY DEF TypeOK, LayersFor, LayerFor, CategoryMap, VisibilityMap

LEMMA OverrideCategories ==
    ASSUME NEW f, NEW g, CategoryMap(f), CategoryMap(g)
    PROVE  CategoryMap(Override(f, g))
<1>1. DOMAIN Override(f, g) = DOMAIN f \cup DOMAIN g
  BY OverrideDomain
<1>2. ASSUME NEW s \in DOMAIN f
      PROVE  PartialFunction(Override(f, g)[s], Label, BOOLEAN)
  BY OverrideFirst DEF CategoryMap
<1>3. ASSUME NEW s \in DOMAIN g \ DOMAIN f
      PROVE  PartialFunction(Override(f, g)[s], Label, BOOLEAN)
  BY OverrideSecond DEF CategoryMap
<1> QED
  BY <1>1, <1>2, <1>3 DEF CategoryMap

\* Rebuilding changes what is drawn of a layer and nothing else about it.
LEMMA RebuildKeeps ==
    ASSUME NEW ls, NEW cv, LayersFor(ls)
    PROVE  /\ DOMAIN Rebuild(ls, cv) = DOMAIN ls
           /\ LayersFor(Rebuild(ls, cv))
           /\ \A s \in DOMAIN ls :
                /\ Rebuild(ls, cv)[s].labels = ls[s].labels
                /\ Rebuild(ls, cv)[s].empty = ls[s].empty
                /\ Rebuild(ls, cv)[s].initiallyHidden = ls[s].initiallyHidden
<1>1. DOMAIN Rebuild(ls, cv) = DOMAIN ls
  BY DEF Rebuild
<1>2. ASSUME NEW s \in DOMAIN ls
      PROVE  /\ Rebuild(ls, cv)[s].labels = ls[s].labels
             /\ Rebuild(ls, cv)[s].empty = ls[s].empty
             /\ Rebuild(ls, cv)[s].initiallyHidden = ls[s].initiallyHidden
             /\ LayerFor(s, Rebuild(ls, cv)[s])
  <2> DEFINE enabled == {label \in ls[s].labels : Enabled(cv, s, label)}
             redrawn == [ls[s] EXCEPT !.drawn = enabled]
  <2>1. ls[s] \in Layer /\ LayerFor(s, ls[s])
    BY DEF LayersFor, LayerFor
  <2>2. Rebuild(ls, cv)[s] = ls[s] \/ Rebuild(ls, cv)[s] = redrawn
    BY DEF Rebuild
  <2>3. /\ redrawn.labels = ls[s].labels
        /\ redrawn.empty = ls[s].empty
        /\ redrawn.initiallyHidden = ls[s].initiallyHidden
        /\ redrawn.drawn = enabled
    BY <2>1 DEF Layer
  <2>4. enabled \subseteq ls[s].labels /\ enabled \in SUBSET Label
    BY <2>1 DEF Layer
  <2>5. redrawn \in Layer
    <3> HIDE DEF enabled
    <3> QED
      BY <2>1, <2>4 DEF Layer
  <2>6. LayerFor(s, redrawn)
    <3> HIDE DEF redrawn
    <3> QED
      BY <2>1, <2>3, <2>4, <2>5 DEF LayerFor
  <2> QED
    BY <2>1, <2>2, <2>3, <2>6
<1> QED
  BY <1>1, <1>2 DEF LayersFor

\* A label is enabled or not.
LEMMA CheckedBoolean ==
    ASSUME NEW lv, VisibilityMap(lv), NEW s
    PROVE  /\ Checked(lv, s) \in BOOLEAN
           /\ s \in DOMAIN lv => lv[s] \in BOOLEAN
BY DEF Checked, VisibilityMap, PartialFunction

LEMMA SyncDecides ==
    ASSUME NEW ls, NEW cv, NEW lv, VisibilityMap(lv), DOMAIN ls \subseteq Slice
    PROVE  /\ VisibilityMap(Sync(ls, cv, lv))
           /\ DOMAIN lv \subseteq DOMAIN Sync(ls, cv, lv)
           /\ \A s \in DOMAIN ls \cap DOMAIN cv :
                ls[s].labels # {} =>
                  (Checked(Sync(ls, cv, lv), s) <=> AnyEnabled(ls, cv, s))
           /\ \A s \in Slice :
                \/ s \notin DOMAIN ls
                \/ s \notin DOMAIN cv
                \/ ls[s].labels = {}
                \/ Checked(lv, s) <=> AnyEnabled(ls, cv, s)
                => (Checked(Sync(ls, cv, lv), s) <=> Checked(lv, s))
<1> DEFINE synced == {s \in DOMAIN ls \cap DOMAIN cv :
                        /\ ls[s].labels # {}
                        /\ Checked(lv, s) # AnyEnabled(ls, cv, s)}
           values == [s \in synced |-> AnyEnabled(ls, cv, s)]
<1>1. Sync(ls, cv, lv) = Override(values, lv)
  BY DEF Sync
<1>2. \A s : AnyEnabled(ls, cv, s) \in BOOLEAN
  BY DEF AnyEnabled
<1>3. PartialFunction(values, Slice, BOOLEAN)
  BY <1>2 DEF PartialFunction
<1>4. VisibilityMap(Override(values, lv))
  BY <1>3, OverridePartial DEF VisibilityMap
<1>5. DOMAIN values = synced
  OBVIOUS
<1>6. \A s \in synced : Override(values, lv)[s] = AnyEnabled(ls, cv, s)
  <2>1. \A s \in synced : values[s] = AnyEnabled(ls, cv, s)
    BY Zenon
  <2>2. \A s \in synced : Override(values, lv)[s] = values[s]
    <3> HIDE DEF values
    <3> QED
      BY <1>5, OverrideFirst
  <2> QED
    BY <2>1, <2>2, Zenon
<1>7. ASSUME NEW s, s \notin synced
      PROVE  Checked(Override(values, lv), s) <=> Checked(lv, s)
  <2> HIDE DEF values, synced
  <2>1. DOMAIN Override(values, lv) = synced \cup DOMAIN lv
    BY <1>5, OverrideDomain
  <2>2. s \in DOMAIN lv => Override(values, lv)[s] = lv[s]
    BY <1>5, <1>7, OverrideSecond
  <2> QED
    BY <1>7, <2>1, <2>2 DEF Checked
<1>8. ASSUME NEW s \in synced
      PROVE  Checked(Override(values, lv), s) <=> AnyEnabled(ls, cv, s)
  <2> HIDE DEF values, synced
  <2>1. s \in DOMAIN Override(values, lv)
    BY <1>5, OverrideDomain
  <2> QED
    BY <2>1, <1>6 DEF Checked
<1>9. ASSUME NEW s \in DOMAIN ls \cap DOMAIN cv, ls[s].labels # {}
      PROVE  Checked(Override(values, lv), s) <=> AnyEnabled(ls, cv, s)
  <2>1. CASE s \in synced
    BY <2>1, <1>8
  <2>2. CASE s \notin synced
    <3>1. Checked(lv, s) = AnyEnabled(ls, cv, s)
      BY <1>9, <2>2
    <3> QED
      BY <2>2, <3>1, <1>7
  <2> QED
    BY <2>1, <2>2
<1>10. ASSUME NEW s \in Slice,
              \/ s \notin DOMAIN ls
              \/ s \notin DOMAIN cv
              \/ ls[s].labels = {}
              \/ Checked(lv, s) <=> AnyEnabled(ls, cv, s)
       PROVE  Checked(Override(values, lv), s) <=> Checked(lv, s)
  <2>1. Checked(lv, s) \in BOOLEAN
    BY CheckedBoolean
  <2>2. s \notin synced
    BY <1>10, <1>2, <2>1
  <2> QED
    BY <2>2, <1>7
<1>11. DOMAIN lv \subseteq DOMAIN Override(values, lv)
  BY OverrideDomain
<1> QED
  <2> HIDE DEF values
  <2> QED
    BY <1>1, <1>4, <1>9, <1>10, <1>11

\* The state after a setter and the two effects: the layers are those in ls up
\* to what is drawn of them, and visibility was synchronised last.
Settled(ls, updates, lv) ==
    /\ DOMAIN layers' = DOMAIN ls
    /\ LayersFor(layers')
    /\ \A s \in DOMAIN ls :
         /\ layers'[s].labels = ls[s].labels
         /\ layers'[s].empty = ls[s].empty
         /\ layers'[s].initiallyHidden = ls[s].initiallyHidden
    /\ categoryVisibility' = Override(updates, categoryVisibility)
    /\ CategoryMap(categoryVisibility')
    /\ layerVisibility' = Sync(layers', categoryVisibility', lv)
    /\ VisibilityMap(layerVisibility')
    /\ DOMAIN lv \subseteq DOMAIN layerVisibility'
    /\ \A s \in DOMAIN ls \ DOMAIN categoryVisibility' : layers'[s] = ls[s]
    /\ DOMAIN updates # {} => layers' = Rebuild(ls, categoryVisibility')

LEMMA SettleKeeps ==
    ASSUME NEW ls, NEW updates, NEW lv,
           LayersFor(ls), DOMAIN ls \subseteq Slice,
           CategoryMap(updates), CategoryMap(categoryVisibility),
           VisibilityMap(lv), Settle(ls, updates, lv)
    PROVE  Settled(ls, updates, lv)
<1>1. categoryVisibility' = Override(updates, categoryVisibility)
  BY DEF Settle
<1>2. CategoryMap(categoryVisibility')
  BY <1>1, OverrideCategories
<1>3. layers' = ls \/ layers' = Rebuild(ls, categoryVisibility')
  BY <1>1 DEF Settle
<1>4. layerVisibility' = Sync(layers', categoryVisibility', lv)
  BY <1>1 DEF Settle
<1>5. /\ DOMAIN layers' = DOMAIN ls
      /\ LayersFor(layers')
      /\ \A s \in DOMAIN ls :
           /\ layers'[s].labels = ls[s].labels
           /\ layers'[s].empty = ls[s].empty
           /\ layers'[s].initiallyHidden = ls[s].initiallyHidden
  BY <1>3, RebuildKeeps
<1>6. /\ VisibilityMap(layerVisibility')
      /\ DOMAIN lv \subseteq DOMAIN layerVisibility'
  BY <1>4, <1>5, SyncDecides
<1>7. \A s \in DOMAIN ls \ DOMAIN categoryVisibility' : layers'[s] = ls[s]
  BY <1>3 DEF Rebuild
<1>8. DOMAIN updates # {} => layers' = Rebuild(ls, categoryVisibility')
  BY <1>1 DEF Settle
<1> QED
  BY <1>1, <1>2, <1>4, <1>5, <1>6, <1>7, <1>8 DEF Settled

-----------------------------------------------------------------------------
(* The arguments with which the actions settle the state.                  *)

LEMMA EntryFields ==
    ASSUME NEW s, NEW cats, NEW empty
    PROVE  /\ Entry(s, cats, s \in empty).labels = cats
           /\ Entry(s, cats, s \in empty).initiallyHidden = (s \in hiddenConfigs)
           /\ Entry(s, cats, s \in empty).empty = (s \in empty)
           /\ Entry(s, cats, s \in empty).drawn = IF s \in empty THEN {} ELSE cats
BY DEF Entry

\* The layers once those in arrived were added.
Added(arrived, cats, empty) ==
    Override([s \in arrived |-> Entry(s, cats[s], s \in empty)], layers)

LEMMA AddedLayers ==
    ASSUME TypeOK,
           NEW arrived \in SUBSET pending,
           NEW cats \in [arrived -> SUBSET Label], NEW empty,
           \A s \in arrived : cats[s] \in CategorySets[s]
    PROVE  /\ DOMAIN Added(arrived, cats, empty) = arrived \cup DOMAIN layers
           /\ LayersFor(Added(arrived, cats, empty))
           /\ \A s \in arrived :
                Added(arrived, cats, empty)[s] = Entry(s, cats[s], s \in empty)
           /\ \A s \in DOMAIN layers :
                Added(arrived, cats, empty)[s] = layers[s]
<1> DEFINE new == [s \in arrived |-> Entry(s, cats[s], s \in empty)]
           ls  == Added(arrived, cats, empty)
<1>1. DOMAIN new = arrived
  OBVIOUS
<1>2. ls = Override(new, layers)
  BY DEF Added
<1>3. DOMAIN ls = arrived \cup DOMAIN layers
  BY <1>1, <1>2, OverrideDomain
<1>4. ASSUME NEW s \in arrived
      PROVE  ls[s] = Entry(s, cats[s], s \in empty)
  <2>1. new[s] = Entry(s, cats[s], s \in empty)
    BY Zenon
  <2> HIDE DEF new, ls
  <2> QED
    BY <1>1, <1>2, <2>1, OverrideFirst
<1>5. ASSUME NEW s \in DOMAIN layers
      PROVE  ls[s] = layers[s]
  <2>1. s \notin arrived
    BY DEF TypeOK
  <2> HIDE DEF new, ls
  <2> QED
    BY <1>1, <1>2, <2>1, OverrideSecond
<1>6. ASSUME NEW s \in arrived
      PROVE  LayerFor(s, Entry(s, cats[s], s \in empty))
  <2>1. cats[s] \in SUBSET Label /\ cats[s] \in CategorySets[s]
    OBVIOUS
  <2>2. (s \in empty) \in BOOLEAN /\ (s \in hiddenConfigs) \in BOOLEAN
    OBVIOUS
  <2> QED
    BY <2>1, <2>2 DEF LayerFor, Layer, Entry
<1>7. LayersFor(ls)
  <2> HIDE DEF new, ls
  <2> QED
    BY <1>3, <1>4, <1>5, <1>6, TypeParts DEF LayersFor
<1> QED
  <2> HIDE DEF new
  <2> QED
    BY <1>3, <1>4, <1>5, <1>7

\* Every update of categories sets all labels of some layers to one value.
LEMMA AllLabelsMap ==
    ASSUME NEW ls, LayersFor(ls), NEW S \in SUBSET (DOMAIN ls \cap Slice),
           NEW value \in BOOLEAN
    PROVE  CategoryMap([s \in S |-> AllLabels(ls, s, value)])
<1>1. ASSUME NEW s \in S
      PROVE  PartialFunction(AllLabels(ls, s, value), Label, BOOLEAN)
  <2>1. ls[s].labels \in SUBSET Label
    BY DEF LayersFor, LayerFor, Layer
  <2> QED
    BY <2>1 DEF AllLabels, PartialFunction
<1> QED
  BY <1>1 DEF CategoryMap

\* A checkbox click flips one label.
LEMMA FlippedMap ==
    ASSUME TypeOK, NEW s \in Slice, NEW label \in Label
    PROVE  CategoryMap([t \in {s} |-> CategoryFlipped(s, label)])
<1> DEFINE flip == [l \in {label} |-> ~Enabled(categoryVisibility, s, label)]
           old == IF s \in DOMAIN categoryVisibility
                  THEN categoryVisibility[s] ELSE NoEntries
<1>1. PartialFunction(flip, Label, BOOLEAN)
  <2>1. (~Enabled(categoryVisibility, s, label)) \in BOOLEAN
    OBVIOUS
  <2> QED
    BY <2>1 DEF PartialFunction
<1>2. PartialFunction(old, Label, BOOLEAN)
  <2>1. CASE s \in DOMAIN categoryVisibility
    BY <2>1, TypeParts DEF CategoryMap
  <2>2. CASE s \notin DOMAIN categoryVisibility
    BY <2>2 DEF PartialFunction, NoEntries
  <2> QED
    BY <2>1, <2>2
<1>3. CategoryFlipped(s, label) = Override(flip, old)
  BY DEF CategoryFlipped
<1>4. PartialFunction(CategoryFlipped(s, label), Label, BOOLEAN)
  <2> HIDE DEF flip, old
  <2> QED
    BY <1>1, <1>2, <1>3, OverridePartial
<1> QED
  BY <1>4 DEF CategoryMap

\* What a layer toggle sets the layers themselves to.
LEMMA ToggledMap ==
    ASSUME TypeOK, NEW ids \in SUBSET Slice, NEW value \in BOOLEAN
    PROVE  VisibilityMap(Override([s \in ids |-> value], layerVisibility))
<1>1. PartialFunction([s \in ids |-> value], Slice, BOOLEAN)
  BY DEF PartialFunction
<1> QED
  BY <1>1, TypeParts, OverridePartial DEF VisibilityMap

-----------------------------------------------------------------------------
(* The actions that settle the state.                                      *)

LEMMA ArriveSettles ==
    ASSUME TypeOK, NEW settled \in SUBSET pending,
           NEW arrived \in SUBSET settled, LayersArrive(settled, arrived)
    PROVE  \E cats \in [arrived -> SUBSET Label], empty \in SUBSET arrived :
             /\ \A s \in arrived : cats[s] \in CategorySets[s]
             /\ Settled(Added(arrived, cats, empty),
                        hideCategoriesIfNeeded(Added(arrived, cats, empty),
                                               arrived),
                        layerVisibility)
<1> PICK cats \in [arrived -> SUBSET Label], empty \in SUBSET arrived :
           /\ \A s \in arrived : cats[s] \in CategorySets[s]
           /\ Settle(Added(arrived, cats, empty),
                     hideCategoriesIfNeeded(Added(arrived, cats, empty), arrived),
                     layerVisibility)
  BY DEF LayersArrive, Added
<1> DEFINE ls == Added(arrived, cats, empty)
<1>1. DOMAIN ls = arrived \cup DOMAIN layers /\ LayersFor(ls)
  BY AddedLayers
<1>2. DOMAIN ls \subseteq Slice
  BY <1>1 DEF TypeOK
<1> HIDE DEF ls
<1>3. CategoryMap(hideCategoriesIfNeeded(ls, arrived))
  <2> DEFINE S == {t \in arrived : ls[t].initiallyHidden /\ ls[t].labels # {}}
  <2>1. S \in SUBSET (DOMAIN ls \cap Slice)
    BY <1>1, <1>2
  <2>2. hideCategoriesIfNeeded(ls, arrived)
          = [s \in S |-> AllLabels(ls, s, FALSE)]
    BY DEF hideCategoriesIfNeeded
  <2> HIDE DEF S
  <2> QED
    BY <1>1, <2>1, <2>2, AllLabelsMap
<1>4. Settled(ls, hideCategoriesIfNeeded(ls, arrived), layerVisibility)
  BY <1>1, <1>2, <1>3, SettleKeeps, TypeParts DEF ls
<1> QED
  BY <1>4 DEF ls

LEMMA ToggleSettles ==
    ASSUME TypeOK, NEW ids \in SUBSET Slice, handleToggleLayerVisibility(ids)
    PROVE  \E visible \in BOOLEAN :
             Settled(layers, CategoryUpdates(ids, visible),
                     Override([s \in ids |-> ~visible], layerVisibility))
<1> DEFINE visible == \E s \in ids : Checked(layerVisibility, s)
<1>1. visible \in BOOLEAN /\ (~visible) \in BOOLEAN
  OBVIOUS
<1>2. Settle(layers, CategoryUpdates(ids, visible),
             Override([s \in ids |-> ~visible], layerVisibility))
  BY DEF handleToggleLayerVisibility
<1> HIDE DEF visible
<1>3. CategoryMap(CategoryUpdates(ids, visible))
  <2> DEFINE S == {t \in ids \cap DOMAIN layers :
                     /\ layers[t].labels # {}
                     /\ \/ visible
                        \/ /\ t \in DOMAIN categoryVisibility
                           /\ ~AnyEnabled(layers, categoryVisibility, t)}
  <2>1. S \in SUBSET (DOMAIN layers \cap Slice)
    OBVIOUS
  <2>2. CategoryUpdates(ids, visible)
          = [s \in S |-> AllLabels(layers, s, ~visible)]
    BY DEF CategoryUpdates
  <2>3. LayersFor(layers)
    BY TypeParts
  <2>4. ASSUME NEW value \in BOOLEAN
        PROVE  CategoryMap([s \in S |-> AllLabels(layers, s, value)])
    <3> HIDE DEF S
    <3> QED
      BY <2>1, <2>3, AllLabelsMap
  <2> HIDE DEF S
  <2> QED
    BY <1>1, <2>2, <2>4, Zenon
<1>4. VisibilityMap(Override([s \in ids |-> ~visible], layerVisibility))
  BY <1>1, ToggledMap
<1>5. DOMAIN layers \subseteq Slice
  BY DEF TypeOK
<1> QED
  BY <1>1, <1>2, <1>3, <1>4, <1>5, SettleKeeps, TypeParts

LEMMA CategorySettles ==
    ASSUME TypeOK, NEW s, NEW label \in Label, handleToggleCategory(s, label)
    PROVE  /\ s \in Slice
           /\ Settled(layers, [t \in {s} |-> CategoryFlipped(s, label)],
                      layerVisibility)
<1>1. s \in Slice /\ DOMAIN layers \subseteq Slice
  BY DEF TypeOK, handleToggleCategory
<1> QED
  BY <1>1, FlippedMap, SettleKeeps, TypeParts DEF handleToggleCategory

\* A click is one of the two handlers.
LEMMA ClickKinds ==
    ASSUME TypeOK, Click
    PROVE  \/ \E ids \in SUBSET Slice : handleToggleLayerVisibility(ids)
           \/ \E s \in DOMAIN layers, label \in Label :
                handleToggleCategory(s, label)
<1>1. LegendIds \subseteq Slice
  BY DeckAssumption DEF TypeOK, LegendIds
<1>2. \A title : Group(title) \in SUBSET Slice
  BY <1>1 DEF Group
<1> QED
  BY <1>1, <1>2
  DEF Click, ToggleGroup, ToggleEntry, handleToggleCategory

\* A step is a load, an arrival, a click, or leaves all of this alone.
LEMMA StepKinds ==
    ASSUME TypeOK, [Next]_vars
    PROVE  \/ \E fetched \in SUBSET deck.charts \ {{}} : Load(fetched)
           \/ \E settled \in SUBSET pending :
                \E arrived \in SUBSET settled : LayersArrive(settled, arrived)
           \/ /\ \/ \E ids \in SUBSET Slice : handleToggleLayerVisibility(ids)
                 \/ \E s \in DOMAIN layers, label \in Label :
                      handleToggleCategory(s, label)
              /\ UNCHANGED loadVars
           \/ /\ deck' \in Decks
              /\ UNCHANGED <<slicesData, loads, pending, hiddenConfigs, layers,
                             layerVisibility, categoryVisibility>>
<1>1. CASE Loading
  BY <1>1 DEF Loading, ChangeDeck
<1>2. CASE Click
  BY <1>2, ClickKinds DEF handleToggleLayerVisibility, handleToggleCategory
<1>3. CASE UNCHANGED vars
  BY <1>3 DEF vars, TypeOK
<1> QED
  BY <1>1, <1>2, <1>3 DEF Next

-----------------------------------------------------------------------------
(* Type correctness.                                                       *)

LEMMA SettledType ==
    ASSUME NEW ls, NEW updates, NEW lv, Settled(ls, updates, lv),
           DOMAIN ls \subseteq slicesData' \ pending',
           deck' \in Decks, slicesData' \subseteq Slice, loads' \in 0..MaxLoads,
           pending' \subseteq slicesData', hiddenConfigs' \subseteq Slice
    PROVE  TypeOK'
BY DEF Settled, TypeOK, LayersFor, LayerFor, CategoryMap, VisibilityMap

\* The variables have their types in every state of the legend and the map.
THEOREM TypeCorrect == Spec => []TypeOK
<1>1. Init => TypeOK
  BY ChartAssumption DEF Init, TypeOK, PartialFunction, NoEntries
<1>2. TypeOK /\ [Next]_vars => TypeOK'
  <2> SUFFICES ASSUME TypeOK, [Next]_vars PROVE TypeOK'
    OBVIOUS
  <2>1. ASSUME NEW fetched \in SUBSET deck.charts, Load(fetched)
        PROVE  TypeOK'
    <3>1. deck.charts \subseteq Slice /\ deck.hidden \subseteq Slice
      BY DeckAssumption DEF TypeOK
    <3>2. FALSE \in BOOLEAN
      OBVIOUS
    <3>3. VisibilityMap(layerVisibility')
      BY <2>1, <3>1, <3>2, ToggledMap DEF Load
    <3>4. loads' \in 0..MaxLoads
      BY <2>1, ChartAssumption DEF Load, TypeOK
    <3>5. DOMAIN layers' = {}
      BY <2>1 DEF Load, NoEntries
    <3> QED
      BY <2>1, <3>1, <3>3, <3>4, <3>5 DEF Load, TypeOK, VisibilityMap
  <2>2. ASSUME NEW settled \in SUBSET pending, NEW arrived \in SUBSET settled,
               LayersArrive(settled, arrived)
        PROVE  TypeOK'
    <3>1. PICK cats \in [arrived -> SUBSET Label], empty \in SUBSET arrived :
             /\ \A s \in arrived : cats[s] \in CategorySets[s]
             /\ Settled(Added(arrived, cats, empty),
                        hideCategoriesIfNeeded(Added(arrived, cats, empty),
                                               arrived),
                        layerVisibility)
      BY <2>2, ArriveSettles
    <3>2. DOMAIN Added(arrived, cats, empty) = arrived \cup DOMAIN layers
      BY <3>1, AddedLayers
    <3>3. DOMAIN Added(arrived, cats, empty) \subseteq slicesData' \ pending'
      BY <2>2, <3>2 DEF TypeOK, LayersArrive
    <3> QED
      BY <2>2, <3>1, <3>3, SettledType DEF TypeOK, LayersArrive
  <2>3. ASSUME NEW ids \in SUBSET Slice, handleToggleLayerVisibility(ids),
               UNCHANGED loadVars
        PROVE  TypeOK'
    BY <2>3, ToggleSettles, SettledType DEF TypeOK, loadVars
  <2>4. ASSUME NEW s, NEW label \in Label, handleToggleCategory(s, label),
               UNCHANGED loadVars
        PROVE  TypeOK'
    BY <2>4, CategorySettles, SettledType DEF TypeOK, loadVars
  <2>5. ASSUME deck' \in Decks,
               UNCHANGED <<slicesData, loads, pending, hiddenConfigs, layers,
                           layerVisibility, categoryVisibility>>
        PROVE  TypeOK'
    BY <2>5 DEF TypeOK
  <2> QED
    BY <2>1, <2>2, <2>3, <2>4, <2>5, StepKinds
<1> QED
  BY <1>1, <1>2, PTL DEF Spec

-----------------------------------------------------------------------------
(* Checkboxes, categories and the map.                                     *)

\* Layers hidden by default have an entry in layerVisibility, from the load on.
PresetKnown ==
    /\ hiddenConfigs \subseteq DOMAIN layerVisibility
    /\ \A s \in DOMAIN layers :
         layers[s].initiallyHidden => s \in DOMAIN layerVisibility

\* The checkbox of a layer whose categories were set is what they say.
CategoriesAgree ==
    \A s \in DOMAIN layers \cap DOMAIN categoryVisibility :
        layers[s].labels # {} =>
            (Checked(layerVisibility, s)
               <=> AnyEnabled(layers, categoryVisibility, s))

\* A layer whose categories were never set is drawn with all of them.
UnsetIsComplete ==
    \A s \in DOMAIN layers \ DOMAIN categoryVisibility :
        ~layers[s].empty => layers[s].drawn = layers[s].labels

LegendInv == PresetKnown /\ CategoriesAgree /\ UnsetIsComplete

\* The inductive step, for any step that settles the state.
LEMMA SettledInv ==
    ASSUME LegendInv, NEW ls, NEW updates, NEW lv,
           Settled(ls, updates, lv), DOMAIN ls \subseteq Slice, VisibilityMap(lv),
           UNCHANGED hiddenConfigs,
           DOMAIN layerVisibility \subseteq DOMAIN lv,
           \A s \in DOMAIN ls :
             /\ ls[s].initiallyHidden => s \in DOMAIN lv
             /\ s \notin DOMAIN categoryVisibility /\ ~ls[s].empty
                  => ls[s].drawn = ls[s].labels
    PROVE  LegendInv'
<1>1. PresetKnown'
  BY DEF LegendInv, PresetKnown, Settled
<1>2. CategoriesAgree'
  <2>1. /\ VisibilityMap(lv) /\ DOMAIN layers' \subseteq Slice
        /\ layerVisibility' = Sync(layers', categoryVisibility', lv)
    BY DEF Settled
  <2> QED
    BY <2>1, SyncDecides DEF CategoriesAgree
<1>3. UnsetIsComplete'
  <2> SUFFICES ASSUME NEW s \in DOMAIN layers' \ DOMAIN categoryVisibility',
                      ~layers'[s].empty
               PROVE  layers'[s].drawn = layers'[s].labels
    BY DEF UnsetIsComplete
  <2>1. s \in DOMAIN ls /\ layers'[s] = ls[s]
    BY DEF Settled
  <2>2. s \notin DOMAIN categoryVisibility
    <3>1. categoryVisibility' = Override(updates, categoryVisibility)
      BY DEF Settled
    <3> QED
      BY <3>1, OverrideDomain
  <2> QED
    BY <2>1, <2>2
<1> QED
  BY <1>1, <1>2, <1>3 DEF LegendInv

LEMMA LegendStep ==
    ASSUME TypeOK, LegendInv, [Next]_vars
    PROVE  LegendInv'
<1>0. DOMAIN layers \subseteq Slice /\ VisibilityMap(layerVisibility)
  BY TypeParts DEF TypeOK
<1>1. ASSUME NEW fetched \in SUBSET deck.charts, Load(fetched)
      PROVE  LegendInv'
  <2>1. DOMAIN layers' = {}
    BY <1>1 DEF Load, NoEntries
  <2>2. deck.hidden \subseteq DOMAIN layerVisibility'
    BY <1>1, OverrideDomain DEF Load
  <2> QED
    BY <1>1, <2>1, <2>2
    DEF LegendInv, PresetKnown, CategoriesAgree, UnsetIsComplete, Load
<1>2. ASSUME NEW settled \in SUBSET pending, NEW arrived \in SUBSET settled,
             LayersArrive(settled, arrived)
      PROVE  LegendInv'
  <2>1. PICK cats \in [arrived -> SUBSET Label], empty \in SUBSET arrived :
           /\ \A s \in arrived : cats[s] \in CategorySets[s]
           /\ Settled(Added(arrived, cats, empty),
                      hideCategoriesIfNeeded(Added(arrived, cats, empty),
                                             arrived),
                      layerVisibility)
    BY <1>2, ArriveSettles
  <2> DEFINE ls == Added(arrived, cats, empty)
  <2>2. /\ DOMAIN ls = arrived \cup DOMAIN layers
        /\ \A s \in arrived : ls[s] = Entry(s, cats[s], s \in empty)
        /\ \A s \in DOMAIN layers : ls[s] = layers[s]
    <3>1. arrived \in SUBSET pending
      OBVIOUS
    <3>2. \A s \in arrived : cats[s] \in CategorySets[s]
      BY <2>1
    <3> QED
      BY <3>1, <3>2, AddedLayers, Zenon
  <2>3. DOMAIN ls \subseteq Slice
    BY <2>2 DEF TypeOK
  <2> HIDE DEF ls
  <2>4. ASSUME NEW s \in DOMAIN ls
        PROVE  /\ ls[s].initiallyHidden => s \in DOMAIN layerVisibility
               /\ s \notin DOMAIN categoryVisibility /\ ~ls[s].empty
                    => ls[s].drawn = ls[s].labels
    <3>1. CASE s \in arrived
      <4>1. ls[s] = Entry(s, cats[s], s \in empty)
        BY <2>2, <3>1
      <4>2. ls[s].initiallyHidden = (s \in hiddenConfigs)
        BY <4>1, EntryFields
      <4>3. ls[s].empty = (s \in empty) /\ ls[s].labels = cats[s]
        BY <4>1, EntryFields
      <4>4. ls[s].drawn = IF s \in empty THEN {} ELSE cats[s]
        BY <4>1, EntryFields
      <4> QED
        BY <4>2, <4>3, <4>4 DEF LegendInv, PresetKnown
    <3>2. CASE s \in DOMAIN layers
      BY <2>2, <3>2 DEF LegendInv, PresetKnown, UnsetIsComplete
    <3> QED
      BY <2>2, <3>1, <3>2
  <2>5. UNCHANGED hiddenConfigs
    BY <1>2 DEF LayersArrive
  <2> QED
    BY <1>0, <2>1, <2>3, <2>4, <2>5, SettledInv DEF ls
<1>3. ASSUME NEW ids \in SUBSET Slice, handleToggleLayerVisibility(ids)
      PROVE  LegendInv'
  <2>1. PICK visible \in BOOLEAN :
           Settled(layers, CategoryUpdates(ids, visible),
                   Override([s \in ids |-> ~visible], layerVisibility))
    BY <1>3, ToggleSettles
  <2> DEFINE lv == Override([s \in ids |-> ~visible], layerVisibility)
  <2>2. DOMAIN layerVisibility \subseteq DOMAIN lv
    BY OverrideDomain
  <2>3. VisibilityMap(lv)
    BY ToggledMap
  <2>4. UNCHANGED hiddenConfigs
    BY <1>3 DEF handleToggleLayerVisibility, loadVars
  <2> HIDE DEF lv
  <2>5. Settled(layers, CategoryUpdates(ids, visible), lv)
    BY <2>1 DEF lv
  <2>6. \A s \in DOMAIN layers :
          /\ layers[s].initiallyHidden => s \in DOMAIN lv
          /\ s \notin DOMAIN categoryVisibility /\ ~layers[s].empty
               => layers[s].drawn = layers[s].labels
    BY <2>2 DEF LegendInv, PresetKnown, UnsetIsComplete
  <2> QED
    BY <1>0, <2>2, <2>3, <2>4, <2>5, <2>6, SettledInv
<1>4. ASSUME NEW s, NEW label \in Label, handleToggleCategory(s, label)
      PROVE  LegendInv'
  <2>1. Settled(layers, [t \in {s} |-> CategoryFlipped(s, label)],
                layerVisibility)
    BY <1>4, CategorySettles
  <2>2. UNCHANGED hiddenConfigs
    BY <1>4 DEF handleToggleCategory, loadVars
  <2>3. \A t \in DOMAIN layers :
          /\ layers[t].initiallyHidden => t \in DOMAIN layerVisibility
          /\ t \notin DOMAIN categoryVisibility /\ ~layers[t].empty
               => layers[t].drawn = layers[t].labels
    BY DEF LegendInv, PresetKnown, UnsetIsComplete
  <2> QED
    BY <1>0, <2>1, <2>2, <2>3, SettledInv
<1>5. ASSUME UNCHANGED <<slicesData, loads, pending, hiddenConfigs, layers,
                         layerVisibility, categoryVisibility>>
      PROVE  LegendInv'
  BY <1>5
  DEF LegendInv, PresetKnown, CategoriesAgree, UnsetIsComplete, Checked,
      AnyEnabled, Enabled
<1> QED
  BY <1>1, <1>2, <1>3, <1>4, <1>5, StepKinds

LEMMA LegendInvariant == Spec => []LegendInv
<1>1. Init => LegendInv
  BY DEF Init, LegendInv, PresetKnown, CategoriesAgree, UnsetIsComplete, NoEntries
<1>2. TypeOK /\ LegendInv /\ [Next]_vars => LegendInv'
  BY LegendStep
<1> QED
  BY <1>1, <1>2, TypeCorrect, PTL DEF Spec

LEMMA PresetAgrees ==
    ASSUME TypeOK, LegendInv
    PROVE  CheckboxMatchesMap
<1> SUFFICES ASSUME NEW s \in DOMAIN layers
             PROVE  Checked(layerVisibility, s) <=> OnMap(s)
  BY DEF CheckboxMatchesMap
<1>1. CASE s \in DOMAIN layerVisibility
  BY <1>1 DEF Checked, OnMap
<1>2. CASE s \notin DOMAIN layerVisibility
  <2>1. ~layers[s].initiallyHidden
    BY <1>2 DEF LegendInv, PresetKnown
  <2> QED
    BY <1>2, <2>1 DEF Checked, OnMap
<1> QED
  BY <1>1, <1>2

\* The legend and the map agree on which layers are shown: wherever their
\* defaults differ, the load has made an entry.
THEOREM LegendAndMapAgree == Spec => []CheckboxMatchesMap
<1>1. TypeOK /\ LegendInv => CheckboxMatchesMap
  BY PresetAgrees
<1> QED
  BY <1>1, TypeCorrect, LegendInvariant, PTL

\* A layer whose categories were set is on the map if one of them is on.
THEOREM CategoriesDecide == Spec => []CategoriesDecideVisibility
<1>1. TypeOK /\ LegendInv => CategoriesDecideVisibility
  BY PresetAgrees
  DEF LegendInv, CategoriesAgree, CategoriesDecideVisibility, CheckboxMatchesMap
<1> QED
  BY <1>1, TypeCorrect, LegendInvariant, PTL

-----------------------------------------------------------------------------
(* What a step may never do.                                               *)

\* Whether any category is on depends on the labels and their settings only.
LEMMA AnyEnabledSame ==
    ASSUME NEW ls, NEW ms, NEW cv, NEW dv, NEW s \in DOMAIN cv \cap DOMAIN dv,
           ms[s].labels = ls[s].labels, dv[s] = cv[s]
    PROVE  AnyEnabled(ms, dv, s) <=> AnyEnabled(ls, cv, s)
BY DEF AnyEnabled, Enabled

\* Labels that are all set to one value are on if the value says so.
LEMMA AllLabelsDecide ==
    ASSUME NEW ls, NEW ms, NEW cv, NEW s \in DOMAIN cv, NEW value \in BOOLEAN,
           ms[s].labels = ls[s].labels, ls[s].labels # {},
           cv[s] = AllLabels(ls, s, value)
    PROVE  AnyEnabled(ms, cv, s) <=> value
<1>1. DOMAIN cv[s] = ls[s].labels
  BY DEF AllLabels
<1>2. \A label \in ls[s].labels : cv[s][label] = value
  BY DEF AllLabels
<1>3. \A label \in ls[s].labels : Enabled(cv, s, label) <=> value
  BY <1>1, <1>2 DEF Enabled
<1> QED
  BY <1>3 DEF AnyEnabled

LEMMA ClickStep ==
    ASSUME TypeOK, LegendInv, NEW s, NEW label \in Label,
           handleToggleCategory(s, label), NEW t \in Slice \ {s}
    PROVE  Checked(layerVisibility', t) = Checked(layerVisibility, t)
<1> DEFINE updates == [u \in {s} |-> CategoryFlipped(s, label)]
<1>1. Settled(layers, updates, layerVisibility)
  BY CategorySettles
<1>2. DOMAIN updates = {s}
  OBVIOUS
<1> HIDE DEF updates
<1>3. /\ layerVisibility' = Sync(layers', categoryVisibility', layerVisibility)
      /\ categoryVisibility' = Override(updates, categoryVisibility)
      /\ DOMAIN layers' = DOMAIN layers
      /\ t \in DOMAIN layers => layers'[t].labels = layers[t].labels
      /\ VisibilityMap(layerVisibility')
  BY <1>1 DEF Settled
<1>4. VisibilityMap(layerVisibility) /\ DOMAIN layers' \subseteq Slice
  BY <1>3, TypeParts DEF TypeOK
<1>5. \/ t \notin DOMAIN layers'
      \/ t \notin DOMAIN categoryVisibility'
      \/ layers'[t].labels = {}
      \/ Checked(layerVisibility, t)
           <=> AnyEnabled(layers', categoryVisibility', t)
  <2> SUFFICES ASSUME t \in DOMAIN layers', t \in DOMAIN categoryVisibility',
                      layers'[t].labels # {}
               PROVE  Checked(layerVisibility, t)
                        <=> AnyEnabled(layers', categoryVisibility', t)
    OBVIOUS
  <2>1. t \in DOMAIN categoryVisibility
    <3>1. categoryVisibility' = Override(updates, categoryVisibility)
      BY <1>3
    <3>2. DOMAIN categoryVisibility' = {s} \cup DOMAIN categoryVisibility
      BY <1>2, <3>1, OverrideDomain
    <3> QED
      BY <3>2
  <2>2. categoryVisibility'[t] = categoryVisibility[t]
    BY <1>2, <1>3, <2>1, OverrideSecond
  <2>3. AnyEnabled(layers', categoryVisibility', t)
          <=> AnyEnabled(layers, categoryVisibility, t)
    BY <1>3, <2>1, <2>2, AnyEnabledSame
  <2>4. Checked(layerVisibility, t) <=> AnyEnabled(layers, categoryVisibility, t)
    BY <1>3, <2>1 DEF LegendInv, CategoriesAgree
  <2> QED
    BY <2>3, <2>4
<1>6. Checked(layerVisibility', t) <=> Checked(layerVisibility, t)
  BY <1>3, <1>4, <1>5, SyncDecides
<1> QED
  BY <1>3, <1>4, <1>6, CheckedBoolean

\* A click on a category leaves the checkboxes of all other layers alone.
THEOREM ClicksAreLocal == Spec => ClickIsLocal
<1> DEFINE Local ==
      \A s \in LegendIds, label \in Label : handleToggleCategory(s, label) =>
         \A t \in Slice \ {s} :
            Checked(layerVisibility', t) = Checked(layerVisibility, t)
<1>1. TypeOK /\ LegendInv => [Local]_vars
  BY ClickStep
<1> QED
  BY <1>1, TypeCorrect, LegendInvariant, PTL DEF ClickIsLocal

\* A toggle sets all of its layers to one value, and the effects keep it.
LEMMA ToggleStep ==
    ASSUME TypeOK, LegendInv, NEW ids \in SUBSET Slice,
           handleToggleLayerVisibility(ids)
    PROVE  \E value \in BOOLEAN :
             \A s \in ids : Checked(layerVisibility', s) = value
<1> PICK visible \in BOOLEAN :
       Settled(layers, CategoryUpdates(ids, visible),
               Override([s \in ids |-> ~visible], layerVisibility))
  BY ToggleSettles
<1> DEFINE value == ~visible
           lv == Override([s \in ids |-> value], layerVisibility)
           updates == CategoryUpdates(ids, visible)
           S == {t \in ids \cap DOMAIN layers :
                   /\ layers[t].labels # {}
                   /\ \/ visible
                      \/ /\ t \in DOMAIN categoryVisibility
                         /\ ~AnyEnabled(layers, categoryVisibility, t)}
<1>1. value \in BOOLEAN /\ VisibilityMap(lv)
  BY ToggledMap
<1>2. DOMAIN updates = S /\ \A s \in S : updates[s] = AllLabels(layers, s, value)
  BY DEF CategoryUpdates
<1>3. /\ layerVisibility' = Sync(layers', categoryVisibility', lv)
      /\ categoryVisibility' = Override(updates, categoryVisibility)
      /\ DOMAIN layers' = DOMAIN layers
      /\ \A t \in DOMAIN layers : layers'[t].labels = layers[t].labels
      /\ VisibilityMap(layerVisibility')
  BY DEF Settled
<1>4. DOMAIN layers' \subseteq Slice
  BY <1>3 DEF TypeOK
<1>5. ASSUME NEW s \in ids
      PROVE  Checked(lv, s) <=> value
  <2>1. s \in DOMAIN lv
    BY OverrideDomain
  <2>2. lv[s] = value
    BY OverrideFirst
  <2> HIDE DEF lv, value
  <2> QED
    BY <2>1, <2>2 DEF Checked
<1>6. S \subseteq DOMAIN layers
  OBVIOUS
<1>7. ASSUME NEW s \in ids \cap DOMAIN layers, layers[s].labels # {}, s \notin S
      PROVE  /\ value
             /\ s \in DOMAIN categoryVisibility =>
                  AnyEnabled(layers, categoryVisibility, s)
  BY <1>7
<1>8. \A s \in S : layers[s].labels # {}
  OBVIOUS
<1> HIDE DEF value, lv, updates, S
<1>9. ASSUME NEW s \in ids
      PROVE  \/ s \notin DOMAIN layers'
             \/ s \notin DOMAIN categoryVisibility'
             \/ layers'[s].labels = {}
             \/ Checked(lv, s) <=> AnyEnabled(layers', categoryVisibility', s)
  <2> SUFFICES ASSUME s \in DOMAIN layers', s \in DOMAIN categoryVisibility',
                      layers'[s].labels # {}
               PROVE  value <=> AnyEnabled(layers', categoryVisibility', s)
    BY <1>5
  <2>1. /\ layers'[s].labels = layers[s].labels
        /\ s \in DOMAIN layers
    BY <1>3
  <2>2. categoryVisibility' = Override(updates, categoryVisibility)
    BY <1>3
  <2>3. DOMAIN categoryVisibility' = S \cup DOMAIN categoryVisibility
    BY <1>2, <2>2, OverrideDomain
  <2>4. CASE s \in S
    <3>1. categoryVisibility'[s] = updates[s]
      BY <1>2, <2>2, <2>4, OverrideFirst
    <3>2. categoryVisibility'[s] = AllLabels(layers, s, value)
      BY <1>2, <2>4, <3>1
    <3> QED
      BY <1>1, <2>1, <2>4, <3>2, AllLabelsDecide
  <2>5. CASE s \notin S
    <3>1. s \in DOMAIN categoryVisibility
      BY <2>3, <2>5
    <3>2. categoryVisibility'[s] = categoryVisibility[s]
      BY <1>2, <2>2, <2>5, <3>1, OverrideSecond
    <3>3. value /\ AnyEnabled(layers, categoryVisibility, s)
      BY <1>7, <2>1, <2>5, <3>1
    <3> QED
      BY <2>1, <3>1, <3>2, <3>3, AnyEnabledSame
  <2> QED
    BY <2>4, <2>5
<1>10. ASSUME NEW s \in ids
       PROVE  Checked(layerVisibility', s) = value
  <2>1. Checked(layerVisibility', s) <=> Checked(lv, s)
    BY <1>1, <1>3, <1>4, <1>9, SyncDecides
  <2>2. Checked(layerVisibility', s) \in BOOLEAN
    BY <1>3, CheckedBoolean
  <2> QED
    BY <1>1, <1>5, <2>1, <2>2
<1> QED
  BY <1>1, <1>10

\* The checkbox of a group leaves its layers all shown or all hidden, those
\* that have not been loaded included.
THEOREM GroupsToggleTogether == Spec => GroupTogglesTogether
<1> DEFINE Together ==
      \A title \in Groups : ToggleGroup(title) =>
         \A s, t \in Group(title) :
            Checked(layerVisibility', s) = Checked(layerVisibility', t)
<1>1. TypeOK /\ LegendInv => [Together]_vars
  <2> SUFFICES ASSUME TypeOK, LegendInv,
                      NEW title \in Groups, ToggleGroup(title)
               PROVE  \A s, t \in Group(title) :
                         Checked(layerVisibility', s) = Checked(layerVisibility', t)
    OBVIOUS
  <2>1. Group(title) \in SUBSET Slice
    BY DeckAssumption DEF TypeOK, LegendIds, Group
  <2>2. handleToggleLayerVisibility(Group(title))
    BY DEF ToggleGroup
  <2> QED
    BY <2>1, <2>2, ToggleStep
<1> QED
  BY <1>1, TypeCorrect, LegendInvariant, PTL DEF GroupTogglesTogether

\* An arriving layer that is hidden by default and was not shown meanwhile
\* stays hidden: the effects find all its categories off.
LEMMA ArriveStep ==
    ASSUME TypeOK, NEW settled \in SUBSET pending,
           NEW arrived \in SUBSET settled, LayersArrive(settled, arrived),
           NEW s \in DOMAIN layers', s \notin DOMAIN layers,
           layers'[s].initiallyHidden, ~Checked(layerVisibility, s)
    PROVE  ~Checked(layerVisibility', s)
<1> PICK cats \in [arrived -> SUBSET Label], empty \in SUBSET arrived :
       /\ \A u \in arrived : cats[u] \in CategorySets[u]
       /\ Settled(Added(arrived, cats, empty),
                  hideCategoriesIfNeeded(Added(arrived, cats, empty), arrived),
                  layerVisibility)
  BY ArriveSettles
<1> DEFINE ls == Added(arrived, cats, empty)
           updates == hideCategoriesIfNeeded(ls, arrived)
           S == {t \in arrived : ls[t].initiallyHidden /\ ls[t].labels # {}}
<1>1. DOMAIN ls = arrived \cup DOMAIN layers
  BY AddedLayers
<1>2. DOMAIN updates = S /\ \A t \in S : updates[t] = AllLabels(ls, t, FALSE)
  BY DEF hideCategoriesIfNeeded
<1>3. /\ layerVisibility' = Sync(layers', categoryVisibility', layerVisibility)
      /\ categoryVisibility' = Override(updates, categoryVisibility)
      /\ DOMAIN layers' = DOMAIN ls
      /\ \A t \in DOMAIN ls :
           /\ layers'[t].labels = ls[t].labels
           /\ layers'[t].initiallyHidden = ls[t].initiallyHidden
  BY DEF Settled
<1>4. s \in arrived /\ s \in DOMAIN ls
  BY <1>1, <1>3
<1>5. ls[s].labels # {} => s \in S
  BY <1>3, <1>4
<1>6. VisibilityMap(layerVisibility) /\ DOMAIN layers' \subseteq Slice
  BY <1>1, <1>3, TypeParts DEF TypeOK
<1> HIDE DEF ls, updates, S
<1>7. CASE layers'[s].labels = {}
  BY <1>3, <1>4, <1>6, <1>7, SyncDecides
<1>8. CASE layers'[s].labels # {}
  <2>1. s \in S /\ ls[s].labels # {} /\ layers'[s].labels = ls[s].labels
    BY <1>3, <1>4, <1>5, <1>8
  <2>2. s \in DOMAIN categoryVisibility'
    <3>1. categoryVisibility' = Override(updates, categoryVisibility)
      BY <1>3
    <3>2. DOMAIN categoryVisibility' = S \cup DOMAIN categoryVisibility
      BY <1>2, <3>1, OverrideDomain
    <3> QED
      BY <2>1, <3>2
  <2>3. categoryVisibility'[s] = AllLabels(ls, s, FALSE)
    BY <1>2, <1>3, <2>1, OverrideFirst
  <2>4. AnyEnabled(layers', categoryVisibility', s) <=> FALSE
    BY <2>1, <2>2, <2>3, AllLabelsDecide
  <2> QED
    BY <1>3, <1>4, <1>6, <1>8, <2>2, <2>4, SyncDecides
<1> QED
  BY <1>7, <1>8

\* "Hide this layer when the map first loads" holds whatever its categories
\* were set to before and whichever of them the answer brings.
THEOREM DefaultsHide == Spec => HiddenByDefault
<1> DEFINE Hidden ==
      \A s \in DOMAIN layers' \ DOMAIN layers :
         layers'[s].initiallyHidden /\ ~Checked(layerVisibility, s)
            => ~Checked(layerVisibility', s)
<1>1. TypeOK /\ [Next]_vars => [Hidden]_vars
  <2> SUFFICES ASSUME TypeOK, [Next]_vars,
                      NEW s \in DOMAIN layers', s \notin DOMAIN layers,
                      layers'[s].initiallyHidden, ~Checked(layerVisibility, s)
               PROVE  ~Checked(layerVisibility', s)
    OBVIOUS
  <2>1. \A fetched : ~Load(fetched)
    BY DEF Load, NoEntries
  <2>2. ASSUME NEW ids \in SUBSET Slice, handleToggleLayerVisibility(ids)
        PROVE  FALSE
    BY <2>2, ToggleSettles DEF Settled
  <2>3. ASSUME NEW c, NEW label \in Label, handleToggleCategory(c, label)
        PROVE  FALSE
    BY <2>3, CategorySettles DEF Settled
  <2>4. \E settled \in SUBSET pending :
          \E arrived \in SUBSET settled : LayersArrive(settled, arrived)
    BY <2>1, <2>2, <2>3, StepKinds
  <2> QED
    BY <2>4, ArriveStep
<1> QED
  BY <1>1, TypeCorrect, PTL DEF Spec, HiddenByDefault

\* Category settings are a function, so that overriding it with nothing
\* leaves it as it is.
IsFunction(f) == f = [x \in DOMAIN f |-> f[x]]

LEMMA OverrideNothing ==
    ASSUME NEW f, NEW g, IsFunction(g), DOMAIN f = {}
    PROVE  Override(f, g) = g
<1>1. Override(f, g) = [x \in DOMAIN g |-> g[x]]
  BY DEF Override
<1> QED
  BY <1>1 DEF IsFunction

LEMMA OverrideFunction ==
    ASSUME NEW f, NEW g
    PROVE  IsFunction(Override(f, g))
BY DEF IsFunction, Override

\* Every step leaves the category settings alone or settles them.
LEMMA CategoryStep ==
    ASSUME TypeOK, [Next]_vars
    PROVE  \/ categoryVisibility' = categoryVisibility
           \/ \E ls, updates, lv : /\ Settled(ls, updates, lv)
                                   /\ LayersFor(ls)
<1>1. LayersFor(layers)
  BY TypeParts
<1>2. ASSUME NEW settled \in SUBSET pending, NEW arrived \in SUBSET settled,
             LayersArrive(settled, arrived)
      PROVE  \E ls, updates, lv : Settled(ls, updates, lv) /\ LayersFor(ls)
  <2>1. PICK cats \in [arrived -> SUBSET Label], empty \in SUBSET arrived :
           /\ \A u \in arrived : cats[u] \in CategorySets[u]
           /\ Settled(Added(arrived, cats, empty),
                      hideCategoriesIfNeeded(Added(arrived, cats, empty),
                                             arrived),
                      layerVisibility)
    BY <1>2, ArriveSettles
  <2>2. LayersFor(Added(arrived, cats, empty))
    BY <2>1, AddedLayers
  <2> QED
    BY <2>1, <2>2
<1>3. ASSUME NEW ids \in SUBSET Slice, handleToggleLayerVisibility(ids)
      PROVE  \E ls, updates, lv : Settled(ls, updates, lv) /\ LayersFor(ls)
  BY <1>1, <1>3, ToggleSettles
<1>4. ASSUME NEW s, NEW label \in Label, handleToggleCategory(s, label)
      PROVE  \E ls, updates, lv : Settled(ls, updates, lv) /\ LayersFor(ls)
  BY <1>1, <1>4, CategorySettles
<1>5. ASSUME NEW fetched, Load(fetched)
      PROVE  categoryVisibility' = categoryVisibility
  BY <1>5 DEF Load
<1> QED
  BY <1>2, <1>3, <1>4, <1>5, StepKinds

LEMMA CategoriesAreFunction == Spec => []IsFunction(categoryVisibility)
<1>1. Init => IsFunction(categoryVisibility)
  BY DEF Init, NoEntries, IsFunction
<1>2. TypeOK /\ IsFunction(categoryVisibility) /\ [Next]_vars
        => IsFunction(categoryVisibility)'
  BY CategoryStep, OverrideFunction DEF Settled
<1> QED
  BY <1>1, <1>2, TypeCorrect, PTL DEF Spec

\* What is drawn of the layers of a map after a rebuild.
LEMMA RebuiltDrawsChecked ==
    ASSUME TypeOK', LegendInv', CategoriesDecideVisibility',
           NEW ls, LayersFor(ls), DOMAIN layers' = DOMAIN ls,
           layers' = Rebuild(ls, categoryVisibility')
    PROVE  MapDrawsChecked'
<1> DEFINE cv == categoryVisibility'
           enabled(s) == {label \in ls[s].labels : Enabled(cv, s, label)}
<1> SUFFICES ASSUME NEW s \in DOMAIN layers', OnMap(s)', ~layers'[s].empty
             PROVE  layers'[s].drawn =
                      {label \in layers'[s].labels : Enabled(cv, s, label)}
  BY DEF MapDrawsChecked
<1>1. /\ layers'[s].labels = ls[s].labels
      /\ layers'[s].empty = ls[s].empty
  BY RebuildKeeps
<1>2. layers'[s].drawn \subseteq layers'[s].labels
  BY DEF TypeOK
<1>3. CASE s \notin DOMAIN cv
  <2>1. layers'[s].drawn = layers'[s].labels
    BY <1>3 DEF LegendInv, UnsetIsComplete
  <2>2. \A label : Enabled(cv, s, label)
    BY <1>3 DEF Enabled
  <2> QED
    BY <2>1, <2>2
<1>4. CASE layers'[s].labels = {}
  BY <1>2, <1>4
<1>5. CASE s \in DOMAIN cv /\ layers'[s].labels # {}
  <2>1. AnyEnabled(layers', cv, s)
    BY <1>5 DEF CategoriesDecideVisibility
  <2>2. enabled(s) # {}
    BY <1>1, <2>1 DEF AnyEnabled
  <2>3. layers'[s] = [ls[s] EXCEPT !.drawn = enabled(s)]
    BY <1>1, <1>5, <2>2 DEF Rebuild
  <2>4. ls[s] \in Layer
    BY DEF LayersFor, LayerFor
  <2>5. layers'[s].drawn = enabled(s)
    <3> HIDE DEF enabled
    <3> QED
      BY <2>3, <2>4 DEF Layer
  <2> QED
    BY <1>1, <2>5
<1> QED
  BY <1>3, <1>4, <1>5

\* After a change of any category the map draws, of every visible layer, the
\* categories that its legend has checked.
THEOREM CategoryChangesRedraw == Spec => CategoryChangeRedraws
<1> DEFINE Redraws == categoryVisibility' # categoryVisibility => MapDrawsChecked'
<1>1. /\ TypeOK /\ TypeOK' /\ LegendInv'
      /\ CategoriesDecideVisibility' /\ IsFunction(categoryVisibility)
      /\ [Next]_vars
      => [Redraws]_vars
  <2> SUFFICES ASSUME TypeOK, TypeOK', LegendInv', CategoriesDecideVisibility',
                      IsFunction(categoryVisibility), [Next]_vars,
                      categoryVisibility' # categoryVisibility
               PROVE  MapDrawsChecked'
    OBVIOUS
  <2>1. PICK ls, updates, lv : Settled(ls, updates, lv) /\ LayersFor(ls)
    BY CategoryStep
  <2>2. categoryVisibility' = Override(updates, categoryVisibility)
    BY <2>1 DEF Settled
  <2>3. DOMAIN updates # {}
    BY <2>2, OverrideNothing
  <2>4. /\ layers' = Rebuild(ls, categoryVisibility')
        /\ DOMAIN layers' = DOMAIN ls
    BY <2>1, <2>3 DEF Settled
  <2> QED
    BY <2>1, <2>4, RebuiltDrawsChecked
<1> QED
  BY <1>1, TypeCorrect, LegendInvariant, CategoriesDecide, CategoriesAreFunction,
     PTL DEF Spec, CategoryChangeRedraws
=============================================================================
