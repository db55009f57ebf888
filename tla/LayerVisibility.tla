--------------------------- MODULE LayerVisibility ---------------------------
(***************************************************************************)
(* What the legend of the GeoSet Multi Map says and what the map draws     *)
(* (GeoSetMultiMap/Multi.tsx with components/MultiLegend.tsx and           *)
(* utils/hooks.ts): layer checkboxes, category checkboxes, groups of       *)
(* layers under one title, layers hidden by default, and the two effects   *)
(* that keep layers, categories and checkboxes together.                   *)
(*                                                                         *)
(* How layers load is the subject of LayerLoading.  Here a load is a set   *)
(* of slices of which any part may settle at any time; the user clicks in  *)
(* the legend meanwhile.  A step runs the handler or callback, the renders *)
(* and the effects that follow, until nothing more changes.                *)
(***************************************************************************)
EXTENDS Naturals, FiniteSets

CONSTANTS
    Slice,          \* charts that can be layers
    Label,          \* labels of categories
    Decks,          \* deck_slices: its charts, and those hidden by default
    CategorySets,   \* per chart, the categories an answer may bring; {} is
                    \* a simple or metric layer
    Uncategorized,  \* charts with features that belong to no category
    StubTitle,      \* legend title of a chart while it loads
    Title,          \* legend title of a chart once loaded
    MaxLoads        \* bound: loads started

ASSUME DeckAssumption ==
    \A d \in Decks : d.charts \subseteq Slice /\ d.hidden \subseteq d.charts

ASSUME ChartAssumption ==
    /\ CategorySets \in [Slice -> SUBSET SUBSET Label]
    /\ Uncategorized \subseteq Slice
    /\ DOMAIN StubTitle = Slice /\ DOMAIN Title = Slice
    /\ MaxLoads \in Nat

\* {...g, ...f}: the entries of f replace those of g.
Override(f, g) ==
    [x \in DOMAIN f \cup DOMAIN g |-> IF x \in DOMAIN f THEN f[x] ELSE g[x]]

PartialFunction(f, S, T) == DOMAIN f \subseteq S /\ f \in [DOMAIN f -> T]

NoEntries == [x \in {} |-> {}]

-----------------------------------------------------------------------------
VARIABLES
    deck,                \* normalizedDeckSlices
    slicesData,          \* charts whose metadata is there
    loads,               \* loads started (bounded by MaxLoads)
    pending,             \* charts of the last load that have not settled
    hiddenConfigs,       \* charts hidden by default, captured by that load
    layers,              \* subSlicesLayers, by chart
    layerVisibility,     \* chart -> shown?, for the charts that have a value
    categoryVisibility   \* chart -> (label -> enabled?), likewise

vars == <<deck, slicesData, loads, pending, hiddenConfigs, layers,
          layerVisibility, categoryVisibility>>

loadVars == <<deck, slicesData, loads, pending, hiddenConfigs>>

\* labels: the categories of the layer; drawn: those its deck.gl layer was
\* built with; empty: no data, so there is no deck.gl layer.
Layer == [labels: SUBSET Label, drawn: SUBSET Label,
          empty: BOOLEAN, initiallyHidden: BOOLEAN]

TypeOK ==
    /\ deck \in Decks
    /\ slicesData \subseteq Slice
    /\ loads \in 0..MaxLoads
    /\ pending \subseteq slicesData
    /\ hiddenConfigs \subseteq Slice
    /\ DOMAIN layers \subseteq slicesData \ pending
    /\ \A s \in DOMAIN layers : /\ layers[s] \in Layer
                                /\ layers[s].labels \in CategorySets[s]
                                /\ layers[s].drawn \subseteq layers[s].labels
    /\ PartialFunction(layerVisibility, Slice, BOOLEAN)
    /\ DOMAIN categoryVisibility \subseteq Slice
    /\ \A s \in DOMAIN categoryVisibility :
         PartialFunction(categoryVisibility[s], Label, BOOLEAN)

-----------------------------------------------------------------------------
(* Reading the two visibility maps: an absent entry counts as shown.       *)

Checked(lv, s) == s \in DOMAIN lv => lv[s]

Enabled(cv, s, label) ==
    s \in DOMAIN cv /\ label \in DOMAIN cv[s] => cv[s][label]

AnyEnabled(ls, cv, s) == \E label \in ls[s].labels : Enabled(cv, s, label)

\* userVisible of the deck.gl layers of s.
OnMap(s) ==
    IF s \in DOMAIN layerVisibility
    THEN layerVisibility[s]
    ELSE ~layers[s].initiallyHidden

\* The legend lists the deck, loaded layers before stubs.
LegendIds == deck.charts \cap (DOMAIN layers \cup slicesData)

DisplayTitle(s) == IF s \in DOMAIN layers THEN Title[s] ELSE StubTitle[s]

Group(title) == {s \in LegendIds : DisplayTitle(s) = title}

Groups == {DisplayTitle(s) : s \in LegendIds}

-----------------------------------------------------------------------------
(* The effects.                                                            *)

\* Faulty variant: what is drawn is read off the visibility map, whose labels
\* may be those of an earlier load.
RebuildFromMap(ls, cv) ==
    [s \in DOMAIN ls |->
        IF s \notin DOMAIN cv \/ ls[s].labels = {} \/ ls[s].empty THEN ls[s]
        ELSE [ls[s] EXCEPT
                !.drawn = {label \in DOMAIN cv[s] : cv[s][label]}]]

\* Faulty variant: a layer is rebuilt only while it is shown.
RebuildShown(ls, cv) ==
    [s \in DOMAIN ls |->
        IF \/ s \notin DOMAIN cv \/ ls[s].labels = {} \/ ls[s].empty
           \/ ~Checked(layerVisibility, s)
        THEN ls[s]
        ELSE [ls[s] EXCEPT
                !.drawn = {label \in @ : Enabled(cv, s, label)}]]

\* "Rebuild layers when category visibility changes": a layer for which
\* nothing would be left to draw keeps its deck.gl layer.
Rebuild(ls, cv) ==
    [s \in DOMAIN ls |->
        LET enabled == {label \in ls[s].labels : Enabled(cv, s, label)}
        IN IF \/ s \notin DOMAIN cv
              \/ ls[s].labels = {}
              \/ ls[s].empty
              \/ enabled = {} /\ s \notin Uncategorized
           THEN ls[s]
           ELSE [ls[s] EXCEPT !.drawn = enabled]]

\* Faulty variant: layers are hidden but never shown again.
SyncHides(ls, cv, lv) ==
    Override([s \in {t \in DOMAIN ls \cap DOMAIN cv :
                        ls[t].labels # {} /\ ~AnyEnabled(ls, cv, t)} |-> FALSE],
             lv)

\* "Sync layer visibility with category visibility": layers with categories,
\* once one of them was set.
Sync(ls, cv, lv) ==
    LET synced == {s \in DOMAIN ls \cap DOMAIN cv :
                     /\ ls[s].labels # {}
                     /\ Checked(lv, s) # AnyEnabled(ls, cv, s)}
    IN Override([s \in synced |-> AnyEnabled(ls, cv, s)], lv)

\* Faulty variant: the second effect does not run for new layers.
SettleCategoriesOnly(ls, catUpdates, lv) ==
    LET cv == Override(catUpdates, categoryVisibility)
    IN IF DOMAIN catUpdates = {}
       THEN layers' = ls /\ layerVisibility' = lv /\ UNCHANGED categoryVisibility
       ELSE /\ layers' = Rebuild(ls, cv)
            /\ categoryVisibility' = cv
            /\ layerVisibility' = Sync(Rebuild(ls, cv), cv, lv)

\* The state after the setters ran: catUpdates were merged into
\* categoryVisibility, which re-runs Rebuild if there are any.
Settle(ls, catUpdates, lv) ==
    LET cv == Override(catUpdates, categoryVisibility)
        rebuilt == IF DOMAIN catUpdates = {} THEN ls ELSE Rebuild(ls, cv)
    IN /\ layers' = rebuilt
       /\ categoryVisibility' = cv
       /\ layerVisibility' = Sync(rebuilt, cv, lv)

-----------------------------------------------------------------------------
(* Actions: loading.                                                       *)

Init ==
    /\ deck \in Decks
    /\ slicesData = {}
    /\ loads = 0
    /\ pending = {}
    /\ hiddenConfigs = {}
    /\ layers = NoEntries
    /\ layerVisibility = NoEntries
    /\ categoryVisibility = NoEntries

\* The parent re-renders with another deck; metadata follows in Load.
ChangeDeck ==
    /\ deck' \in Decks \ {deck}
    /\ UNCHANGED <<slicesData, loads, pending, hiddenConfigs, layers,
                   layerVisibility, categoryVisibility>>

\* Faulty variant: nothing is hidden before its data is there.
LoadWithoutPreset(fetched) ==
    /\ loads < MaxLoads
    /\ loads' = loads + 1
    /\ slicesData' = fetched
    /\ pending' = fetched
    /\ hiddenConfigs' = deck.hidden
    /\ layers' = NoEntries
    /\ UNCHANGED <<deck, layerVisibility, categoryVisibility>>

\* Changed metadata arrives for some charts of the deck: loadLayers clears
\* the map and hides what the deck hides by default.
Load(fetched) ==
    /\ loads < MaxLoads
    /\ loads' = loads + 1
    /\ slicesData' = fetched
    /\ pending' = fetched
    /\ hiddenConfigs' = deck.hidden
    /\ layers' = NoEntries
    /\ layerVisibility' =
         Override([s \in deck.hidden |-> FALSE], layerVisibility)
    /\ UNCHANGED <<deck, categoryVisibility>>

\* The entry loadSingleLayer makes of an answer without data, or with data in
\* the categories cats: everything is drawn.
Entry(s, cats, empty) ==
    [labels |-> cats,
     drawn |-> IF empty THEN {} ELSE cats,
     empty |-> empty,
     initiallyHidden |-> s \in hiddenConfigs]

AllLabels(ls, s, value) == [label \in ls[s].labels |-> value]

\* Faulty variant: the categories of a layer hidden by default stay on.
NoCategoryHidden(ls, arrived) == NoEntries

hideCategoriesIfNeeded(ls, arrived) ==
    [s \in {t \in arrived : ls[t].initiallyHidden /\ ls[t].labels # {}}
        |-> AllLabels(ls, s, FALSE)]

\* Some requests of the load settle together (Promise.all); those in arrived
\* with a layer, the others with an error.
LayersArrive(settled, arrived) ==
    /\ pending' = pending \ settled
    /\ \E cats \in [arrived -> SUBSET Label], empty \in SUBSET arrived :
         /\ \A s \in arrived : cats[s] \in CategorySets[s]
         /\ LET ls == Override([s \in arrived |-> Entry(s, cats[s], s \in empty)],
                              layers)
            IN Settle(ls, hideCategoriesIfNeeded(ls, arrived), layerVisibility)
    /\ UNCHANGED <<deck, slicesData, loads, hiddenConfigs>>

-----------------------------------------------------------------------------
(* Actions: clicks in the legend.                                          *)

\* Faulty variant: turning layers on leaves their categories off.
CategoriesOff(ids, visible) ==
    [s \in {t \in ids \cap DOMAIN layers : layers[t].labels # {} /\ visible}
        |-> AllLabels(layers, s, FALSE)]

\* What a layer toggle does to categories: all off, or all on again when
\* none of them is on.
CategoryUpdates(ids, visible) ==
    [s \in {t \in ids \cap DOMAIN layers :
              /\ layers[t].labels # {}
              /\ \/ visible
                 \/ /\ t \in DOMAIN categoryVisibility
                    /\ ~AnyEnabled(layers, categoryVisibility, t)}
        |-> AllLabels(layers, s, ~visible)]

\* "If ANY are currently visible, turn all OFF; if NONE visible, all ON".
handleToggleLayerVisibility(ids) ==
    LET visible == \E s \in ids : Checked(layerVisibility, s)
    IN /\ Settle(layers, CategoryUpdates(ids, visible),
                 Override([s \in ids |-> ~visible], layerVisibility))
       /\ UNCHANGED loadVars

\* The checkbox in the header of a group: there once a layer is loaded, if
\* there is more than one group.
ToggleGroup(title) ==
    /\ Cardinality(Groups) > 1
    /\ Group(title) \cap DOMAIN layers # {}
    /\ handleToggleLayerVisibility(Group(title))

\* The checkbox of a layer without categories inside a larger group.
ToggleEntry(s) ==
    /\ s \in DOMAIN layers
    /\ layers[s].labels = {}
    /\ Cardinality(Group(DisplayTitle(s))) > 1
    /\ handleToggleLayerVisibility({s})

\* The new map of layer s: one label flipped.
CategoryFlipped(s, label) ==
    Override([l \in {label} |-> ~Enabled(categoryVisibility, s, label)],
             IF s \in DOMAIN categoryVisibility
             THEN categoryVisibility[s] ELSE NoEntries)

\* The checkbox of a category.
handleToggleCategory(s, label) ==
    /\ s \in DOMAIN layers
    /\ label \in layers[s].labels
    /\ Settle(layers, [t \in {s} |-> CategoryFlipped(s, label)],
              layerVisibility)
    /\ UNCHANGED loadVars

Loading ==
    \/ ChangeDeck
    \/ \E fetched \in SUBSET deck.charts \ {{}} : Load(fetched)
    \/ \E settled \in SUBSET pending \ {{}} :
         \E arrived \in SUBSET settled : LayersArrive(settled, arrived)

Click ==
    \/ \E title \in Groups : ToggleGroup(title)
    \/ \E s \in LegendIds : ToggleEntry(s)
    \/ \E s \in LegendIds, label \in Label : handleToggleCategory(s, label)

Next == Loading \/ Click

Spec == Init /\ [][Next]_vars

-----------------------------------------------------------------------------
(* Safety.                                                                 *)

\* The legend and the map read the visibility of a layer with different
\* defaults (shown; not hidden by default): they agree on every layer.
CheckboxMatchesMap ==
    \A s \in DOMAIN layers : Checked(layerVisibility, s) <=> OnMap(s)

\* "If all categories are off, hide the layer; if any category is on, show
\* the layer", for the layers whose categories were set, whatever was done
\* since and whatever categories a reload brought.
CategoriesDecideVisibility ==
    \A s \in DOMAIN layers \cap DOMAIN categoryVisibility :
        layers[s].labels # {} =>
            (OnMap(s) <=> AnyEnabled(layers, categoryVisibility, s))

\* What the map draws of a visible layer is what its legend has checked.
MapDrawsChecked ==
    \A s \in DOMAIN layers :
        OnMap(s) /\ ~layers[s].empty =>
            layers[s].drawn =
              {label \in layers[s].labels : Enabled(categoryVisibility, s, label)}

\* Every change of a category brings the whole map in line with the legend,
\* layers that were reloaded since their categories were set included.
CategoryChangeRedraws ==
    [][categoryVisibility' # categoryVisibility => MapDrawsChecked']_vars

\* The checkbox of a group leaves its loaded layers all shown or all hidden;
\* no effect takes back a part of it.
GroupTogglesTogether ==
    [][\A title \in Groups : ToggleGroup(title) =>
         \A s, t \in Group(title) :
            Checked(layerVisibility', s) = Checked(layerVisibility', t)]_vars

\* A click on one category decides about its own layer only: the effects
\* that run for all layers leave the checkboxes of the others alone.
ClickIsLocal ==
    [][\A s \in LegendIds, label \in Label : handleToggleCategory(s, label) =>
         \A t \in Slice \ {s} :
            Checked(layerVisibility', t) = Checked(layerVisibility, t)]_vars

\* "Hide this layer when the map first loads": the arrival of a layer that is
\* hidden by default does not show it, whatever its categories were before.
HiddenByDefault ==
    [][\A s \in DOMAIN layers' \ DOMAIN layers :
         layers'[s].initiallyHidden /\ ~Checked(layerVisibility, s)
            => ~Checked(layerVisibility', s)]_vars
=============================================================================
