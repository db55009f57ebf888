---------------------------- MODULE LayerLoading ----------------------------
(***************************************************************************)
(* How the GeoSet Multi Map chart gets its layers onto the map             *)
(* (GeoSetMultiMap/Multi.tsx and GeoSetMultiMap/multiUtils.ts): the        *)
(* metadata fetch that follows every new set of props, the load that a     *)
(* changed answer starts, the three phases of loadLayersOrchestrated       *)
(* (autozoom, eager, lazy batches) with its staleness test, the effect     *)
(* that re-applies the settings of the deck to the layers, the cached      *)
(* autozoom viewport and the spinner that hides the canvas.                *)
(*                                                                         *)
(* One step is one browser task together with the renders, effects and     *)
(* promise continuations it triggers; nothing else can run in between.     *)
(* Layer and category visibility is never read by this code: module        *)
(* LayerVisibility models it.                                              *)
(***************************************************************************)
EXTENDS Naturals, Sequences, FiniteSets

CONSTANTS
    Slice,             \* charts that can be layers
    Undefined,         \* a setting that is absent from a stored deck item
    RawDecks,          \* values the deck_slices control may hold
    LAZY_BATCH_SIZE,   \* lazy layers loaded at a time
    MaxRenders,        \* bound: renders by the parent after the first one
    MaxEdits           \* bound: edits of each chart's saved metadata

RawItem == [sliceId: Slice,
            autozoom: BOOLEAN \cup {Undefined},
            lazyLoading: BOOLEAN \cup {Undefined},
            lassoSelectable: BOOLEAN \cup {Undefined}]

Config == [sliceId: Slice, autozoom: BOOLEAN,
           lazyLoading: BOOLEAN, lassoSelectable: BOOLEAN]

\* The control keeps one item per chart (a row is removed when it is picked
\* again).  A legacy item, a bare number, is an item without settings.
ASSUME DeckAssumption ==
    /\ Undefined \notin BOOLEAN
    /\ \A raw \in RawDecks :
         /\ raw \in Seq(RawItem)
         /\ \A i, j \in DOMAIN raw : raw[i].sliceId = raw[j].sliceId => i = j

ASSUME BoundAssumption ==
    /\ LAZY_BATCH_SIZE \in Nat \ {0}
    /\ MaxRenders \in Nat
    /\ MaxEdits \in Nat

-----------------------------------------------------------------------------
(* The deck: normalised settings, in the order of the control.             *)

OrElse(setting, default) == IF setting = Undefined THEN default ELSE setting

normalizeDeckSlices(raw) ==
    [i \in DOMAIN raw |->
        [sliceId         |-> raw[i].sliceId,
         autozoom        |-> OrElse(raw[i].autozoom, TRUE),
         lazyLoading     |-> OrElse(raw[i].lazyLoading, FALSE),
         lassoSelectable |-> OrElse(raw[i].lassoSelectable, TRUE)]]

Ids(d) == {d[i].sliceId : i \in DOMAIN d}

\* configById.get: the item of slice s, or what the code uses without one.
ConfigOf(d, s) ==
    IF s \in Ids(d)
    THEN d[CHOOSE i \in DOMAIN d : d[i].sliceId = s]
    ELSE [sliceId |-> s, autozoom |-> TRUE,
          lazyLoading |-> FALSE, lassoSelectable |-> TRUE]

resolveLayerAutozoom(config) == ~config.lazyLoading /\ config.autozoom

Autozoom(d, s) == resolveLayerAutozoom(ConfigOf(d, s))
Lazy(d, s)     == ConfigOf(d, s).lazyLoading

-----------------------------------------------------------------------------
VARIABLES
    deck,            \* normalizedDeckSlices of the current props
    staticViewport,  \* props.enableStaticViewport
    renders,         \* renders by the parent so far (bounded by MaxRenders)
    edition,         \* server side: how often each chart was edited
    requests,        \* metadata fetches still to be answered
    slicesData,      \* the metadata last received
    chains,          \* the loads started so far, one per generation
    layers,          \* subSlicesLayers
    fitted           \* initialAutozoomViewportRef: the slices it was fitted
                     \* to, {} for null

vars == <<deck, staticViewport, renders, edition, requests, slicesData,
          chains, layers, fitted>>

propVars == <<deck, staticViewport, renders>>

Decks == {normalizeDeckSlices(raw) : raw \in RawDecks}

Phases == {"autozoom", "eager", "lazy", "done"}

Metadata == UNION {[S -> 0..MaxEdits] : S \in SUBSET Slice}

\* order: the deck order of the fetch; meta: what came back, per chart.
SlicesData == [fetched: BOOLEAN, order: Seq(Slice), meta: Metadata]

\* One call of loadLayersOrchestrated.
Chain == [order: Seq(Slice),          \* slices, in their order
          deck: Decks,                \* deckSlicesConfig, captured
          slices: SUBSET Slice,       \* the slices to load
          phase: Phases,
          batch: SUBSET Slice,        \* members of the current Promise.all
          pending: SUBSET Slice,      \* those not settled yet
          loaded: SUBSET Slice,       \* those that produced a layer
          eager: SUBSET Slice,        \* not started
          lazy: SUBSET Slice]         \* not started

\* generation is history: the load that produced the layer.
Layer == [sliceId: Slice, autozoom: BOOLEAN, lazyLoading: BOOLEAN,
          lassoSelectable: BOOLEAN, generation: Nat]

TypeOK ==
    /\ deck \in Decks
    /\ staticViewport \in BOOLEAN
    /\ renders \in 0..MaxRenders
    /\ edition \in [Slice -> 0..MaxEdits]
    /\ requests \subseteq [id: 0..MaxRenders, deck: Decks,
                       since: [Slice -> 0..MaxEdits]]
    /\ slicesData \in SlicesData
    /\ chains \in Seq(Chain)
    /\ layers \subseteq Layer
    /\ fitted \subseteq Slice

-----------------------------------------------------------------------------
(* Derived state.                                                          *)

loadGeneration == Len(chains)

LayerIds(ls) == {l.sliceId : l \in ls}

hasAutozoomLayers == \E i \in DOMAIN deck : resolveLayerAutozoom(deck[i])

\* Faulty variant: the canvas appears as soon as the metadata is there.
GateOnMetadataOnly == deck # <<>> /\ ~slicesData.fetched

isLoading ==
    /\ deck # <<>>
    /\ IF hasAutozoomLayers THEN layers = {} ELSE ~slicesData.fetched

Shown == ~isLoading

\* The viewport handed to the canvas: the control's one ({}) or the fit.
viewport == IF staticViewport THEN {} ELSE fitted

\* Faulty variant: the fit keeps the layers themselves.
FitToLayers(static, cached, ls) == IF static THEN {} ELSE {l \in ls : l.autozoom}

\* The memo that computes the viewport, run by every render, and the effect
\* that clears the cached value while the viewport is static.
Fit(static, cached, ls) ==
    IF static THEN {}
    ELSE IF cached # {} THEN cached
    ELSE LayerIds({l \in ls : l.autozoom})

\* The effect that follows a change of the deck.
SyncSettings(ls, d) ==
    IF \E l \in ls : \/ l.autozoom # Autozoom(d, l.sliceId)
                     \/ l.lazyLoading # Lazy(d, l.sliceId)
    THEN {[l EXCEPT !.autozoom = Autozoom(d, l.sliceId),
                    !.lazyLoading = Lazy(d, l.sliceId),
                    !.lassoSelectable = ConfigOf(d, l.sliceId).lassoSelectable]
            : l \in ls}
    ELSE ls

-----------------------------------------------------------------------------
(* Metadata.                                                               *)

NoData    == [fetched |-> FALSE, order |-> <<>>, meta |-> <<>>]
EmptyData == [fetched |-> TRUE, order |-> <<>>, meta |-> <<>>]

Order(d) == [i \in DOMAIN d |-> d[i].sliceId]

Precedes(order, s, t) ==
    \E i, j \in DOMAIN order : i < j /\ order[i] = s /\ order[j] = t

\* isEqual on the two arrays of metadata.
SameSlices(a, b) ==
    /\ a.meta = b.meta
    /\ \A s, t \in DOMAIN a.meta :
         Precedes(a.order, s, t) <=> Precedes(b.order, s, t)

\* The metadata effect for the props of this render.
FetchMetadata(d, id) ==
    IF d = <<>>
    THEN slicesData' = EmptyData /\ UNCHANGED requests
    ELSE /\ requests' = requests \cup {[id |-> id, deck |-> d, since |-> edition]}
         /\ UNCHANGED slicesData

-----------------------------------------------------------------------------
(* A load: each Enter operator returns the chain with the first phase from *)
(* there on that has something to load already in flight.                  *)

InFlight(c, phase, batch) ==
    [c EXCEPT !.phase = phase, !.batch = batch,
              !.pending = batch, !.loaded = {}]

\* Faulty variant: off by one in the end of a batch.
NextBatchOneTooMany(c) ==
    {s \in c.lazy :
        Cardinality({t \in c.lazy : Precedes(c.order, t, s)})
          <= LAZY_BATCH_SIZE}

NextBatch(c) ==
    {s \in c.lazy :
        Cardinality({t \in c.lazy : Precedes(c.order, t, s)})
          < LAZY_BATCH_SIZE}

\* Faulty variant: the loop bound drops a last batch that is not full.
EnterLazyFullBatches(c) ==
    IF Cardinality(c.lazy) < LAZY_BATCH_SIZE
    THEN InFlight(c, "done", {})
    ELSE [InFlight(c, "lazy", NextBatch(c)) EXCEPT !.lazy = c.lazy \ NextBatch(c)]

EnterLazy(c) ==
    IF c.lazy = {}
    THEN InFlight(c, "done", {})
    ELSE [InFlight(c, "lazy", NextBatch(c)) EXCEPT !.lazy = c.lazy \ NextBatch(c)]

\* Faulty variant: lazy and eager layers are started together.
EnterEagerWithLazy(c) ==
    IF c.eager = {} /\ c.lazy = {}
    THEN InFlight(c, "done", {})
    ELSE [InFlight(c, "eager", c.eager \cup c.lazy) EXCEPT !.eager = {}, !.lazy = {}]

EnterEager(c) ==
    IF c.eager = {}
    THEN EnterLazy(c)
    ELSE [InFlight(c, "eager", c.eager) EXCEPT !.eager = {}]

\* The chain as a stale one leaves it: nothing more is started.
Abandon(c) == [InFlight(c, "done", {}) EXCEPT !.eager = {}, !.lazy = {}]

\* loadLayersOrchestrated up to its first await.
StartChain(data, d) ==
    LET S == DOMAIN data.meta
        auto == {s \in S : Autozoom(d, s)}
        c == [order |-> data.order, deck |-> d, slices |-> S,
              phase |-> "autozoom", batch |-> auto, pending |-> auto,
              loaded |-> {},
              eager |-> {s \in S : ~Lazy(d, s) /\ ~Autozoom(d, s)},
              lazy |-> {s \in S : Lazy(d, s)}]
    IN IF auto = {} THEN EnterEager(c) ELSE c

\* The entry loadSingleLayer returns, with the settings captured at the load.
Entry(c, s, g) ==
    [sliceId |-> s, autozoom |-> Autozoom(c.deck, s),
     lazyLoading |-> Lazy(c.deck, s),
     lassoSelectable |-> ConfigOf(c.deck, s).lassoSelectable,
     generation |-> g]

Entries(c, S, g) == {Entry(c, s, g) : s \in S}

\* Faulty variant: the generation is not looked at.
NeverStale(g) == g = 0

isStale(g) == g # loadGeneration

-----------------------------------------------------------------------------
(* Actions: the parent re-renders the chart with new props.                *)

Init ==
    /\ deck \in Decks
    /\ staticViewport \in BOOLEAN
    /\ renders = 0
    /\ edition = [s \in Slice |-> 0]
    /\ IF deck = <<>>
       THEN requests = {} /\ slicesData = EmptyData
       ELSE /\ requests = {[id |-> 0, deck |-> deck, since |-> edition]}
            /\ slicesData = NoData
    /\ chains = <<>>
    /\ layers = {}
    /\ fitted = {}

\* New props of any kind re-run the metadata effect; d is their deck.
ParentRender(d) ==
    /\ renders < MaxRenders
    /\ renders' = renders + 1
    /\ deck' = d
    /\ FetchMetadata(d, renders + 1)
    /\ UNCHANGED <<edition, chains>>

ChangeDeck ==
    \E raw \in RawDecks :
        /\ ParentRender(normalizeDeckSlices(raw))
        /\ layers' = SyncSettings(layers, normalizeDeckSlices(raw))
        /\ fitted' = Fit(staticViewport, fitted, layers')
        /\ UNCHANGED staticViewport

\* Any other prop: the size of the chart, its theme, the style of the map.
ChangeOther ==
    /\ ParentRender(deck)
    /\ UNCHANGED <<staticViewport, layers, fitted>>

ToggleStaticViewport ==
    /\ ParentRender(deck)
    /\ staticViewport' = ~staticViewport
    /\ fitted' = Fit(staticViewport', fitted, layers)
    /\ UNCHANGED layers

\* Somebody saves a chart that is used as a layer.
EditChart(s) ==
    /\ edition[s] < MaxEdits
    /\ edition' = [edition EXCEPT ![s] = @ + 1]
    /\ UNCHANGED <<propVars, requests, slicesData, chains, layers, fitted>>

-----------------------------------------------------------------------------
(* Actions: answers arrive.                                                *)

\* loadLayers: bump the generation, clear the map, start the first phase.
loadLayers(data) ==
    /\ chains' = Append(chains, StartChain(data, deck))
    /\ layers' = {}

\* What the charts ok may answer to r: their metadata at some moment between
\* the request and now.
MetadataOf(r, ok) ==
    {meta \in [ok -> 0..MaxEdits] :
        \A s \in ok : meta[s] \in r.since[s]..edition[s]}

\* All charts of one metadata fetch have answered; ok are those that did not
\* fail.  The render that follows starts a load if the metadata changed.
MetadataArrives(r) ==
    /\ requests' = requests \ {r}
    /\ \E ok \in SUBSET Ids(r.deck) : \E meta \in MetadataOf(r, ok) :
         LET data == [fetched |-> TRUE, order |-> Order(r.deck), meta |-> meta]
         IN /\ slicesData' = data
            /\ IF ok # {} /\ ~SameSlices(slicesData, data)
               THEN loadLayers(data)
               ELSE UNCHANGED <<chains, layers>>
    /\ UNCHANGED <<propVars, edition, fitted>>

\* Faulty variant: an autozoom layer is put on the map when it settles.
LayerSettlesOnMap(g, s, ok) ==
    /\ chains[g].pending # {s}
    /\ chains' = [chains EXCEPT
                    ![g].pending = @ \ {s},
                    ![g].loaded = IF ok THEN @ \cup {s} ELSE @]
    /\ layers' = IF ok /\ ~isStale(g) THEN layers \cup Entries(chains[g], {s}, g)
                 ELSE layers
    /\ fitted' = Fit(staticViewport, fitted, layers')
    /\ UNCHANGED <<propVars, edition, requests, slicesData>>

\* loadSingleLayer settles for slice s of load g while others of the same
\* Promise.all are still outstanding: ok says whether there is a layer.
LayerSettles(g, s, ok) ==
    /\ chains[g].pending # {s}
    /\ chains' = [chains EXCEPT
                    ![g].pending = @ \ {s},
                    ![g].loaded = IF ok THEN @ \cup {s} ELSE @]
    /\ UNCHANGED <<propVars, edition, requests, slicesData, layers, fitted>>

Loaded(g, s, ok) == chains[g].loaded \cup (IF ok THEN {s} ELSE {})

\* The chain goes on after an await, and the map with it.
Continue(g, c, ls) ==
    /\ chains' = [chains EXCEPT ![g] = c]
    /\ layers' = ls
    /\ fitted' = Fit(staticViewport, fitted, ls)
    /\ UNCHANGED <<propVars, edition, requests, slicesData>>

\* The last layer of phase 1: onAutozoomComplete replaces the layers.
AutozoomCompletes(g, s, ok) ==
    /\ chains[g].phase = "autozoom"
    /\ chains[g].pending = {s}
    /\ IF isStale(g)
       THEN Continue(g, Abandon(chains[g]), layers)
       ELSE Continue(g, EnterEager(chains[g]),
                     Entries(chains[g], Loaded(g, s, ok), g))

\* Faulty variant: the eager layers replace the list instead of extending it.
EagerReplaces(g, s, ok) ==
    /\ chains[g].phase = "eager"
    /\ chains[g].pending = {s}
    /\ IF isStale(g)
       THEN Continue(g, Abandon(chains[g]), layers)
       ELSE Continue(g, EnterLazy(chains[g]),
                     Entries(chains[g], Loaded(g, s, ok), g))

\* The last layer of phase 2: onEagerAppend for each layer of the batch.
EagerCompletes(g, s, ok) ==
    /\ chains[g].phase = "eager"
    /\ chains[g].pending = {s}
    /\ IF isStale(g)
       THEN Continue(g, Abandon(chains[g]), layers)
       ELSE Continue(g, EnterLazy(chains[g]),
                     layers \cup Entries(chains[g], Loaded(g, s, ok), g))

\* The last layer of a lazy batch: onLazyAppend for each layer of the batch.
LazyBatchCompletes(g, s, ok) ==
    /\ chains[g].phase = "lazy"
    /\ chains[g].pending = {s}
    /\ IF isStale(g)
       THEN Continue(g, Abandon(chains[g]), layers)
       ELSE Continue(g, EnterLazy(chains[g]),
                     layers \cup Entries(chains[g], Loaded(g, s, ok), g))

LayerAnswer(g, s, ok) ==
    \/ LayerSettles(g, s, ok)
    \/ AutozoomCompletes(g, s, ok)
    \/ EagerCompletes(g, s, ok)
    \/ LazyBatchCompletes(g, s, ok)

Answer ==
    \/ \E r \in requests : MetadataArrives(r)
    \/ \E g \in DOMAIN chains :
         \E s \in chains[g].pending, ok \in BOOLEAN : LayerAnswer(g, s, ok)

Next ==
    \/ ChangeDeck
    \/ ChangeOther
    \/ ToggleStaticViewport
    \/ \E s \in Slice : EditChart(s)
    \/ Answer

Spec == Init /\ [][Next]_vars

\* Every request to the server is answered, with a result or an error: the
\* client and the server both time out.
FairSpec == Spec /\ WF_vars(Answer)
-----------------------------------------------------------------------------
(* Safety.                                                                 *)

\* Every layer on the map was produced by the latest load: an answer to a
\* load that was superseded never reaches the map.
NoStaleLayers == \A l \in layers : l.generation = loadGeneration

\* A chart is on the map at most once, however its loads interleave.
OneLayerPerSlice ==
    \A l, m \in layers : l.sliceId = m.sliceId => l = m

\* "Layers with Lazy Loading enabled load last": once a lazy layer is on its
\* way or on the map, no other layer of that load is unsettled.
LazyLast ==
    \A g \in DOMAIN chains :
        LET c == chains[g]
            lazyOnes == {s \in c.slices : Lazy(c.deck, s)}
        IN \/ c.pending \cap lazyOnes # {}
           \/ \E l \in layers : l.generation = g /\ l.sliceId \in lazyOnes
           => c.eager = {} /\ c.pending \subseteq lazyOnes

\* "small batches of 2": no load asks for more lazy layers at once.
LazyBatchBound ==
    \A g \in DOMAIN chains :
        Cardinality({s \in chains[g].pending : Lazy(chains[g].deck, s)})
          <= LAZY_BATCH_SIZE

\* A superseded load only drains what it already asked for.
StaleChainStartsNothing ==
    [][\A g \in DOMAIN chains :
         g < loadGeneration => chains'[g].pending \subseteq chains[g].pending]_vars

\* Within one load nothing is taken off the map: a phase never overwrites
\* the layers of an earlier one.
LayersOnlyGrow ==
    [][chains # <<>> /\ Len(chains') = loadGeneration
         => LayerIds(layers) \subseteq LayerIds(layers')]_vars

\* The settings of the deck are still those the latest load captured.
SettingsKept == chains # <<>> => chains[loadGeneration].deck = deck

\* Every chart of the latest load is still a layer of the deck.
LoadOfDeck == chains # <<>> => chains[loadGeneration].slices \subseteq Ids(deck)

\* "prevents a visible jump where the map snaps to a new position": while
\* the canvas stays visible its viewport stays the same, unless the user
\* switches the static viewport or changes the deck in the middle of a load.
\* (A chart that was taken off the deck while its metadata was on its way is
\* loaded with the default settings, autozoom among them.)
NoViewportJump ==
    [][Shown /\ Shown' /\ SettingsKept /\ SettingsKept' /\ LoadOfDeck
         /\ UNCHANGED <<deck, staticViewport>>
       => UNCHANGED viewport]_vars

\* The autozoom viewport is cached for good, so it may only be computed from
\* all the autozoom layers of a load, never from the first ones to arrive.
FitWaitsForAutozoom ==
    [][fitted = {} /\ fitted' # {} /\ SettingsKept' =>
         LET c == chains'[Len(chains')]
         IN /\ \A s \in c.pending \cup c.eager \cup c.lazy : ~Autozoom(c.deck, s)
            /\ fitted' = LayerIds({l \in layers' : Autozoom(deck', l.sliceId)})]_vars

-----------------------------------------------------------------------------
(* Liveness and refinement.                                                *)

CurrentChain == chains[loadGeneration]

Unsettled(c) == c.batch \cup c.eager \cup c.lazy

target == IF chains = <<>> THEN {} ELSE CurrentChain.slices
shown  == LayerIds(layers)
failed == IF chains = <<>> THEN {}
          ELSE CurrentChain.slices \ (Unsettled(CurrentChain) \cup shown)

\* Loading implements the promise of LayerReveal.
Reveal == INSTANCE LayerReveal WITH target <- target, shown <- shown, failed <- failed

\* Every step reveals layers of the latest request only, each once, and takes
\* nothing off the map before the next request.
RevealSafety == Reveal!Safety

\* Every layer of the last load is shown or known to have failed in the end.
RevealSettles == Reveal!EventuallySettled

-----------------------------------------------------------------------------
(* What a comment says and the code does not do.                           *)

\* Multi.tsx: the gate waits "for phase 1 (autozoom batch) to complete", so
\* the canvas is visible when a load is over.
CanvasShownWhenSettled ==
    chains # <<>> /\ CurrentChain.phase = "done" /\ requests = {} => Shown
=============================================================================
