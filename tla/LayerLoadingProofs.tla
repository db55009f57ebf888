------------------------- MODULE LayerLoadingProofs -------------------------
(***************************************************************************)
(* Proofs about LayerLoading, for every set of charts, every set of decks, *)
(* every batch size and every bound: its types, the two invariants that    *)
(* keep answers of superseded loads off the map, and that it implements    *)
(* LayerReveal.                                                            *)
(***************************************************************************)
EXTENDS LayerLoading, TLAPS

\* A function on 1..n is a sequence.
LEMMA FunctionIsSeq ==
    ASSUME NEW S, NEW n \in Nat, NEW f \in [1..n -> S]
    PROVE  f \in Seq(S)
OBVIOUS

-----------------------------------------------------------------------------
(* The deck and its settings.                                              *)

\* Normalising a stored deck gives a complete item for each of its charts.
LEMMA DeckType == \A d \in Decks : d \in Seq(Config)
<1> SUFFICES ASSUME NEW raw \in RawDecks
             PROVE  normalizeDeckSlices(raw) \in Seq(Config)
  BY DEF Decks
<1>1. raw \in Seq(RawItem)
  BY DeckAssumption
<1>2. ASSUME NEW i \in DOMAIN raw
      PROVE  normalizeDeckSlices(raw)[i] \in Config
  <2>1. raw[i] \in RawItem
    BY <1>1
  <2> QED
    BY <2>1 DEF normalizeDeckSlices, OrElse, RawItem, Config
<1>3. DOMAIN raw = 1..Len(raw) /\ Len(raw) \in Nat
  BY <1>1
<1>4. normalizeDeckSlices(raw) \in [1..Len(raw) -> Config]
  BY <1>2, <1>3 DEF normalizeDeckSlices
<1> QED
  BY <1>3, <1>4, FunctionIsSeq

\* The settings looked up for a chart are complete, also without an item.
LEMMA ConfigType ==
    ASSUME NEW d \in Decks, NEW s \in Slice
    PROVE  /\ ConfigOf(d, s) \in Config
           /\ Autozoom(d, s) \in BOOLEAN
           /\ Lazy(d, s) \in BOOLEAN
<1>1. d \in Seq(Config)
  BY DeckType
<1>2. ConfigOf(d, s) \in Config
  <2>1. CASE s \in Ids(d)
    <3>1. \E i \in DOMAIN d : d[i].sliceId = s
      BY <2>1 DEF Ids
    <3>2. (CHOOSE i \in DOMAIN d : d[i].sliceId = s) \in DOMAIN d
      BY <3>1
    <3> QED
      BY <1>1, <2>1, <3>2 DEF ConfigOf
  <2>2. CASE s \notin Ids(d)
    BY <2>2 DEF ConfigOf, Config
  <2> QED
    BY <2>1, <2>2
<1> QED
  BY <1>2 DEF Autozoom, Lazy, resolveLayerAutozoom, Config

\* The order of a fetch is a sequence of charts.
LEMMA OrderType == \A d \in Decks : Order(d) \in Seq(Slice)
<1> SUFFICES ASSUME NEW d \in Decks PROVE Order(d) \in Seq(Slice)
  OBVIOUS
<1>1. d \in Seq(Config) /\ DOMAIN d = 1..Len(d) /\ Len(d) \in Nat
  BY DeckType
<1>2. ASSUME NEW i \in DOMAIN d PROVE d[i].sliceId \in Slice
  <2>1. d[i] \in Config
    BY <1>1
  <2> QED
    BY <2>1 DEF Config
<1>3. Order(d) \in [1..Len(d) -> Slice]
  BY <1>1, <1>2 DEF Order
<1> QED
  BY <1>1, <1>3, FunctionIsSeq

-----------------------------------------------------------------------------
(* Layers.                                                                 *)

\* What a load contributes to the map are layers of that load, one per chart.
LEMMA EntriesType ==
    ASSUME NEW c \in Chain, NEW S \in SUBSET Slice, NEW g \in Nat
    PROVE  /\ Entries(c, S, g) \subseteq Layer
           /\ LayerIds(Entries(c, S, g)) = S
           /\ \A l \in Entries(c, S, g) : l.generation = g
           /\ \A l, m \in Entries(c, S, g) : l.sliceId = m.sliceId => l = m
<1>1. c.deck \in Decks
  BY DEF Chain
<1>2. ASSUME NEW s \in S
      PROVE  Entry(c, s, g) \in Layer
  <2>1. ConfigOf(c.deck, s).lassoSelectable \in BOOLEAN
    BY <1>1, ConfigType DEF Config
  <2> QED
    BY <1>1, <2>1, ConfigType DEF Entry, Layer
<1>3. \A s \in S : Entry(c, s, g).sliceId = s /\ Entry(c, s, g).generation = g
  BY DEF Entry
<1> QED
  BY <1>2, <1>3 DEF Entries, LayerIds

\* Re-applying the settings keeps the layers, and what they are.
LEMMA SyncType ==
    ASSUME NEW d \in Decks, NEW ls \in SUBSET Layer
    PROVE  /\ SyncSettings(ls, d) \subseteq Layer
           /\ LayerIds(SyncSettings(ls, d)) = LayerIds(ls)
           /\ \A l \in SyncSettings(ls, d) :
                \E k \in ls : l.sliceId = k.sliceId /\ l.generation = k.generation
           /\ (\A k, m \in ls : k.sliceId = m.sliceId => k = m)
                => \A k, m \in SyncSettings(ls, d) : k.sliceId = m.sliceId => k = m
<1> DEFINE sync(l) ==
      [l EXCEPT !.autozoom = Autozoom(d, l.sliceId),
                !.lazyLoading = Lazy(d, l.sliceId),
                !.lassoSelectable = ConfigOf(d, l.sliceId).lassoSelectable]
<1>1. ASSUME NEW l \in ls
      PROVE  /\ sync(l) \in Layer
             /\ sync(l).sliceId = l.sliceId
             /\ sync(l).generation = l.generation
  <2>1. l \in Layer /\ l.sliceId \in Slice
    BY DEF Layer
  <2>2. ConfigOf(d, l.sliceId).lassoSelectable \in BOOLEAN
    BY <2>1, ConfigType DEF Config
  <2>3. Autozoom(d, l.sliceId) \in BOOLEAN /\ Lazy(d, l.sliceId) \in BOOLEAN
    BY <2>1, ConfigType
  <2> QED
    BY <2>1, <2>2, <2>3 DEF Layer
<1>2. SyncSettings(ls, d) = ls \/ SyncSettings(ls, d) = {sync(l) : l \in ls}
  BY DEF SyncSettings
<1>3. CASE SyncSettings(ls, d) = ls
  BY <1>3
<1>4. CASE SyncSettings(ls, d) = {sync(l) : l \in ls}
  <2> HIDE DEF sync
  <2>1. SyncSettings(ls, d) \subseteq Layer
    BY <1>1, <1>4
  <2>2. LayerIds(SyncSettings(ls, d)) = LayerIds(ls)
    BY <1>1, <1>4 DEF LayerIds
  <2> QED
    BY <1>1, <1>4, <2>1, <2>2
<1> QED
  BY <1>2, <1>3, <1>4

LEMMA FitType ==
    ASSUME NEW static, NEW cached \in SUBSET Slice, NEW ls \in SUBSET Layer
    PROVE  Fit(static, cached, ls) \subseteq Slice
BY DEF Fit, LayerIds, Layer

-----------------------------------------------------------------------------
(* Chains.                                                                 *)

\* The slices of a load are settled, in the current batch, or not started,
\* and never two of these.
WellFormed(c) ==
    /\ c.pending \subseteq c.batch
    /\ c.loaded \subseteq c.batch
    /\ c.batch \cap c.eager = {}
    /\ c.batch \cap c.lazy = {}
    /\ c.eager \cap c.lazy = {}
    /\ c.batch \cup c.eager \cup c.lazy \subseteq c.slices

\* Later(c, e): e is c after an await: it asks only for slices that c had not
\* started, and forgets none of its own.
Later(c, e) ==
    /\ e \in Chain
    /\ WellFormed(e)
    /\ e.slices = c.slices
    /\ e.phase # "autozoom"
    /\ e.batch \cup e.eager \cup e.lazy \subseteq c.eager \cup c.lazy

LEMMA EnterLazyStep ==
    ASSUME NEW c \in Chain, WellFormed(c)
    PROVE  Later(c, EnterLazy(c)) /\ Unsettled(EnterLazy(c)) = c.eager \cup c.lazy
<1>1. NextBatch(c) \subseteq c.lazy
  BY DEF NextBatch
<1>2. CASE c.lazy = {}
  BY <1>2 DEF EnterLazy, InFlight, Chain, WellFormed, Later, Phases, Unsettled
<1>3. CASE c.lazy # {}
  <2> DEFINE B == NextBatch(c)
             e == [c EXCEPT !.phase = "lazy", !.batch = B, !.pending = B,
                            !.loaded = {}, !.lazy = c.lazy \ B]
  <2>1. EnterLazy(c) = e
    BY <1>3 DEF EnterLazy, InFlight, Chain
  <2> HIDE DEF B
  <2>2. B \subseteq c.lazy
    BY <1>1 DEF B
  <2>3. e \in Chain
    BY <2>2 DEF Chain, Phases
  <2>4. WellFormed(e) /\ e.slices = c.slices /\ e.phase # "autozoom"
        /\ Unsettled(e) = c.eager \cup c.lazy
    BY <2>2 DEF Chain, WellFormed, Unsettled
  <2> QED
    BY <2>1, <2>3, <2>4 DEF Later, Unsettled
<1> QED
  BY <1>2, <1>3

LEMMA EnterEagerStep ==
    ASSUME NEW c \in Chain, WellFormed(c)
    PROVE  Later(c, EnterEager(c)) /\ Unsettled(EnterEager(c)) = c.eager \cup c.lazy
<1>1. CASE c.eager = {}
  BY <1>1, EnterLazyStep DEF EnterEager
<1>2. CASE c.eager # {}
  <2> DEFINE e == [c EXCEPT !.phase = "eager", !.batch = c.eager,
                            !.pending = c.eager, !.loaded = {}, !.eager = {}]
  <2>1. EnterEager(c) = e
    BY <1>2 DEF EnterEager, InFlight, Chain
  <2>2. e \in Chain
    BY DEF Chain, Phases
  <2>3. WellFormed(e) /\ e.slices = c.slices /\ e.phase # "autozoom"
        /\ Unsettled(e) = c.eager \cup c.lazy
    BY DEF Chain, WellFormed, Unsettled
  <2> QED
    BY <2>1, <2>2, <2>3 DEF Later, Unsettled
<1> QED
  BY <1>1, <1>2

LEMMA AbandonStep ==
    ASSUME NEW c \in Chain
    PROVE  Later(c, Abandon(c))
BY DEF Abandon, InFlight, Chain, WellFormed, Later, Phases

\* A load starts with exactly the slices it was given, none of them settled.
LEMMA StartChainStep ==
    ASSUME NEW d \in Decks, NEW data \in SlicesData
    PROVE  /\ StartChain(data, d) \in Chain
           /\ WellFormed(StartChain(data, d))
           /\ StartChain(data, d).slices = DOMAIN data.meta
           /\ Unsettled(StartChain(data, d)) = DOMAIN data.meta
<1> DEFINE S == DOMAIN data.meta
           auto == {s \in S : Autozoom(d, s)}
           c == [order |-> data.order, deck |-> d, slices |-> S,
                 phase |-> "autozoom", batch |-> auto, pending |-> auto,
                 loaded |-> {},
                 eager |-> {s \in S : ~Lazy(d, s) /\ ~Autozoom(d, s)},
                 lazy |-> {s \in S : Lazy(d, s)}]
<1>1. data.order \in Seq(Slice) /\ data.meta \in Metadata
  BY DEF SlicesData
<1>2. S \subseteq Slice
  BY <1>1 DEF Metadata
<1>3. c \in Chain
  BY <1>1, <1>2 DEF Chain, Phases
<1>4. \A s \in S : Autozoom(d, s) => ~Lazy(d, s)
  BY DEF Autozoom, Lazy, resolveLayerAutozoom
<1>5. WellFormed(c)
  BY <1>4 DEF WellFormed
<1>6. c.slices = S /\ Unsettled(c) = S /\ (auto = {} => c.eager \cup c.lazy = S)
  BY DEF Unsettled
<1>7. StartChain(data, d) = IF auto = {} THEN EnterEager(c) ELSE c
  BY DEF StartChain
<1> HIDE DEF c
<1> QED
  BY <1>3, <1>5, <1>6, <1>7, EnterEagerStep DEF Later

-----------------------------------------------------------------------------
(* Type correctness.                                                       *)

\* The part of a step that fetches metadata keeps the types.
LEMMA FetchType ==
    ASSUME TypeOK, NEW d \in Decks, NEW id \in 0..MaxRenders,
           FetchMetadata(d, id)
    PROVE  /\ requests' \subseteq [id: 0..MaxRenders, deck: Decks,
                                 since: [Slice -> 0..MaxEdits]]
           /\ slicesData' \in SlicesData
<1>1. CASE d = <<>>
  <2>1. EmptyData \in SlicesData
    <3>1. <<>> \in [{} -> 0..MaxEdits]
      OBVIOUS
    <3>2. <<>> \in Metadata
      BY <3>1 DEF Metadata
    <3> QED
      BY <3>2 DEF EmptyData, SlicesData
  <2> QED
    BY <1>1, <2>1 DEF FetchMetadata, TypeOK
<1>2. CASE d # <<>>
  BY <1>2 DEF FetchMetadata, TypeOK
<1> QED
  BY <1>1, <1>2

\* The part of a step that re-renders the chart keeps the types.
LEMMA ParentRenderType ==
    ASSUME TypeOK, NEW d \in Decks, ParentRender(d)
    PROVE  /\ deck' \in Decks
           /\ renders' \in 0..MaxRenders
           /\ requests' \subseteq [id: 0..MaxRenders, deck: Decks,
                                 since: [Slice -> 0..MaxEdits]]
           /\ slicesData' \in SlicesData
           /\ edition' = edition
           /\ chains' = chains
<1>1. renders \in 0..MaxRenders /\ renders < MaxRenders /\ MaxRenders \in Nat
  BY BoundAssumption DEF TypeOK, ParentRender
<1>2. renders + 1 \in 0..MaxRenders
  BY <1>1
<1> QED
  BY <1>2, FetchType DEF ParentRender

\* Metadata that arrives is typed, whichever charts failed.
LEMMA DataType ==
    ASSUME TypeOK, NEW r \in requests, NEW ok \in SUBSET Ids(r.deck),
           NEW meta \in MetadataOf(r, ok)
    PROVE  /\ [fetched |-> TRUE, order |-> Order(r.deck), meta |-> meta]
                \in SlicesData
           /\ DOMAIN meta = ok
<1>1. r.deck \in Decks
  BY DEF TypeOK
<1>2. ok \subseteq Slice
  <2>1. r.deck \in Seq(Config)
    BY <1>1, DeckType
  <2>2. ASSUME NEW i \in DOMAIN r.deck
        PROVE  r.deck[i].sliceId \in Slice
    <3>1. r.deck[i] \in Config
      BY <2>1
    <3> QED
      BY <3>1 DEF Config
  <2> QED
    BY <2>2 DEF Ids
<1>3. meta \in [ok -> 0..MaxEdits]
  BY DEF MetadataOf
<1>4. meta \in Metadata
  BY <1>2, <1>3 DEF Metadata
<1> QED
  BY <1>1, <1>3, <1>4, OrderType DEF SlicesData

\* Replacing one chain of the history.
LEMMA ReplaceChain ==
    ASSUME NEW cs \in Seq(Chain), NEW g \in DOMAIN cs, NEW c \in Chain
    PROVE  /\ [cs EXCEPT ![g] = c] \in Seq(Chain)
           /\ Len([cs EXCEPT ![g] = c]) = Len(cs)
           /\ DOMAIN [cs EXCEPT ![g] = c] = DOMAIN cs
           /\ \A h \in DOMAIN cs :
                [cs EXCEPT ![g] = c][h] = IF h = g THEN c ELSE cs[h]
<1>1. cs \in [1..Len(cs) -> Chain] /\ Len(cs) \in Nat /\ DOMAIN cs = 1..Len(cs)
  OBVIOUS
<1>2. [cs EXCEPT ![g] = c] \in [1..Len(cs) -> Chain]
  BY <1>1
<1>3. [cs EXCEPT ![g] = c] \in Seq(Chain)
  BY <1>1, <1>2, FunctionIsSeq
<1>4. DOMAIN [cs EXCEPT ![g] = c] = 1..Len(cs)
  BY <1>1
<1> QED
  BY <1>1, <1>3, <1>4

\* Starting a new chain.
LEMMA AppendChain ==
    ASSUME NEW cs \in Seq(Chain), NEW c \in Chain
    PROVE  /\ Append(cs, c) \in Seq(Chain)
           /\ Len(Append(cs, c)) = Len(cs) + 1
           /\ DOMAIN Append(cs, c) = DOMAIN cs \cup {Len(cs) + 1}
           /\ \A h \in DOMAIN cs : Append(cs, c)[h] = cs[h]
           /\ Append(cs, c)[Len(cs) + 1] = c
OBVIOUS

ChainsWellFormed == \A g \in DOMAIN chains : WellFormed(chains[g])

TypeInv == TypeOK /\ ChainsWellFormed

\* A layer settles while others of its batch are outstanding.
LEMMA SettleType ==
    ASSUME TypeInv, NEW g \in DOMAIN chains, NEW s \in chains[g].pending,
           NEW ok \in BOOLEAN, LayerSettles(g, s, ok)
    PROVE  /\ chains' \in Seq(Chain)
           /\ Len(chains') = Len(chains)
           /\ \E c \in Chain :
                /\ WellFormed(c)
                /\ chains' = [chains EXCEPT ![g] = c]
                /\ c.slices = chains[g].slices
                /\ c.phase = chains[g].phase
                /\ Unsettled(c) = Unsettled(chains[g])
                /\ c.pending \subseteq chains[g].pending
                /\ c.eager = chains[g].eager
<1> DEFINE c == [chains[g] EXCEPT !.pending = @ \ {s},
                                  !.loaded = IF ok THEN @ \cup {s} ELSE @]
<1>1. chains \in Seq(Chain) /\ chains[g] \in Chain /\ WellFormed(chains[g])
  BY DEF TypeInv, TypeOK, ChainsWellFormed
<1>2. s \in Slice
  BY <1>1 DEF Chain
<1>3. c \in Chain
  BY <1>1, <1>2 DEF Chain
<1>4. /\ WellFormed(c)
      /\ c.slices = chains[g].slices
      /\ c.phase = chains[g].phase
      /\ Unsettled(c) = Unsettled(chains[g])
      /\ c.pending \subseteq chains[g].pending
      /\ c.eager = chains[g].eager
  BY <1>1 DEF Chain, WellFormed, Unsettled
<1>5. chains' = [chains EXCEPT ![g] = c]
  BY DEF LayerSettles
<1> HIDE DEF c
<1>6. chains' \in Seq(Chain) /\ Len(chains') = Len(chains)
  BY <1>1, <1>3, <1>5, ReplaceChain
<1> QED
  BY <1>3, <1>4, <1>5, <1>6

\* The last layer of a batch settles: the chain goes on or is abandoned, and
\* what it adds to the map are slices of that batch.
LEMMA CompleteType ==
    ASSUME TypeInv, NEW g \in DOMAIN chains, NEW s \in chains[g].pending,
           NEW ok \in BOOLEAN,
           \/ AutozoomCompletes(g, s, ok)
           \/ EagerCompletes(g, s, ok)
           \/ LazyBatchCompletes(g, s, ok)
    PROVE  /\ chains' \in Seq(Chain)
           /\ Len(chains') = Len(chains)
           /\ \E e \in Chain :
                /\ Later(chains[g], e)
                /\ chains' = [chains EXCEPT ![g] = e]
                /\ isStale(g) => e = Abandon(chains[g])
                /\ ~isStale(g) =>
                     Unsettled(e) = chains[g].eager \cup chains[g].lazy
           /\ Loaded(g, s, ok) \subseteq chains[g].batch
           /\ layers' \in {layers,
                           Entries(chains[g], Loaded(g, s, ok), g),
                           layers \cup Entries(chains[g], Loaded(g, s, ok), g)}
           /\ isStale(g) => layers' = layers
           /\ ~isStale(g) =>
                layers' = (IF chains[g].phase = "autozoom" THEN {} ELSE layers)
                            \cup Entries(chains[g], Loaded(g, s, ok), g)
           /\ layers' \subseteq Layer
           /\ fitted' \subseteq Slice
           /\ UNCHANGED <<propVars, edition, requests, slicesData>>
<1> DEFINE c == chains[g]
           E == Entries(c, Loaded(g, s, ok), g)
<1>1. chains \in Seq(Chain) /\ c \in Chain /\ WellFormed(c) /\ g \in Nat
  BY DEF TypeInv, TypeOK, ChainsWellFormed
<1>2. Loaded(g, s, ok) \subseteq c.batch /\ Loaded(g, s, ok) \subseteq Slice
  BY <1>1 DEF Loaded, WellFormed, Chain
<1>3. E \subseteq Layer
  BY <1>1, <1>2, EntriesType
<1>4. PICK e \in Chain, ls \in {layers, E, layers \cup E} :
        /\ Later(c, e)
        /\ Continue(g, e, ls)
        /\ isStale(g) => e = Abandon(c) /\ ls = layers
        /\ ~isStale(g) =>
             /\ Unsettled(e) = c.eager \cup c.lazy
             /\ ls = (IF c.phase = "autozoom" THEN {} ELSE layers) \cup E
  <2>1. CASE isStale(g)
    <3>1. Continue(g, Abandon(c), layers)
      BY <2>1 DEF AutozoomCompletes, EagerCompletes, LazyBatchCompletes
    <3>2. Later(c, Abandon(c))
      BY <1>1, AbandonStep
    <3> QED
      BY <2>1, <3>1, <3>2 DEF Later
  <2>2. CASE ~isStale(g) /\ AutozoomCompletes(g, s, ok)
    <3>1. Continue(g, EnterEager(c), E) /\ c.phase = "autozoom"
      BY <2>2 DEF AutozoomCompletes
    <3>2. Later(c, EnterEager(c)) /\ Unsettled(EnterEager(c)) = c.eager \cup c.lazy
      BY <1>1, EnterEagerStep
    <3> QED
      BY <2>2, <3>1, <3>2 DEF Later
  <2>3. CASE ~isStale(g) /\ ~AutozoomCompletes(g, s, ok)
    <3>1. Continue(g, EnterLazy(c), layers \cup E) /\ c.phase # "autozoom"
      BY <2>3 DEF EagerCompletes, LazyBatchCompletes
    <3>2. Later(c, EnterLazy(c)) /\ Unsettled(EnterLazy(c)) = c.eager \cup c.lazy
      BY <1>1, EnterLazyStep
    <3> QED
      BY <2>3, <3>1, <3>2 DEF Later
  <2> QED
    BY <2>1, <2>2, <2>3
<1>5. chains' = [chains EXCEPT ![g] = e] /\ layers' = ls
  BY <1>4 DEF Continue
<1>6. chains' \in Seq(Chain) /\ Len(chains') = Len(chains)
  BY <1>1, <1>5, ReplaceChain
<1>7. layers' \subseteq Layer
  BY <1>3, <1>4, <1>5 DEF TypeInv, TypeOK
<1>8. fitted' \subseteq Slice
  BY <1>4, <1>5, <1>7, FitType DEF Continue, TypeInv, TypeOK
<1> QED
  BY <1>2, <1>4, <1>5, <1>6, <1>7, <1>8 DEF Continue

\* Metadata arrives: it is kept, and it may start a load of its slices.
LEMMA MetadataType ==
    ASSUME TypeInv, NEW r \in requests, MetadataArrives(r)
    PROVE  /\ requests' \subseteq requests
           /\ slicesData' \in SlicesData
           /\ UNCHANGED <<propVars, edition, fitted>>
           /\ \/ UNCHANGED <<chains, layers>>
              \/ \E c \in Chain :
                   /\ WellFormed(c)
                   /\ c.slices # {} /\ Unsettled(c) = c.slices
                   /\ chains' = Append(chains, c)
                   /\ layers' = {}
<1>0. PICK ok \in SUBSET Ids(r.deck) :
        \E meta \in MetadataOf(r, ok) :
          LET data == [fetched |-> TRUE, order |-> Order(r.deck), meta |-> meta]
          IN /\ slicesData' = data
             /\ IF ok # {} /\ ~SameSlices(slicesData, data)
                THEN loadLayers(data)
                ELSE UNCHANGED <<chains, layers>>
  BY DEF MetadataArrives
<1>1. PICK meta \in MetadataOf(r, ok) :
        LET data == [fetched |-> TRUE, order |-> Order(r.deck), meta |-> meta]
        IN /\ slicesData' = data
           /\ IF ok # {} /\ ~SameSlices(slicesData, data)
              THEN loadLayers(data)
              ELSE UNCHANGED <<chains, layers>>
  BY <1>0
<1> DEFINE data == [fetched |-> TRUE, order |-> Order(r.deck), meta |-> meta]
<1>2. data \in SlicesData
  BY DataType DEF TypeInv
<1>3. DOMAIN data.meta = ok
  BY DataType DEF TypeInv
<1>4. CASE ok # {} /\ ~SameSlices(slicesData, data)
  <2>1. loadLayers(data)
    BY <1>1, <1>4
  <2>2. deck \in Decks
    BY DEF TypeInv, TypeOK
  <2> HIDE DEF data
  <2>3. /\ StartChain(data, deck) \in Chain
        /\ WellFormed(StartChain(data, deck))
        /\ StartChain(data, deck).slices # {}
        /\ Unsettled(StartChain(data, deck))
             = StartChain(data, deck).slices
    BY <1>2, <1>3, <1>4, <2>2, StartChainStep
  <2>4. \E c \in Chain :
                   /\ WellFormed(c)
                   /\ c.slices # {} /\ Unsettled(c) = c.slices
                   /\ chains' = Append(chains, c)
                   /\ layers' = {}
    BY <2>1, <2>3 DEF loadLayers
  <2> QED
    BY <1>1, <1>2, <2>4 DEF MetadataArrives, data
<1>5. CASE ~(ok # {} /\ ~SameSlices(slicesData, data))
  BY <1>1, <1>2, <1>5 DEF MetadataArrives
<1> QED
  BY <1>4, <1>5

LEMMA InitTypeInv == Init => TypeInv
<1> SUFFICES ASSUME Init PROVE TypeInv
  OBVIOUS
<1>1. <<>> \in Metadata
  <2>1. <<>> \in [{} -> 0..MaxEdits]
    OBVIOUS
  <2> QED
    BY <2>1 DEF Metadata
<1>2. EmptyData \in SlicesData /\ NoData \in SlicesData
  BY <1>1 DEF EmptyData, NoData, SlicesData
<1>3. slicesData \in SlicesData
  BY <1>2 DEF Init
<1>4. edition \in [Slice -> 0..MaxEdits] /\ renders \in 0..MaxRenders
  BY BoundAssumption DEF Init
<1>5. requests \subseteq [id: 0..MaxRenders, deck: Decks,
                           since: [Slice -> 0..MaxEdits]]
  BY <1>4, BoundAssumption DEF Init
<1>6. chains \in Seq(Chain) /\ ChainsWellFormed
  BY DEF Init, ChainsWellFormed
<1> QED
  BY <1>3, <1>4, <1>5, <1>6 DEF Init, TypeInv, TypeOK

LEMMA NextTypeInv == TypeInv /\ [Next]_vars => TypeInv'
<1> SUFFICES ASSUME TypeInv, [Next]_vars PROVE TypeInv'
  OBVIOUS
<1> USE DEF TypeInv
<1>1. CASE ChangeDeck
  <2>1. PICK raw \in RawDecks :
          /\ ParentRender(normalizeDeckSlices(raw))
          /\ layers' = SyncSettings(layers, normalizeDeckSlices(raw))
          /\ fitted' = Fit(staticViewport, fitted, layers')
          /\ UNCHANGED staticViewport
    BY <1>1 DEF ChangeDeck
  <2>2. normalizeDeckSlices(raw) \in Decks
    BY DEF Decks
  <2>3. layers' \subseteq Layer
    BY <2>1, <2>2, SyncType DEF TypeOK
  <2>4. fitted' \subseteq Slice
    BY <2>1, <2>3, FitType DEF TypeOK
  <2> QED
    BY <2>1, <2>2, <2>3, <2>4, ParentRenderType DEF TypeOK, ChainsWellFormed
<1>2. CASE ChangeOther
  BY <1>2, ParentRenderType DEF ChangeOther, TypeOK, ChainsWellFormed
<1>3. CASE ToggleStaticViewport
  <2>1. deck \in Decks /\ ParentRender(deck)
    BY <1>3 DEF ToggleStaticViewport, TypeOK
  <2>2. fitted' \subseteq Slice
    BY <1>3, FitType DEF ToggleStaticViewport, TypeOK
  <2> QED
    BY <1>3, <2>1, <2>2, ParentRenderType
    DEF ToggleStaticViewport, TypeOK, ChainsWellFormed
<1>4. ASSUME NEW s \in Slice, EditChart(s) PROVE TypeInv'
  <2>1. edition' \in [Slice -> 0..MaxEdits]
    BY <1>4, BoundAssumption DEF EditChart, TypeOK
  <2> QED
    BY <1>4, <2>1 DEF EditChart, propVars, TypeOK, ChainsWellFormed
<1>5. ASSUME NEW r \in requests, MetadataArrives(r) PROVE TypeInv'
  <2>1. /\ requests' \subseteq requests
        /\ slicesData' \in SlicesData
        /\ UNCHANGED <<propVars, edition, fitted>>
        /\ \/ UNCHANGED <<chains, layers>>
           \/ \E c \in Chain :
                /\ WellFormed(c)
                /\ c.slices # {} /\ Unsettled(c) = c.slices
                /\ chains' = Append(chains, c)
                /\ layers' = {}
    BY <1>5, MetadataType
  <2>2. chains' \in Seq(Chain) /\ ChainsWellFormed'
    <3>1. CASE UNCHANGED chains
      BY <3>1 DEF TypeOK, ChainsWellFormed
    <3>2. ASSUME NEW c \in Chain, WellFormed(c), chains' = Append(chains, c)
          PROVE  chains' \in Seq(Chain) /\ ChainsWellFormed'
      BY <3>2, AppendChain DEF TypeOK, ChainsWellFormed
    <3> QED
      BY <2>1, <3>1, <3>2
  <2>3. layers' \subseteq Layer
    BY <2>1 DEF TypeOK
  <2> QED
    BY <2>1, <2>2, <2>3 DEF propVars, TypeOK
<1>6. ASSUME NEW g \in DOMAIN chains, NEW s \in chains[g].pending,
             NEW ok \in BOOLEAN, LayerAnswer(g, s, ok)
      PROVE  TypeInv'
  <2>1. CASE LayerSettles(g, s, ok)
    <3>1. PICK c \in Chain : WellFormed(c) /\ chains' = [chains EXCEPT ![g] = c]
      BY <2>1, SettleType
    <3>2. chains' \in Seq(Chain) /\ ChainsWellFormed'
      BY <3>1, ReplaceChain DEF TypeOK, ChainsWellFormed
    <3> QED
      BY <2>1, <3>2 DEF LayerSettles, propVars, TypeOK
  <2>2. CASE \/ AutozoomCompletes(g, s, ok)
             \/ EagerCompletes(g, s, ok)
             \/ LazyBatchCompletes(g, s, ok)
    <3>1. /\ layers' \subseteq Layer
          /\ fitted' \subseteq Slice
          /\ UNCHANGED <<propVars, edition, requests, slicesData>>
      BY <2>2, CompleteType
    <3>2. PICK e \in Chain : Later(chains[g], e) /\ chains' = [chains EXCEPT ![g] = e]
      BY <2>2, CompleteType
    <3>3. chains' \in Seq(Chain) /\ ChainsWellFormed'
      BY <3>2, ReplaceChain DEF TypeOK, ChainsWellFormed, Later
    <3> QED
      BY <3>1, <3>3 DEF propVars, TypeOK
  <2> QED
    BY <1>6, <2>1, <2>2 DEF LayerAnswer
<1>7. CASE UNCHANGED vars
  BY <1>7 DEF vars, TypeOK, ChainsWellFormed
<1> QED
  BY <1>1, <1>2, <1>3, <1>4, <1>5, <1>6, <1>7 DEF Next, Answer

\* Every variable keeps its type, whatever arrives in whatever order.
THEOREM TypeCorrect == Spec => []TypeOK
<1>1. Init => TypeInv
  BY InitTypeInv
<1>2. TypeInv /\ [Next]_vars => TypeInv'
  BY NextTypeInv
<1>3. TypeInv => TypeOK
  BY DEF TypeInv
<1> QED
  BY <1>1, <1>2, <1>3, PTL DEF Spec

-----------------------------------------------------------------------------
(* The map shows the latest load only, and each chart once.                *)

\* What ties the map to the latest chain: the chain is still waiting for every
\* slice that is neither on the map nor failed, and phase 1 finds the map
\* empty, so that replacing the layers at its end loses none.
MapInv ==
    /\ chains = <<>> => layers = {}
    /\ chains # <<>> =>
         /\ LayerIds(layers) \subseteq CurrentChain.slices \ Unsettled(CurrentChain)
         /\ CurrentChain.phase = "autozoom" => layers = {}

LoadInv == TypeInv /\ NoStaleLayers /\ OneLayerPerSlice /\ MapInv

\* The latest chain after a completed batch of it.
LEMMA CompleteMap ==
    ASSUME LoadInv, NEW g \in DOMAIN chains, NEW s \in chains[g].pending,
           NEW ok \in BOOLEAN, ~isStale(g),
           \/ AutozoomCompletes(g, s, ok)
           \/ EagerCompletes(g, s, ok)
           \/ LazyBatchCompletes(g, s, ok)
    PROVE  /\ NoStaleLayers' /\ OneLayerPerSlice' /\ MapInv'
           /\ LayerIds(layers') = LayerIds(layers) \cup Loaded(g, s, ok)
           /\ CurrentChain'.slices = CurrentChain.slices
           /\ Unsettled(CurrentChain)' = CurrentChain.eager \cup CurrentChain.lazy
<1> DEFINE c == chains[g]
           E == Entries(c, Loaded(g, s, ok), g)
<1>1. /\ chains \in Seq(Chain) /\ c \in Chain /\ WellFormed(c)
      /\ g = Len(chains) /\ g \in Nat /\ chains # <<>> /\ CurrentChain = c
  BY DEF LoadInv, TypeInv, TypeOK, ChainsWellFormed, isStale, loadGeneration,
         CurrentChain
<1>2. PICK e \in Chain :
        /\ Later(c, e)
        /\ chains' = [chains EXCEPT ![g] = e]
        /\ Unsettled(e) = c.eager \cup c.lazy
  BY CompleteType DEF LoadInv
<1>3. Loaded(g, s, ok) \subseteq c.batch /\ Loaded(g, s, ok) \subseteq Slice
  <2>1. Loaded(g, s, ok) \subseteq c.batch
    BY CompleteType DEF LoadInv
  <2> QED
    BY <1>1, <2>1 DEF Chain
<1>4. layers' = layers \cup E
  <2>1. layers' = (IF c.phase = "autozoom" THEN {} ELSE layers) \cup E
    BY CompleteType DEF LoadInv
  <2>2. c.phase = "autozoom" => layers = {}
    BY <1>1 DEF LoadInv, MapInv
  <2> QED
    BY <2>1, <2>2
<1>5. /\ LayerIds(E) = Loaded(g, s, ok)
      /\ \A l \in E : l.generation = g
      /\ \A l, m \in E : l.sliceId = m.sliceId => l = m
  BY <1>1, <1>3, EntriesType
<1>6. chains' # <<>> /\ Len(chains') = g /\ chains'[g] = e
  BY <1>1, <1>2, ReplaceChain
<1>7. CurrentChain' = e
  BY <1>6 DEF CurrentChain, loadGeneration
<1> HIDE DEF E
<1>8. LayerIds(layers') = LayerIds(layers) \cup Loaded(g, s, ok)
  BY <1>4, <1>5 DEF LayerIds
<1>9. LayerIds(layers) \subseteq c.slices \ Unsettled(c)
  BY <1>1 DEF LoadInv, MapInv
<1>10. NoStaleLayers'
  BY <1>1, <1>4, <1>5, <1>6 DEF LoadInv, NoStaleLayers, loadGeneration
<1>11. OneLayerPerSlice'
  <2>1. \A l \in layers, m \in E : l.sliceId # m.sliceId
    BY <1>3, <1>5, <1>9 DEF LayerIds, Unsettled
  <2> QED
    BY <1>4, <1>5, <2>1 DEF LoadInv, OneLayerPerSlice
<1>12. MapInv'
  <2>1. Loaded(g, s, ok) \subseteq e.slices \ Unsettled(e)
    BY <1>1, <1>2, <1>3 DEF WellFormed, Later
  <2>2. LayerIds(layers) \subseteq e.slices \ Unsettled(e)
    BY <1>2, <1>9 DEF Later, Unsettled
  <2> QED
    BY <1>2, <1>6, <1>7, <1>8, <2>1, <2>2 DEF MapInv, Later
<1> QED
  BY <1>1, <1>2, <1>7, <1>8, <1>10, <1>11, <1>12 DEF Later, Unsettled

LEMMA InitLoadInv == Init => LoadInv
<1> SUFFICES ASSUME Init PROVE LoadInv
  OBVIOUS
<1>1. TypeInv
  BY InitTypeInv
<1> QED
  BY <1>1 DEF Init, LoadInv, NoStaleLayers, OneLayerPerSlice, MapInv, LayerIds

\* A step that leaves the chains alone and at most re-applies settings.
LEMMA SettingsMap ==
    ASSUME LoadInv, UNCHANGED chains,
           \/ UNCHANGED layers
           \/ \E d \in Decks : layers' = SyncSettings(layers, d)
    PROVE  /\ NoStaleLayers' /\ OneLayerPerSlice' /\ MapInv'
           /\ LayerIds(layers') = LayerIds(layers)
<1>1. layers \subseteq Layer
  BY DEF LoadInv, TypeInv, TypeOK
<1>2. CASE UNCHANGED layers
  BY <1>2 DEF LoadInv, NoStaleLayers, OneLayerPerSlice, MapInv, CurrentChain,
              loadGeneration, LayerIds, Unsettled
<1>3. ASSUME NEW d \in Decks, layers' = SyncSettings(layers, d)
      PROVE  /\ NoStaleLayers' /\ OneLayerPerSlice' /\ MapInv'
             /\ LayerIds(layers') = LayerIds(layers)
  <2>1. LayerIds(layers') = LayerIds(layers)
    BY <1>1, <1>3, SyncType
  <2>2. \A l \in layers' : \E k \in layers :
           l.sliceId = k.sliceId /\ l.generation = k.generation
    BY <1>1, <1>3, SyncType
  <2>3. OneLayerPerSlice'
    BY <1>1, <1>3, SyncType DEF LoadInv, OneLayerPerSlice
  <2>4. NoStaleLayers'
    BY <2>2 DEF LoadInv, NoStaleLayers, loadGeneration
  <2>5. layers = {} => layers' = {}
    BY <2>2
  <2>6. MapInv'
    BY <2>1, <2>5 DEF LoadInv, MapInv, CurrentChain, loadGeneration, Unsettled
  <2> QED
    BY <2>1, <2>3, <2>4, <2>6
<1> QED
  BY <1>2, <1>3

\* A load that starts clears the map.
LEMMA StartMap ==
    ASSUME LoadInv, NEW c \in Chain, WellFormed(c), Unsettled(c) = c.slices,
           chains' = Append(chains, c), layers' = {}
    PROVE  /\ NoStaleLayers' /\ OneLayerPerSlice' /\ MapInv'
           /\ chains' # <<>> /\ CurrentChain' = c /\ LayerIds(layers') = {}
<1>1. chains \in Seq(Chain)
  BY DEF LoadInv, TypeInv, TypeOK
<1>2. chains' # <<>> /\ chains'[Len(chains')] = c
  BY <1>1, AppendChain
<1>3. CurrentChain' = c
  BY <1>2 DEF CurrentChain, loadGeneration
<1> QED
  BY <1>2, <1>3 DEF NoStaleLayers, OneLayerPerSlice, MapInv, LayerIds

\* A layer of a load that is superseded, or one that is not the last of its
\* batch, leaves the map and the latest chain's progress alone.
LEMMA QuietMap ==
    ASSUME LoadInv, NEW g \in DOMAIN chains, NEW s \in chains[g].pending,
           NEW ok \in BOOLEAN, LayerAnswer(g, s, ok),
           isStale(g) \/ LayerSettles(g, s, ok)
    PROVE  /\ NoStaleLayers' /\ OneLayerPerSlice' /\ MapInv'
           /\ layers' = layers
           /\ chains # <<>> /\ chains' # <<>>
           /\ CurrentChain'.slices = CurrentChain.slices
           /\ Unsettled(CurrentChain)' = Unsettled(CurrentChain)
<1>1. chains \in Seq(Chain) /\ chains # <<>> /\ Len(chains) \in DOMAIN chains
  BY DEF LoadInv, TypeInv, TypeOK
<1>2. /\ chains' # <<>> /\ Len(chains') = Len(chains) /\ layers' = layers
      /\ CurrentChain'.slices = CurrentChain.slices
      /\ CurrentChain'.phase = CurrentChain.phase
      /\ Unsettled(CurrentChain)' = Unsettled(CurrentChain)
  <2>1. CASE LayerSettles(g, s, ok)
    <3>1. PICK c \in Chain :
            /\ chains' = [chains EXCEPT ![g] = c]
            /\ c.slices = chains[g].slices
            /\ c.phase = chains[g].phase
            /\ Unsettled(c) = Unsettled(chains[g])
      BY <2>1, SettleType DEF LoadInv
    <3>2. Len(chains') = Len(chains) /\ layers' = layers
      BY <1>1, <2>1, <3>1, ReplaceChain DEF LayerSettles
    <3>3. chains'[Len(chains)] =
            IF g = Len(chains) THEN c ELSE chains[Len(chains)]
      BY <1>1, <3>1, ReplaceChain
    <3>4. chains' # <<>>
      BY <1>1, <3>2
    <3> QED
      BY <3>1, <3>2, <3>3, <3>4 DEF CurrentChain, loadGeneration, Unsettled
  <2>2. CASE isStale(g) /\ ~LayerSettles(g, s, ok)
    <3>1. PICK e \in Chain : chains' = [chains EXCEPT ![g] = e]
      BY <2>2, CompleteType DEF LoadInv, LayerAnswer
    <3>2. layers' = layers
      BY <2>2, CompleteType DEF LoadInv, LayerAnswer
    <3>3. Len(chains') = Len(chains) /\ chains'[Len(chains)] = chains[Len(chains)]
      BY <1>1, <2>2, <3>1, ReplaceChain DEF isStale, loadGeneration
    <3>4. chains' # <<>>
      BY <1>1, <3>1
    <3> QED
      BY <3>2, <3>3, <3>4 DEF CurrentChain, loadGeneration, Unsettled
  <2> QED
    BY <2>1, <2>2
<1>3. NoStaleLayers' /\ OneLayerPerSlice' /\ MapInv'
  BY <1>1, <1>2 DEF LoadInv, NoStaleLayers, OneLayerPerSlice, MapInv,
                    loadGeneration, LayerIds
<1> QED
  BY <1>1, <1>2, <1>3

\* Every step is one of four for the map.
StepKind ==
    \/ /\ UNCHANGED chains
       /\ \/ UNCHANGED layers
          \/ \E d \in Decks : layers' = SyncSettings(layers, d)
    \/ \E c \in Chain :
         /\ WellFormed(c)
         /\ c.slices # {} /\ Unsettled(c) = c.slices
         /\ chains' = Append(chains, c)
         /\ layers' = {}
    \/ \E g \in DOMAIN chains :
         \E s \in chains[g].pending, ok \in BOOLEAN :
           /\ LayerAnswer(g, s, ok)
           /\ isStale(g) \/ LayerSettles(g, s, ok)
    \/ \E g \in DOMAIN chains :
         \E s \in chains[g].pending, ok \in BOOLEAN :
           /\ ~isStale(g)
           /\ \/ AutozoomCompletes(g, s, ok)
              \/ EagerCompletes(g, s, ok)
              \/ LazyBatchCompletes(g, s, ok)

LEMMA NextStepKind ==
    ASSUME TypeInv, [Next]_vars
    PROVE  StepKind
<1>1. CASE ChangeDeck
  <2>1. PICK raw \in RawDecks :
          /\ ParentRender(normalizeDeckSlices(raw))
          /\ layers' = SyncSettings(layers, normalizeDeckSlices(raw))
    BY <1>1 DEF ChangeDeck
  <2>2. normalizeDeckSlices(raw) \in Decks
    BY DEF Decks
  <2> QED
    BY <2>1, <2>2 DEF ParentRender, StepKind
<1>2. CASE ChangeOther \/ ToggleStaticViewport
  BY <1>2 DEF ChangeOther, ToggleStaticViewport, ParentRender, StepKind
<1>3. CASE \E s \in Slice : EditChart(s)
  BY <1>3 DEF EditChart, StepKind
<1>4. ASSUME NEW r \in requests, MetadataArrives(r) PROVE StepKind
  BY <1>4, MetadataType DEF StepKind
<1>5. ASSUME NEW g \in DOMAIN chains, NEW s \in chains[g].pending,
             NEW ok \in BOOLEAN, LayerAnswer(g, s, ok)
      PROVE  StepKind
  BY <1>5 DEF LayerAnswer, StepKind
<1>6. CASE UNCHANGED vars
  BY <1>6 DEF vars, StepKind
<1> QED
  BY <1>1, <1>2, <1>3, <1>4, <1>5, <1>6 DEF Next, Answer

LEMMA NextLoadInv == LoadInv /\ [Next]_vars => LoadInv'
<1> SUFFICES ASSUME LoadInv, [Next]_vars PROVE LoadInv'
  OBVIOUS
<1>1. TypeInv'
  BY NextTypeInv DEF LoadInv
<1>2. StepKind
  BY NextStepKind DEF LoadInv
<1>3. NoStaleLayers' /\ OneLayerPerSlice' /\ MapInv'
  BY <1>2, SettingsMap, StartMap, QuietMap, CompleteMap DEF StepKind
<1> QED
  BY <1>1, <1>3 DEF LoadInv

LEMMA LoadInvariant == Spec => []LoadInv
BY InitLoadInv, NextLoadInv, PTL DEF Spec

\* No answer of a superseded load is ever on the map.
THEOREM NeverShowsStaleLayers == Spec => []NoStaleLayers
<1>1. LoadInv => NoStaleLayers
  BY DEF LoadInv
<1> QED
  BY <1>1, LoadInvariant, PTL

\* No chart is ever on the map twice.
THEOREM NeverShowsLayerTwice == Spec => []OneLayerPerSlice
<1>1. LoadInv => OneLayerPerSlice
  BY DEF LoadInv
<1> QED
  BY <1>1, LoadInvariant, PTL

-----------------------------------------------------------------------------
(* A superseded load starts nothing.                                       *)

\* Whatever happens, a chain that is not the latest asks for no new layer.
THEOREM StaleChainsDrain == Spec => StaleChainStartsNothing
<1> DEFINE Drains == \A g \in DOMAIN chains :
             g < loadGeneration => chains'[g].pending \subseteq chains[g].pending
<1>1. ASSUME LoadInv, [Next]_vars PROVE [Drains]_vars
  <2>1. chains \in Seq(Chain) /\ TypeInv
    BY <1>1 DEF LoadInv, TypeInv, TypeOK
  <2>2. StepKind
    BY <1>1, <2>1, NextStepKind
  <2>3. CASE UNCHANGED chains
    BY <2>3
  <2>4. ASSUME NEW c \in Chain, chains' = Append(chains, c) PROVE Drains
    BY <2>1, <2>4, AppendChain
  <2>5. ASSUME NEW h \in DOMAIN chains, NEW s \in chains[h].pending,
               NEW ok \in BOOLEAN, LayerSettles(h, s, ok)
        PROVE  Drains
    <3>1. PICK c \in Chain : /\ chains' = [chains EXCEPT ![h] = c]
                             /\ c.pending \subseteq chains[h].pending
      BY <2>1, <2>5, SettleType
    <3> QED
      BY <2>1, <3>1, ReplaceChain
  <2>6. ASSUME NEW h \in DOMAIN chains, NEW s \in chains[h].pending,
               NEW ok \in BOOLEAN,
               \/ AutozoomCompletes(h, s, ok)
               \/ EagerCompletes(h, s, ok)
               \/ LazyBatchCompletes(h, s, ok)
        PROVE  Drains
    <3>1. PICK e \in Chain : /\ chains' = [chains EXCEPT ![h] = e]
                             /\ isStale(h) => e = Abandon(chains[h])
      BY <2>1, <2>6, CompleteType
    <3>2. Abandon(chains[h]).pending = {}
      <4>1. chains[h] \in Chain
        BY <2>1
      <4> QED
        BY <4>1 DEF Abandon, InFlight, Chain
    <3>3. isStale(h) => e.pending \subseteq chains[h].pending
      BY <3>1, <3>2
    <3>4. \A g \in DOMAIN chains : g < loadGeneration =>
             chains'[g] = chains[g] \/ (g = h /\ chains'[g] = e /\ isStale(h))
      BY <2>1, <3>1, ReplaceChain DEF isStale, loadGeneration
    <3> QED
      BY <3>3, <3>4
  <2> QED
    BY <2>2, <2>3, <2>4, <2>5, <2>6 DEF StepKind, LayerAnswer
<1> QED
  BY <1>1, LoadInvariant, PTL DEF Spec, StaleChainStartsNothing

\* Between two loads no layer leaves the map: settings are changed in place,
\* and the phases after the first one extend the list.
THEOREM LayersAccumulate == Spec => LayersOnlyGrow
<1> DEFINE Grows == chains # <<>> /\ Len(chains') = loadGeneration
                      => LayerIds(layers) \subseteq LayerIds(layers')
<1>1. ASSUME LoadInv, [Next]_vars PROVE [Grows]_vars
  <2>1. chains \in Seq(Chain)
    BY <1>1 DEF LoadInv, TypeInv, TypeOK
  <2>2. StepKind
    BY <1>1, NextStepKind DEF LoadInv
  <2>3. ASSUME UNCHANGED chains,
               \/ UNCHANGED layers
               \/ \E d \in Decks : layers' = SyncSettings(layers, d)
        PROVE  Grows
    BY <1>1, <2>3, SettingsMap
  <2>4. ASSUME NEW c \in Chain, chains' = Append(chains, c) PROVE Grows
    <3>1. Len(chains') = Len(chains) + 1 /\ Len(chains) \in Nat
      BY <2>1, <2>4
    <3> QED
      BY <3>1 DEF loadGeneration
  <2>5. ASSUME NEW g \in DOMAIN chains, NEW s \in chains[g].pending,
               NEW ok \in BOOLEAN, LayerAnswer(g, s, ok),
               isStale(g) \/ LayerSettles(g, s, ok)
        PROVE  Grows
    BY <1>1, <2>5, QuietMap
  <2>6. ASSUME NEW g \in DOMAIN chains, NEW s \in chains[g].pending,
               NEW ok \in BOOLEAN, ~isStale(g),
               \/ AutozoomCompletes(g, s, ok)
               \/ EagerCompletes(g, s, ok)
               \/ LazyBatchCompletes(g, s, ok)
        PROVE  Grows
    BY <1>1, <2>6, CompleteMap
  <2> QED
    BY <2>2, <2>3, <2>4, <2>5, <2>6 DEF StepKind
<1> QED
  BY <1>1, LoadInvariant, PTL DEF Spec, LayersOnlyGrow

-----------------------------------------------------------------------------
(* Loading implements LayerReveal.                                         *)

LEMMA InitRefines == Init => Reveal!Init
BY DEF Init, Reveal!Init, target, shown, failed, LayerIds

LEMMA NextRefines ==
    ASSUME LoadInv, [Next]_vars
    PROVE  [Reveal!Next]_(Reveal!vars)
<1>1. StepKind
  BY NextStepKind DEF LoadInv
<1>2. ASSUME UNCHANGED chains,
             \/ UNCHANGED layers
             \/ \E d \in Decks : layers' = SyncSettings(layers, d)
      PROVE  UNCHANGED Reveal!vars
  <2>1. LayerIds(layers') = LayerIds(layers)
    BY <1>2, SettingsMap
  <2> QED
    BY <1>2, <2>1 DEF Reveal!vars, target, shown, failed, CurrentChain,
                      loadGeneration, Unsettled, LayerIds
<1>3. ASSUME NEW c \in Chain, WellFormed(c), c.slices # {},
             Unsettled(c) = c.slices, chains' = Append(chains, c), layers' = {}
      PROVE  Reveal!Request
  <2>1. chains' # <<>> /\ CurrentChain' = c /\ LayerIds(layers') = {}
    BY <1>3, StartMap
  <2>2. target' = c.slices /\ shown' = {}
    BY <2>1 DEF target, shown, LayerIds
  <2>3. failed' = {}
    <3>1. failed' = c.slices \ (Unsettled(c) \cup shown')
      BY <2>1 DEF failed, Unsettled
    <3> QED
      BY <1>3, <3>1
  <2>4. c.slices \subseteq Slice
    BY DEF Chain
  <2> QED
    BY <1>3, <2>2, <2>3, <2>4 DEF Reveal!Request
<1>4. ASSUME NEW g \in DOMAIN chains, NEW s \in chains[g].pending,
             NEW ok \in BOOLEAN, LayerAnswer(g, s, ok),
             isStale(g) \/ LayerSettles(g, s, ok)
      PROVE  UNCHANGED Reveal!vars
  <2>1. /\ layers' = layers
        /\ chains # <<>> /\ chains' # <<>>
        /\ CurrentChain'.slices = CurrentChain.slices
        /\ Unsettled(CurrentChain)' = Unsettled(CurrentChain)
    BY <1>4, QuietMap
  <2> QED
    BY <2>1 DEF Reveal!vars, target, shown, failed, LayerIds
<1>5. ASSUME NEW g \in DOMAIN chains, NEW s \in chains[g].pending,
             NEW ok \in BOOLEAN, ~isStale(g),
             \/ AutozoomCompletes(g, s, ok)
             \/ EagerCompletes(g, s, ok)
             \/ LazyBatchCompletes(g, s, ok)
      PROVE  Reveal!Reveal
  <2> DEFINE c == CurrentChain
             L == Loaded(g, s, ok)
  <2>1. /\ chains \in Seq(Chain) /\ g = Len(chains) /\ c = chains[g]
        /\ chains # <<>> /\ c \in Chain /\ WellFormed(c)
    BY <1>5 DEF LoadInv, TypeInv, TypeOK, ChainsWellFormed, isStale,
                loadGeneration, CurrentChain
  <2>2. /\ LayerIds(layers') = LayerIds(layers) \cup L
        /\ CurrentChain'.slices = c.slices
        /\ Unsettled(CurrentChain)' = c.eager \cup c.lazy
    BY <1>5, CompleteMap
  <2>3. Len(chains') = Len(chains) /\ chains' \in Seq(Chain)
    BY <1>5, CompleteType DEF LoadInv
  <2>4. chains' # <<>>
    BY <2>1, <2>3
  <2>5. L \subseteq c.batch /\ s \in c.batch
    <3>1. L \subseteq chains[g].batch
      BY <1>5, CompleteType DEF LoadInv
    <3> QED
      BY <2>1, <3>1 DEF WellFormed
  <2>6. LayerIds(layers) \subseteq c.slices \ Unsettled(c)
    BY <2>1 DEF LoadInv, MapInv
  <2>7. /\ target = c.slices /\ target' = c.slices
        /\ shown = LayerIds(layers) /\ shown' = shown \cup L
        /\ failed = c.slices \ (Unsettled(c) \cup shown)
        /\ failed' = c.slices \ ((c.eager \cup c.lazy) \cup shown')
    BY <2>1, <2>2, <2>4 DEF target, shown, failed, LayerIds
  <2> HIDE DEF c, L
  <2>8. c.batch \subseteq Reveal!Unsettled
    BY <2>1, <2>6, <2>7 DEF Reveal!Unsettled, Unsettled, WellFormed
  <2>9. failed' = failed \cup (c.batch \ L)
    BY <2>1, <2>5, <2>6, <2>7 DEF Unsettled, WellFormed
  <2>10. c.batch \in (SUBSET Reveal!Unsettled) \ {{}} /\ L \in SUBSET Reveal!Unsettled
    BY <2>5, <2>8
  <2> QED
    BY <2>5, <2>7, <2>9, <2>10 DEF Reveal!Reveal
<1> QED
  BY <1>1, <1>2, <1>3, <1>4, <1>5 DEF StepKind, Reveal!Next

\* Seen as "slices requested, shown and failed", loading is a behaviour of
\* LayerReveal: each requested slice is shown at most once, nothing else is,
\* and nothing leaves the map before the next request.
THEOREM LoadingRefinesReveal == Spec => RevealSafety
<1>1. Init => Reveal!Init
  BY InitRefines
<1>2. LoadInv /\ [Next]_vars => [Reveal!Next]_(Reveal!vars)
  BY NextRefines
<1> QED
  BY <1>1, <1>2, LoadInvariant, PTL DEF Spec, RevealSafety, Reveal!Safety
=============================================================================
