------------------------- MODULE LayerPhasesProofs --------------------------
(***************************************************************************)
(* Proofs about the phases of LayerLoading, for every set of charts, every *)
(* set of decks, every batch size and every bound: lazy layers load last   *)
(* and in small batches, no load is left hanging, and the viewport is      *)
(* fitted once, to all the autozoom layers of a load, without a jump.      *)
(***************************************************************************)
EXTENDS LayerLoadingProofs, FiniteSetTheorems, FunctionTheorems

LazyOnes(c) == {s \in c.slices : Lazy(c.deck, s)}

\* What a chain has in flight and has not started, in each phase.
Phased(c) ==
    /\ c.eager \cap LazyOnes(c) = {}
    /\ c.lazy \subseteq LazyOnes(c)
    /\ c.phase # "autozoom" => c.eager = {}
    /\ c.phase \in {"autozoom", "eager"} => c.batch \cap LazyOnes(c) = {}
    /\ c.phase \in {"lazy", "done"} => c.batch \subseteq LazyOnes(c)

ChainsPhased == \A g \in DOMAIN chains : Phased(chains[g])

\* A load shows no lazy layer before its third phase.
LazyNotYet ==
    \A g \in DOMAIN chains : \A l \in layers :
        l.generation = g /\ chains[g].phase \in {"autozoom", "eager"}
          => l.sliceId \notin LazyOnes(chains[g])

PhaseInv == TypeInv /\ ChainsPhased /\ LazyNotYet

-----------------------------------------------------------------------------
(* Chains.                                                                 *)

\* e is c in a later phase.
Advances(c, e) ==
    /\ Phased(e) /\ LazyOnes(e) = LazyOnes(c)
    /\ e.phase # "autozoom"
    /\ e.phase = "eager" => c.phase = "autozoom"

LEMMA EnterLazyPhased ==
    ASSUME NEW c \in Chain, Phased(c), c.eager = {}
    PROVE  Advances(c, EnterLazy(c)) /\ EnterLazy(c).phase # "eager"
<1>1. NextBatch(c) \subseteq c.lazy
  BY DEF NextBatch
<1>2. CASE c.lazy = {}
  BY <1>2 DEF EnterLazy, InFlight, Chain, Phased, LazyOnes, Advances
<1>3. CASE c.lazy # {}
  <2> DEFINE B == NextBatch(c)
             e == [c EXCEPT !.phase = "lazy", !.batch = B, !.pending = B,
                            !.loaded = {}, !.lazy = c.lazy \ B]
  <2>1. EnterLazy(c) = e
    BY <1>3 DEF EnterLazy, InFlight, Chain
  <2> HIDE DEF B
  <2>2. B \subseteq c.lazy
    BY <1>1 DEF B
  <2>3. LazyOnes(e) = LazyOnes(c) /\ e.phase = "lazy" /\ e.eager = {}
        /\ e.batch = B /\ e.lazy \subseteq c.lazy
    BY DEF Chain, LazyOnes
  <2> QED
    BY <2>1, <2>2, <2>3 DEF Phased, Advances
<1> QED
  BY <1>2, <1>3

LEMMA EnterEagerPhased ==
    ASSUME NEW c \in Chain, Phased(c), c.phase = "autozoom"
    PROVE  Advances(c, EnterEager(c))
<1>1. CASE c.eager = {}
  BY <1>1, EnterLazyPhased DEF EnterEager
<1>2. CASE c.eager # {}
  <2> DEFINE e == [c EXCEPT !.phase = "eager", !.batch = c.eager,
                            !.pending = c.eager, !.loaded = {}, !.eager = {}]
  <2>1. EnterEager(c) = e
    BY <1>2 DEF EnterEager, InFlight, Chain
  <2>2. LazyOnes(e) = LazyOnes(c) /\ e.phase = "eager" /\ e.eager = {}
        /\ e.batch = c.eager /\ e.lazy = c.lazy
    BY DEF Chain, LazyOnes
  <2> QED
    BY <2>1, <2>2 DEF Phased, Advances
<1> QED
  BY <1>1, <1>2

LEMMA AbandonPhased ==
    ASSUME NEW c \in Chain
    PROVE  Advances(c, Abandon(c)) /\ Abandon(c).phase = "done"
<1>1. /\ Abandon(c).phase = "done" /\ Abandon(c).batch = {}
      /\ Abandon(c).eager = {} /\ Abandon(c).lazy = {}
      /\ Abandon(c).slices = c.slices /\ Abandon(c).deck = c.deck
  BY DEF Abandon, InFlight, Chain
<1> QED
  BY <1>1 DEF Phased, LazyOnes, Advances

LEMMA StartChainPhased ==
    ASSUME NEW d \in Decks, NEW data \in SlicesData
    PROVE  Phased(StartChain(data, d))
<1> DEFINE S == DOMAIN data.meta
           auto == {s \in S : Autozoom(d, s)}
           c == [order |-> data.order, deck |-> d, slices |-> S,
                 phase |-> "autozoom", batch |-> auto, pending |-> auto,
                 loaded |-> {},
                 eager |-> {s \in S : ~Lazy(d, s) /\ ~Autozoom(d, s)},
                 lazy |-> {s \in S : Lazy(d, s)}]
<1>1. data.order \in Seq(Slice) /\ data.meta \in Metadata
  BY DEF SlicesData
<1>2. S \subseteq Slice
  BY <1>1 DEF Metadata
<1>3. c \in Chain /\ c.phase = "autozoom"
  BY <1>1, <1>2 DEF Chain, Phases
<1>4. \A s \in S : Autozoom(d, s) => ~Lazy(d, s)
  BY DEF Autozoom, Lazy, resolveLayerAutozoom
<1>5. Phased(c)
  BY <1>4 DEF Phased, LazyOnes
<1>6. StartChain(data, d) = IF auto = {} THEN EnterEager(c) ELSE c
  BY DEF StartChain
<1> HIDE DEF c
<1> QED
  BY <1>3, <1>5, <1>6, EnterEagerPhased DEF Advances

-----------------------------------------------------------------------------
(* Steps.                                                                  *)

LEMMA SettlesPhased ==
    ASSUME PhaseInv, NEW g \in DOMAIN chains, NEW s \in chains[g].pending,
           NEW ok \in BOOLEAN, LayerSettles(g, s, ok)
    PROVE  ChainsPhased' /\ LazyNotYet'
<1> DEFINE c == [chains[g] EXCEPT !.pending = @ \ {s},
                                  !.loaded = IF ok THEN @ \cup {s} ELSE @]
<1>1. chains \in Seq(Chain) /\ chains[g] \in Chain /\ Phased(chains[g])
  BY DEF PhaseInv, TypeInv, TypeOK, ChainsPhased
<1>2. s \in Slice
  BY <1>1 DEF Chain
<1>3. c \in Chain
  BY <1>1, <1>2 DEF Chain
<1>4. /\ c.slices = chains[g].slices /\ c.deck = chains[g].deck
      /\ c.phase = chains[g].phase /\ c.batch = chains[g].batch
      /\ c.eager = chains[g].eager /\ c.lazy = chains[g].lazy
  BY <1>1 DEF Chain
<1>5. Phased(c) /\ LazyOnes(c) = LazyOnes(chains[g])
  BY <1>1, <1>4 DEF Phased, LazyOnes
<1>6. chains' = [chains EXCEPT ![g] = c] /\ layers' = layers
  BY DEF LayerSettles
<1> HIDE DEF c
<1>7. /\ DOMAIN chains' = DOMAIN chains
      /\ \A h \in DOMAIN chains : chains'[h] = IF h = g THEN c ELSE chains[h]
  BY <1>1, <1>3, <1>6, ReplaceChain
<1> QED
  BY <1>4, <1>5, <1>6, <1>7 DEF PhaseInv, ChainsPhased, LazyNotYet

LEMMA CompletesPhased ==
    ASSUME PhaseInv, NEW g \in DOMAIN chains, NEW s \in chains[g].pending,
           NEW ok \in BOOLEAN,
           \/ AutozoomCompletes(g, s, ok)
           \/ EagerCompletes(g, s, ok)
           \/ LazyBatchCompletes(g, s, ok)
    PROVE  ChainsPhased' /\ LazyNotYet'
<1> DEFINE c == chains[g]
           E == Entries(c, Loaded(g, s, ok), g)
<1>1. chains \in Seq(Chain) /\ c \in Chain /\ Phased(c) /\ g \in Nat
  BY DEF PhaseInv, TypeInv, TypeOK, ChainsPhased
<1>2. PICK e : /\ Advances(c, e)
               /\ chains' = [chains EXCEPT ![g] = e]
               /\ isStale(g) => e.phase = "done"
  <2>1. CASE isStale(g)
    <3>1. chains' = [chains EXCEPT ![g] = Abandon(c)]
      BY <2>1 DEF AutozoomCompletes, EagerCompletes, LazyBatchCompletes, Continue
    <3> QED
      BY <1>1, <3>1, AbandonPhased
  <2>2. CASE ~isStale(g) /\ AutozoomCompletes(g, s, ok)
    <3>1. chains' = [chains EXCEPT ![g] = EnterEager(c)] /\ c.phase = "autozoom"
      BY <2>2 DEF AutozoomCompletes, Continue
    <3> QED
      BY <1>1, <2>2, <3>1, EnterEagerPhased
  <2>3. CASE ~isStale(g) /\ ~AutozoomCompletes(g, s, ok)
    <3>1. chains' = [chains EXCEPT ![g] = EnterLazy(c)] /\ c.phase # "autozoom"
      BY <2>3 DEF EagerCompletes, LazyBatchCompletes, Continue
    <3>2. c.eager = {}
      BY <1>1, <3>1 DEF Phased
    <3> QED
      BY <1>1, <2>3, <3>1, <3>2, EnterLazyPhased
  <2> QED
    BY <2>1, <2>2, <2>3
<1>3. /\ DOMAIN chains' = DOMAIN chains
      /\ chains'[g] = e
      /\ \A h \in DOMAIN chains : h # g => chains'[h] = chains[h]
  BY <1>1, <1>2
<1>4. Loaded(g, s, ok) \subseteq c.batch /\ Loaded(g, s, ok) \subseteq Slice
  <2>1. Loaded(g, s, ok) \subseteq c.batch
    BY CompleteType DEF PhaseInv
  <2> QED
    BY <1>1, <2>1 DEF Chain
<1>5. LayerIds(E) = Loaded(g, s, ok) /\ \A l \in E : l.generation = g
  BY <1>1, <1>4, EntriesType
<1>6. layers' \subseteq layers \cup E /\ (isStale(g) => layers' = layers)
  BY CompleteType DEF PhaseInv
<1>7. c.phase = "autozoom" /\ ~isStale(g) => layers' = E
  <2>1. ~isStale(g) => layers' = (IF c.phase = "autozoom" THEN {} ELSE layers) \cup E
    BY CompleteType DEF PhaseInv
  <2> QED
    BY <2>1
<1> HIDE DEF E
<1>8. ASSUME NEW h \in DOMAIN chains, NEW l \in layers', l.generation = h,
             chains'[h].phase \in {"autozoom", "eager"}
      PROVE  l.sliceId \notin LazyOnes(chains'[h])
  <2>1. CASE h = g
    <3>1. e.phase = "eager" /\ c.phase = "autozoom" /\ ~isStale(g)
      BY <1>2, <1>3, <1>8, <2>1 DEF Advances
    <3>2. l.sliceId \in c.batch
      BY <1>4, <1>5, <1>7, <3>1 DEF LayerIds
    <3>3. c.batch \cap LazyOnes(c) = {}
      BY <1>1, <3>1 DEF Phased
    <3> QED
      BY <1>2, <1>3, <2>1, <3>2, <3>3 DEF Advances
  <2>2. CASE h # g
    <3>1. l \in layers
      BY <1>5, <1>6, <1>8, <2>2
    <3> QED
      BY <1>3, <1>8, <2>2, <3>1 DEF PhaseInv, LazyNotYet
  <2> QED
    BY <2>1, <2>2
<1>9. LazyNotYet'
  BY <1>3, <1>8 DEF LazyNotYet
<1>10. ChainsPhased'
  BY <1>2, <1>3 DEF PhaseInv, ChainsPhased, Advances
<1> QED
  BY <1>9, <1>10

LEMMA SettingsPhased ==
    ASSUME PhaseInv, UNCHANGED chains,
           \/ UNCHANGED layers
           \/ \E d \in Decks : layers' = SyncSettings(layers, d)
    PROVE  ChainsPhased' /\ LazyNotYet'
<1>1. layers \subseteq Layer
  BY DEF PhaseInv, TypeInv, TypeOK
<1>2. \A l \in layers' : \E k \in layers :
         l.sliceId = k.sliceId /\ l.generation = k.generation
  BY <1>1, SyncType
<1> QED
  BY <1>2 DEF PhaseInv, ChainsPhased, LazyNotYet

LEMMA MetadataPhased ==
    ASSUME PhaseInv, NEW r \in requests, MetadataArrives(r)
    PROVE  ChainsPhased' /\ LazyNotYet'
<1>0. PICK ok \in SUBSET Ids(r.deck) :
        \E meta \in MetadataOf(r, ok) :
          LET data == [fetched |-> TRUE, order |-> Order(r.deck), meta |-> meta]
          IN loadLayers(data) \/ UNCHANGED <<chains, layers>>
  BY DEF MetadataArrives
<1>1. PICK meta \in MetadataOf(r, ok) :
        LET data == [fetched |-> TRUE, order |-> Order(r.deck), meta |-> meta]
        IN loadLayers(data) \/ UNCHANGED <<chains, layers>>
  BY <1>0
<1> DEFINE data == [fetched |-> TRUE, order |-> Order(r.deck), meta |-> meta]
<1>2. data \in SlicesData
  BY DataType DEF PhaseInv, TypeInv
<1>3. deck \in Decks /\ chains \in Seq(Chain)
  BY DEF PhaseInv, TypeInv, TypeOK
<1>4. loadLayers(data) \/ UNCHANGED <<chains, layers>>
  BY <1>1
<1> HIDE DEF data
<1>5. CASE loadLayers(data)
  <2>1. chains' = Append(chains, StartChain(data, deck)) /\ layers' = {}
    BY <1>5 DEF loadLayers
  <2>2. Phased(StartChain(data, deck)) /\ StartChain(data, deck) \in Chain
    BY <1>2, <1>3, StartChainPhased, StartChainStep
  <2>3. ChainsPhased'
    BY <1>3, <2>1, <2>2, AppendChain DEF PhaseInv, ChainsPhased
  <2> QED
    BY <2>1, <2>3 DEF LazyNotYet
<1>6. CASE UNCHANGED <<chains, layers>>
  BY <1>6, SettingsPhased
<1> QED
  BY <1>4, <1>5, <1>6

LEMMA InitPhaseInv == Init => PhaseInv
<1> SUFFICES ASSUME Init PROVE ChainsPhased /\ LazyNotYet
  BY InitTypeInv DEF PhaseInv
<1> QED
  BY DEF Init, ChainsPhased, LazyNotYet

LEMMA NextPhaseInv == PhaseInv /\ [Next]_vars => PhaseInv'
<1> SUFFICES ASSUME PhaseInv, [Next]_vars PROVE ChainsPhased' /\ LazyNotYet'
  BY NextTypeInv DEF PhaseInv
<1>1. CASE ChangeDeck
  <2>1. PICK raw \in RawDecks :
          /\ ParentRender(normalizeDeckSlices(raw))
          /\ layers' = SyncSettings(layers, normalizeDeckSlices(raw))
    BY <1>1 DEF ChangeDeck
  <2>2. normalizeDeckSlices(raw) \in Decks
    BY DEF Decks
  <2> QED
    BY <2>1, <2>2, SettingsPhased DEF ParentRender
<1>2. CASE ChangeOther \/ ToggleStaticViewport
  BY <1>2, SettingsPhased DEF ChangeOther, ToggleStaticViewport, ParentRender
<1>3. CASE \E s \in Slice : EditChart(s)
  BY <1>3, SettingsPhased DEF EditChart
<1>4. CASE Answer
  BY <1>4, MetadataPhased, SettlesPhased, CompletesPhased DEF Answer, LayerAnswer
<1>5. CASE UNCHANGED vars
  BY <1>5, SettingsPhased DEF vars
<1> QED
  BY <1>1, <1>2, <1>3, <1>4, <1>5 DEF Next

-----------------------------------------------------------------------------
(* The theorem.                                                            *)

\* Once a lazy layer is on its way or on the map, every other layer of that
\* load has settled: the three phases of loadLayersOrchestrated, for any deck.
THEOREM LazyLayersLoadLast == Spec => []LazyLast
<1>1. PhaseInv => LazyLast
  <2> SUFFICES ASSUME PhaseInv, NEW g \in DOMAIN chains,
                      \/ chains[g].pending \cap LazyOnes(chains[g]) # {}
                      \/ \E l \in layers : /\ l.generation = g
                                           /\ l.sliceId \in LazyOnes(chains[g])
               PROVE  /\ chains[g].eager = {}
                      /\ chains[g].pending \subseteq LazyOnes(chains[g])
    BY DEF LazyLast, LazyOnes
  <2>1. chains[g] \in Chain /\ WellFormed(chains[g]) /\ Phased(chains[g])
    BY DEF PhaseInv, TypeInv, TypeOK, ChainsWellFormed, ChainsPhased
  <2>2. chains[g].phase \in {"lazy", "done"}
    BY <2>1 DEF PhaseInv, LazyNotYet, Phased, WellFormed, Chain, Phases
  <2> QED
    BY <2>1, <2>2 DEF Phased, WellFormed
<1> QED
  BY <1>1, InitPhaseInv, NextPhaseInv, PTL DEF Spec
-----------------------------------------------------------------------------
(* Slices in the order of the deck.                                        *)

\* order lists every member of L, and nothing twice.
Lists(order, L) ==
    /\ order \in Seq(Slice)
    /\ \A i, j \in DOMAIN order : order[i] = order[j] => i = j
    /\ \A s \in L : \E i \in DOMAIN order : order[i] = s

\* The members of L that are loaded before s.
Before(order, L, s) == {t \in L : Precedes(order, t, s)}

LEMMA PrecedesOrders ==
    ASSUME NEW order, NEW L, Lists(order, L)
    PROVE  \A s, t \in L :
             /\ ~Precedes(order, s, s)
             /\ s # t => Precedes(order, s, t) \/ Precedes(order, t, s)
             /\ \A u \in L : Precedes(order, u, s) /\ Precedes(order, s, t)
                               => Precedes(order, u, t)
<1>1. DOMAIN order \subseteq Nat
  BY DEF Lists
<1> QED
  BY <1>1 DEF Lists, Precedes

LEMMA ListedFinite ==
    ASSUME NEW order, NEW L, Lists(order, L)
    PROVE  IsFiniteSet(L)
<1> DEFINE at == [s \in L |-> CHOOSE i \in DOMAIN order : order[i] = s]
<1>1. DOMAIN order = 1..Len(order) /\ Len(order) \in Nat
  BY DEF Lists
<1>2. \A s \in L : at[s] \in DOMAIN order /\ order[at[s]] = s
  BY DEF Lists
<1>3. at \in [L -> DOMAIN order]
  BY <1>2
<1>4. \A s, t \in L : at[s] = at[t] => s = t
  BY <1>2
<1> HIDE DEF at
<1>5. at \in Injection(L, 1..Len(order))
  BY <1>1, <1>3, <1>4, Fun_IsInj
<1> QED
  BY <1>1, <1>5, FS_Interval, FS_Injection

\* Something is loaded first.
LEMMA SomethingIsFirst ==
    ASSUME NEW order, NEW L, Lists(order, L), L # {}
    PROVE  \E s \in L : Before(order, L, s) = {}
<1> DEFINE I == {i \in DOMAIN order : order[i] \in L}
<1>1. I \subseteq Nat /\ I # {}
  BY DEF Lists
<1>2. PICK i \in I : \A j \in I : ~(<<j, i>> \in OpToRel(<, Nat))
  BY <1>1, NatLessThanWellFounded, WFMin
<1>3. \A j \in I : ~(j < i)
  BY <1>1, <1>2 DEF OpToRel
<1>4. Before(order, L, order[i]) = {}
  BY <1>3 DEF Lists, Before, Precedes
<1> QED
  BY <1>4

LEMMA RanksDiffer ==
    ASSUME NEW order, NEW L, Lists(order, L)
    PROVE  \A s, t \in L :
             /\ Cardinality(Before(order, L, s)) \in Nat
             /\ Cardinality(Before(order, L, s)) = Cardinality(Before(order, L, t))
                  => s = t
<1> DEFINE B(s) == Before(order, L, s)
<1>1. \A s \in L : B(s) \in SUBSET L
  BY DEF Before
<1>2. IsFiniteSet(L)
  BY ListedFinite
<1>3. \A s \in L : IsFiniteSet(B(s)) /\ Cardinality(B(s)) \in Nat
  BY <1>1, <1>2, FS_Subset, FS_CardinalityType
<1>4. ASSUME NEW s \in L, NEW t \in L, Precedes(order, s, t)
      PROVE  Cardinality(B(s)) # Cardinality(B(t))
  <2>1. B(s) \in SUBSET B(t) /\ s \in B(t) /\ s \notin B(s)
    BY <1>4, PrecedesOrders DEF Before
  <2> HIDE DEF B
  <2> QED
    BY <1>3, <2>1, FS_Subset
<1> HIDE DEF B
<1>5. ASSUME NEW s \in L, NEW t \in L, Cardinality(B(s)) = Cardinality(B(t))
      PROVE  s = t
  BY <1>4, <1>5, PrecedesOrders
<1> QED
  BY <1>3, <1>5 DEF B

\* No more than n are among the first n.
LEMMA FirstFew ==
    ASSUME NEW order, NEW L, Lists(order, L), NEW n \in Nat \ {0}
    PROVE  LET F == {s \in L : Cardinality(Before(order, L, s)) < n}
           IN  IsFiniteSet(F) /\ Cardinality(F) <= n
<1> DEFINE F == {s \in L : Cardinality(Before(order, L, s)) < n}
           rank == [s \in F |-> Cardinality(Before(order, L, s))]
<1>1. rank \in [F -> 0..(n - 1)]
  BY RanksDiffer
<1>2. \A s, t \in F : rank[s] = rank[t] => s = t
  BY RanksDiffer
<1> HIDE DEF rank, F
<1>3. rank \in Injection(F, 0..(n - 1))
  BY <1>1, <1>2, Fun_IsInj
<1>4. IsFiniteSet(0..(n - 1)) /\ Cardinality(0..(n - 1)) = n
  BY FS_Interval
<1>5. IsFiniteSet(F) /\ Cardinality(F) <= n
  BY <1>3, <1>4, FS_Injection
<1> QED
  BY <1>5 DEF F

\* The order of a fetch lists the charts of its deck, each once.
LEMMA DeckLists ==
    ASSUME NEW d \in Decks, NEW S \in SUBSET Ids(d)
    PROVE  Lists(Order(d), S)
<1>1. PICK raw \in RawDecks : d = normalizeDeckSlices(raw)
  BY DEF Decks
<1>2. DOMAIN d = DOMAIN raw /\ \A i \in DOMAIN d : d[i].sliceId = raw[i].sliceId
  BY <1>1 DEF normalizeDeckSlices
<1>3. \A i, j \in DOMAIN d : d[i].sliceId = d[j].sliceId => i = j
  BY <1>2, DeckAssumption
<1>4. Order(d) \in Seq(Slice)
  BY OrderType
<1> QED
  BY <1>3, <1>4 DEF Lists, Order, Ids

-----------------------------------------------------------------------------
(* Lazy layers come in small batches, and no load is left hanging.         *)

Outstanding(c) == c.pending \cup c.eager \cup c.lazy

\* A chain in each phase: what it waits for, and how much of it.
Batched(c) ==
    /\ Lists(c.order, c.slices)
    /\ c.phase = "lazy" =>
         IsFiniteSet(c.batch) /\ Cardinality(c.batch) <= LAZY_BATCH_SIZE
    /\ c.phase # "done" => c.pending # {}
    /\ c.phase = "done" => c.batch = {} /\ c.eager = {} /\ c.lazy = {}

ChainsBatched == \A g \in DOMAIN chains : Batched(chains[g])

BatchInv == PhaseInv /\ ChainsBatched

LEMMA ListsSubset ==
    ASSUME NEW order, NEW L, Lists(order, L), NEW M \in SUBSET L
    PROVE  Lists(order, M)
BY DEF Lists

\* The next batch is neither empty nor larger than it may be.
LEMMA NextBatchSize ==
    ASSUME NEW c, Lists(c.order, c.lazy), c.lazy # {}
    PROVE  /\ NextBatch(c) # {}
           /\ IsFiniteSet(NextBatch(c))
           /\ Cardinality(NextBatch(c)) <= LAZY_BATCH_SIZE
<1>1. NextBatch(c) =
        {s \in c.lazy : Cardinality(Before(c.order, c.lazy, s)) < LAZY_BATCH_SIZE}
  BY DEF NextBatch, Before
<1>2. LAZY_BATCH_SIZE \in Nat \ {0}
  BY BoundAssumption
<1>3. PICK s \in c.lazy : Before(c.order, c.lazy, s) = {}
  BY SomethingIsFirst
<1>4. s \in NextBatch(c)
  <2>1. Cardinality(Before(c.order, c.lazy, s)) = 0
    BY <1>3, FS_EmptySet
  <2>2. 0 < LAZY_BATCH_SIZE
    BY <1>2
  <2> QED
    BY <1>1, <2>1, <2>2
<1> QED
  BY <1>1, <1>2, <1>4, FirstFew

LEMMA EnterLazyBatched ==
    ASSUME NEW c \in Chain, WellFormed(c), Lists(c.order, c.slices), c.eager = {}
    PROVE  Batched(EnterLazy(c))
<1>1. CASE c.lazy = {}
  BY <1>1 DEF EnterLazy, InFlight, Chain, Batched
<1>2. CASE c.lazy # {}
  <2> DEFINE B == NextBatch(c)
             e == [c EXCEPT !.phase = "lazy", !.batch = B, !.pending = B,
                            !.loaded = {}, !.lazy = c.lazy \ B]
  <2>1. EnterLazy(c) = e
    BY <1>2 DEF EnterLazy, InFlight, Chain
  <2>2. Lists(c.order, c.lazy)
    BY ListsSubset DEF WellFormed
  <2>3. B # {} /\ IsFiniteSet(B) /\ Cardinality(B) <= LAZY_BATCH_SIZE
    BY <1>2, <2>2, NextBatchSize
  <2> HIDE DEF B
  <2>4. /\ e.order = c.order /\ e.slices = c.slices /\ e.phase = "lazy"
        /\ e.batch = B /\ e.pending = B
    BY DEF Chain
  <2> QED
    BY <2>1, <2>3, <2>4 DEF Batched
<1> QED
  BY <1>1, <1>2

LEMMA EnterEagerBatched ==
    ASSUME NEW c \in Chain, WellFormed(c), Lists(c.order, c.slices)
    PROVE  Batched(EnterEager(c))
<1>1. CASE c.eager = {}
  BY <1>1, EnterLazyBatched DEF EnterEager
<1>2. CASE c.eager # {}
  <2>1. /\ EnterEager(c).order = c.order /\ EnterEager(c).slices = c.slices
        /\ EnterEager(c).phase = "eager" /\ EnterEager(c).pending = c.eager
    BY <1>2 DEF EnterEager, InFlight, Chain
  <2> QED
    BY <1>2, <2>1 DEF Batched
<1> QED
  BY <1>1, <1>2

LEMMA AbandonBatched ==
    ASSUME NEW c \in Chain, Lists(c.order, c.slices)
    PROVE  Batched(Abandon(c))
<1>1. /\ Abandon(c).phase = "done" /\ Abandon(c).batch = {}
      /\ Abandon(c).eager = {} /\ Abandon(c).lazy = {}
      /\ Abandon(c).slices = c.slices /\ Abandon(c).order = c.order
  BY DEF Abandon, InFlight, Chain
<1> QED
  BY <1>1 DEF Batched

LEMMA StartChainBatched ==
    ASSUME NEW d \in Decks, NEW data \in SlicesData,
           Lists(data.order, DOMAIN data.meta)
    PROVE  Batched(StartChain(data, d))
<1> DEFINE S == DOMAIN data.meta
           auto == {s \in S : Autozoom(d, s)}
           c == [order |-> data.order, deck |-> d, slices |-> S,
                 phase |-> "autozoom", batch |-> auto, pending |-> auto,
                 loaded |-> {},
                 eager |-> {s \in S : ~Lazy(d, s) /\ ~Autozoom(d, s)},
                 lazy |-> {s \in S : Lazy(d, s)}]
<1>1. data.order \in Seq(Slice) /\ data.meta \in Metadata
  BY DEF SlicesData
<1>2. S \subseteq Slice
  BY <1>1 DEF Metadata
<1>3. c \in Chain
  BY <1>1, <1>2 DEF Chain, Phases
<1>4. \A s \in S : Autozoom(d, s) => ~Lazy(d, s)
  BY DEF Autozoom, Lazy, resolveLayerAutozoom
<1>5. WellFormed(c)
  BY <1>4 DEF WellFormed
<1>6. StartChain(data, d) = IF auto = {} THEN EnterEager(c) ELSE c
  BY DEF StartChain
<1>7. Lists(c.order, c.slices) /\ (auto # {} => Batched(c))
  BY DEF Batched
<1> HIDE DEF c
<1> QED
  BY <1>3, <1>5, <1>6, <1>7, EnterEagerBatched

\* The chain that a step changes, and what of it was settled.
LEMMA SettlesBatched ==
    ASSUME BatchInv, NEW g \in DOMAIN chains, NEW s \in chains[g].pending,
           NEW ok \in BOOLEAN, LayerSettles(g, s, ok)
    PROVE  \E c \in Chain :
             /\ chains' = [chains EXCEPT ![g] = c]
             /\ Batched(c)
             /\ Outstanding(c) = Outstanding(chains[g]) \ {s}
<1> DEFINE c == [chains[g] EXCEPT !.pending = @ \ {s},
                                  !.loaded = IF ok THEN @ \cup {s} ELSE @]
<1>1. /\ chains \in Seq(Chain) /\ chains[g] \in Chain
      /\ WellFormed(chains[g]) /\ Batched(chains[g])
  BY DEF BatchInv, PhaseInv, TypeInv, TypeOK, ChainsWellFormed, ChainsBatched
<1>2. s \in Slice
  BY <1>1 DEF Chain
<1>3. c \in Chain
  BY <1>1, <1>2 DEF Chain
<1>4. /\ c.slices = chains[g].slices /\ c.order = chains[g].order
      /\ c.phase = chains[g].phase /\ c.batch = chains[g].batch
      /\ c.eager = chains[g].eager /\ c.lazy = chains[g].lazy
      /\ c.pending = chains[g].pending \ {s}
  BY <1>1 DEF Chain
<1>5. chains' = [chains EXCEPT ![g] = c] /\ chains[g].pending # {s}
  BY DEF LayerSettles
<1> HIDE DEF c
<1>6. c.pending # {}
  BY <1>4, <1>5
<1>7. Batched(c)
  BY <1>1, <1>4, <1>6 DEF Batched
<1>8. Outstanding(c) = Outstanding(chains[g]) \ {s}
  BY <1>1, <1>4 DEF WellFormed, Outstanding
<1> QED
  BY <1>3, <1>5, <1>7, <1>8

LEMMA CompletesBatched ==
    ASSUME BatchInv, NEW g \in DOMAIN chains, NEW s \in chains[g].pending,
           NEW ok \in BOOLEAN,
           \/ AutozoomCompletes(g, s, ok)
           \/ EagerCompletes(g, s, ok)
           \/ LazyBatchCompletes(g, s, ok)
    PROVE  \E e \in Chain :
             /\ chains' = [chains EXCEPT ![g] = e]
             /\ Batched(e)
             /\ Outstanding(e) \subseteq Outstanding(chains[g]) \ {s}
<1> DEFINE c == chains[g]
<1>1. /\ chains \in Seq(Chain) /\ c \in Chain
      /\ WellFormed(c) /\ Phased(c) /\ Batched(c)
  BY DEF BatchInv, PhaseInv, TypeInv, TypeOK, ChainsWellFormed, ChainsPhased,
         ChainsBatched
<1>2. PICK e \in Chain : Later(c, e) /\ chains' = [chains EXCEPT ![g] = e]
  BY CompleteType DEF BatchInv, PhaseInv
<1>3. chains'[g] = e
  BY <1>1, <1>2
<1>4. \/ chains' = [chains EXCEPT ![g] = Abandon(c)]
      \/ chains' = [chains EXCEPT ![g] = EnterEager(c)]
      \/ chains' = [chains EXCEPT ![g] = EnterLazy(c)] /\ c.phase # "autozoom"
  BY DEF AutozoomCompletes, EagerCompletes, LazyBatchCompletes, Continue
<1>5. \/ e = Abandon(c)
      \/ e = EnterEager(c)
      \/ e = EnterLazy(c) /\ c.eager = {}
  BY <1>1, <1>3, <1>4 DEF Phased
<1>6. Batched(e)
  BY <1>1, <1>5, AbandonBatched, EnterEagerBatched, EnterLazyBatched DEF Batched
<1>7. Outstanding(e) \subseteq c.eager \cup c.lazy
  BY <1>2 DEF Later, WellFormed, Outstanding
<1>8. s \notin c.eager \cup c.lazy
  BY <1>1 DEF WellFormed
<1> QED
  BY <1>2, <1>6, <1>7, <1>8 DEF Outstanding

LEMMA MetadataBatched ==
    ASSUME BatchInv, NEW r \in requests, MetadataArrives(r)
    PROVE  \/ UNCHANGED chains
           \/ \E c \in Chain : Batched(c) /\ chains' = Append(chains, c)
<1>0. PICK ok \in SUBSET Ids(r.deck) :
        \E meta \in MetadataOf(r, ok) :
          LET data == [fetched |-> TRUE, order |-> Order(r.deck), meta |-> meta]
          IN loadLayers(data) \/ UNCHANGED chains
  BY DEF MetadataArrives
<1>1. PICK meta \in MetadataOf(r, ok) :
        LET data == [fetched |-> TRUE, order |-> Order(r.deck), meta |-> meta]
        IN loadLayers(data) \/ UNCHANGED chains
  BY <1>0
<1> DEFINE data == [fetched |-> TRUE, order |-> Order(r.deck), meta |-> meta]
<1>2. data \in SlicesData /\ DOMAIN meta = ok
  BY DataType DEF BatchInv, PhaseInv, TypeInv
<1>3. deck \in Decks /\ r.deck \in Decks
  BY DEF BatchInv, PhaseInv, TypeInv, TypeOK
<1>4. Lists(data.order, DOMAIN data.meta)
  BY <1>2, <1>3, DeckLists
<1>5. loadLayers(data) \/ UNCHANGED chains
  BY <1>1
<1> HIDE DEF data
<1>6. StartChain(data, deck) \in Chain /\ Batched(StartChain(data, deck))
  BY <1>2, <1>3, <1>4, StartChainStep, StartChainBatched
<1> QED
  BY <1>5, <1>6 DEF loadLayers

\* What a step does to the chains: nothing, start one, or take an answer.
ChainsStep ==
    \/ UNCHANGED chains
    \/ \E c \in Chain : Batched(c) /\ chains' = Append(chains, c)
    \/ \E g \in DOMAIN chains, s \in Slice, c \in Chain :
         /\ s \in chains[g].pending
         /\ chains' = [chains EXCEPT ![g] = c]
         /\ Batched(c)
         /\ Outstanding(c) \subseteq Outstanding(chains[g]) \ {s}

LEMMA NextChainsStep ==
    ASSUME BatchInv, [Next]_vars
    PROVE  ChainsStep
<1>1. CASE ChangeDeck \/ ChangeOther \/ ToggleStaticViewport
  BY <1>1 DEF ChangeDeck, ChangeOther, ToggleStaticViewport, ParentRender, ChainsStep
<1>2. CASE \E s \in Slice : EditChart(s)
  BY <1>2 DEF EditChart, ChainsStep
<1>3. ASSUME NEW r \in requests, MetadataArrives(r) PROVE ChainsStep
  BY <1>3, MetadataBatched DEF ChainsStep
<1>4. ASSUME NEW g \in DOMAIN chains, NEW s \in chains[g].pending,
             NEW ok \in BOOLEAN, LayerAnswer(g, s, ok)
      PROVE  ChainsStep
  <2>1. s \in Slice
    <3>1. chains[g] \in Chain
      BY DEF BatchInv, PhaseInv, TypeInv, TypeOK
    <3> QED
      BY <3>1 DEF Chain
  <2>2. \E c \in Chain :
          /\ chains' = [chains EXCEPT ![g] = c]
          /\ Batched(c)
          /\ Outstanding(c) \subseteq Outstanding(chains[g]) \ {s}
    BY <1>4, SettlesBatched, CompletesBatched DEF LayerAnswer
  <2> QED
    BY <2>1, <2>2 DEF ChainsStep
<1>5. CASE UNCHANGED vars
  BY <1>5 DEF vars, ChainsStep
<1> QED
  BY <1>1, <1>2, <1>3, <1>4, <1>5 DEF Next, Answer

LEMMA InitBatchInv == Init => BatchInv
BY InitPhaseInv DEF Init, BatchInv, ChainsBatched

LEMMA NextBatchInv == BatchInv /\ [Next]_vars => BatchInv'
<1> SUFFICES ASSUME BatchInv, [Next]_vars PROVE ChainsBatched'
  BY NextPhaseInv DEF BatchInv
<1>1. chains \in Seq(Chain)
  BY DEF BatchInv, PhaseInv, TypeInv, TypeOK
<1>2. ChainsStep
  BY NextChainsStep
<1>3. CASE UNCHANGED chains
  BY <1>3 DEF BatchInv, ChainsBatched
<1>4. ASSUME NEW c \in Chain, Batched(c), chains' = Append(chains, c)
      PROVE  ChainsBatched'
  BY <1>1, <1>4, AppendChain DEF BatchInv, ChainsBatched
<1>5. ASSUME NEW g \in DOMAIN chains, NEW c \in Chain, Batched(c),
             chains' = [chains EXCEPT ![g] = c]
      PROVE  ChainsBatched'
  BY <1>1, <1>5, ReplaceChain DEF BatchInv, ChainsBatched
<1> QED
  BY <1>2, <1>3, <1>4, <1>5 DEF ChainsStep

LEMMA BatchInvariant == Spec => []BatchInv
BY InitBatchInv, NextBatchInv, PTL DEF Spec

\* No load ever asks for more lazy layers at once than a batch holds, in
\* whatever order its slices come and however many of them are lazy.
THEOREM LazyBatchesAreSmall == Spec => []LazyBatchBound
<1>1. BatchInv => LazyBatchBound
  <2> SUFFICES ASSUME BatchInv, NEW g \in DOMAIN chains
               PROVE  Cardinality({s \in chains[g].pending : Lazy(chains[g].deck, s)})
                        <= LAZY_BATCH_SIZE
    BY DEF LazyBatchBound
  <2> DEFINE c == chains[g]
             L == {s \in c.pending : Lazy(c.deck, s)}
  <2>1. c \in Chain /\ WellFormed(c) /\ Phased(c) /\ Batched(c)
    BY DEF BatchInv, PhaseInv, TypeInv, TypeOK, ChainsWellFormed, ChainsPhased,
           ChainsBatched
  <2>2. L \in SUBSET c.batch /\ L \subseteq c.batch \cap LazyOnes(c)
    BY <2>1 DEF WellFormed, LazyOnes
  <2>3. LAZY_BATCH_SIZE \in Nat
    BY BoundAssumption
  <2>4. CASE c.phase = "lazy"
    <3>1. IsFiniteSet(c.batch) /\ Cardinality(c.batch) <= LAZY_BATCH_SIZE
      BY <2>1, <2>4 DEF Batched
    <3> HIDE DEF L
    <3>2. Cardinality(L) <= Cardinality(c.batch)
          /\ Cardinality(L) \in Nat /\ Cardinality(c.batch) \in Nat
      BY <2>2, <3>1, FS_Subset, FS_CardinalityType
    <3> QED
      BY <2>3, <3>1, <3>2 DEF L
  <2>5. CASE c.phase # "lazy"
    <3>1. L = {}
      BY <2>1, <2>2, <2>5 DEF Phased, Batched, Chain, Phases
    <3>2. Cardinality(L) = 0
      BY <3>1, FS_EmptySet
    <3> QED
      BY <2>3, <3>2
  <2> QED
    BY <2>4, <2>5
<1> QED
  BY <1>1, BatchInvariant, PTL

\* A load is over exactly when nothing of it is in flight or left to start: it
\* never stops with slices it has not asked for, and never waits for nothing.
NoLoadHangs ==
    \A g \in DOMAIN chains :
        /\ chains[g].pending = {} => chains[g].phase = "done"
        /\ chains[g].phase = "done" => Outstanding(chains[g]) = {}

\* Whatever the deck and the order of the answers, loadLayersOrchestrated is
\* waiting for an answer until every slice was asked for and has settled.
THEOREM LoadsNeverHang == Spec => []NoLoadHangs
<1>1. BatchInv => NoLoadHangs
  BY DEF BatchInv, PhaseInv, TypeInv, ChainsWellFormed, ChainsBatched, WellFormed,
         Batched, NoLoadHangs, Outstanding
<1> QED
  BY <1>1, BatchInvariant, PTL

\* A load only ever changes by an answer that it was waiting for, which is then
\* settled for good; the others may follow, but nothing is asked for twice.
AnswersCount ==
    [][\A g \in DOMAIN chains :
         /\ g \in DOMAIN chains'
         /\ chains'[g] # chains[g] =>
              \E s \in chains[g].pending :
                 Outstanding(chains'[g]) \subseteq Outstanding(chains[g]) \ {s}]_vars

\* Every answer brings its load strictly closer to the end: with LoadsNeverHang,
\* a load of n slices is over after at most n answers.
THEOREM EveryAnswerCounts == Spec => AnswersCount
<1> DEFINE Counts ==
      \A g \in DOMAIN chains :
         /\ g \in DOMAIN chains'
         /\ chains'[g] # chains[g] =>
              \E s \in chains[g].pending :
                 Outstanding(chains'[g]) \subseteq Outstanding(chains[g]) \ {s}
<1>1. ASSUME BatchInv, [Next]_vars PROVE [Counts]_vars
  <2>1. chains \in Seq(Chain) /\ ChainsStep
    BY <1>1, NextChainsStep DEF BatchInv, PhaseInv, TypeInv, TypeOK
  <2>2. CASE UNCHANGED chains
    BY <2>2
  <2>3. ASSUME NEW c \in Chain, chains' = Append(chains, c) PROVE Counts
    BY <2>1, <2>3, AppendChain
  <2>4. ASSUME NEW g \in DOMAIN chains, NEW s \in chains[g].pending, NEW c \in Chain,
               chains' = [chains EXCEPT ![g] = c],
               Outstanding(c) \subseteq Outstanding(chains[g]) \ {s}
        PROVE  Counts
    BY <2>1, <2>4, ReplaceChain
  <2> QED
    BY <2>1, <2>2, <2>3, <2>4 DEF ChainsStep
<1> QED
  BY <1>1, BatchInvariant, PTL DEF Spec, AnswersCount

-----------------------------------------------------------------------------
(* The viewport is fitted to all the autozoom layers of a load, once.      *)

AutoOnes(c) == {s \in c.slices : Autozoom(c.deck, s)}

\* After phase 1 of a load none of its autozoom layers is unsettled.
Zoomed(c) ==
    /\ (c.eager \cup c.lazy) \cap AutoOnes(c) = {}
    /\ c.phase # "autozoom" => c.batch \cap AutoOnes(c) = {}

ChainsZoomed == \A g \in DOMAIN chains : Zoomed(chains[g])

\* The layers on the map carry the settings of the deck, as long as these are
\* the settings their load was started with.
LayersSynced ==
    SettingsKept => \A l \in layers : l.autozoom = Autozoom(deck, l.sliceId)

\* An autozoom layer on the map has been fitted to.
FitCurrent ==
    ~staticViewport /\ fitted = {} => \A l \in layers : ~l.autozoom

FitInv == LoadInv /\ ChainsZoomed /\ LayersSynced /\ FitCurrent

LEMMA LaterZoomed ==
    ASSUME NEW c \in Chain, NEW e, Later(c, e), e.deck = c.deck, Zoomed(c)
    PROVE  Zoomed(e)
BY DEF Later, Zoomed, AutoOnes

\* The deck of a load, and the order of its slices, are captured for good.
LEMMA EnterKeepsDeck ==
    ASSUME NEW c \in Chain
    PROVE  /\ EnterLazy(c).deck = c.deck
           /\ EnterEager(c).deck = c.deck
           /\ Abandon(c).deck = c.deck
BY DEF EnterLazy, EnterEager, Abandon, InFlight, Chain

LEMMA StartChainZoomed ==
    ASSUME NEW d \in Decks, NEW data \in SlicesData
    PROVE  Zoomed(StartChain(data, d)) /\ StartChain(data, d).deck = d
<1> DEFINE S == DOMAIN data.meta
           auto == {s \in S : Autozoom(d, s)}
           c == [order |-> data.order, deck |-> d, slices |-> S,
                 phase |-> "autozoom", batch |-> auto, pending |-> auto,
                 loaded |-> {},
                 eager |-> {s \in S : ~Lazy(d, s) /\ ~Autozoom(d, s)},
                 lazy |-> {s \in S : Lazy(d, s)}]
<1>1. data.order \in Seq(Slice) /\ data.meta \in Metadata
  BY DEF SlicesData
<1>2. S \subseteq Slice
  BY <1>1 DEF Metadata
<1>3. c \in Chain /\ c.deck = d
  BY <1>1, <1>2 DEF Chain, Phases
<1>4. \A s \in S : Autozoom(d, s) => ~Lazy(d, s)
  BY DEF Autozoom, Lazy, resolveLayerAutozoom
<1>5. WellFormed(c) /\ Zoomed(c)
  BY <1>4 DEF WellFormed, Zoomed, AutoOnes
<1>6. StartChain(data, d) = IF auto = {} THEN EnterEager(c) ELSE c
  BY DEF StartChain
<1> HIDE DEF c
<1> QED
  BY <1>3, <1>5, <1>6, EnterEagerStep, EnterKeepsDeck, LaterZoomed

\* Re-applied settings are those of the deck.
LEMMA SyncSettles ==
    ASSUME NEW d \in Decks, NEW ls \in SUBSET Layer
    PROVE  \A l \in SyncSettings(ls, d) : l.autozoom = Autozoom(d, l.sliceId)
<1> DEFINE sync(l) ==
      [l EXCEPT !.autozoom = Autozoom(d, l.sliceId),
                !.lazyLoading = Lazy(d, l.sliceId),
                !.lassoSelectable = ConfigOf(d, l.sliceId).lassoSelectable]
<1>1. \A l \in ls : sync(l).sliceId = l.sliceId
                   /\ sync(l).autozoom = Autozoom(d, l.sliceId)
  BY DEF Layer
<1>2. \/ SyncSettings(ls, d) = {sync(l) : l \in ls}
      \/ /\ SyncSettings(ls, d) = ls
         /\ \A l \in ls : l.autozoom = Autozoom(d, l.sliceId)
  BY DEF SyncSettings
<1> HIDE DEF sync
<1> QED
  BY <1>1, <1>2

\* The fit is empty only if there is nothing to fit to.
LEMMA FitOf ==
    ASSUME NEW static \in BOOLEAN, NEW cached, NEW ls
    PROVE  /\ ~static /\ cached # {} => Fit(static, cached, ls) = cached
           /\ ~static /\ Fit(static, cached, ls) = {} => \A l \in ls : ~l.autozoom
           /\ cached = {} /\ Fit(static, cached, ls) # {} =>
                /\ ~static
                /\ Fit(static, cached, ls) = LayerIds({l \in ls : l.autozoom})
BY DEF Fit, LayerIds

-----------------------------------------------------------------------------
(* Steps.                                                                  *)

\* What a step does to the fit: nothing, while no layer is added, or it is
\* computed anew from the layers of the next state.
FitStep ==
    \/ UNCHANGED <<fitted, staticViewport>> /\ layers' \subseteq layers
    \/ fitted' = Fit(staticViewport', fitted, layers')

LEMMA NextFitStep ==
    ASSUME LoadInv, [Next]_vars
    PROVE  FitStep
<1>1. CASE ChangeDeck
  BY <1>1 DEF ChangeDeck, FitStep
<1>2. CASE ChangeOther \/ ToggleStaticViewport
  BY <1>2 DEF ChangeOther, ToggleStaticViewport, FitStep
<1>3. CASE \E s \in Slice : EditChart(s)
  BY <1>3 DEF EditChart, propVars, FitStep
<1>4. ASSUME NEW r \in requests, MetadataArrives(r) PROVE FitStep
  BY <1>4, MetadataType DEF LoadInv, propVars, FitStep
<1>5. ASSUME NEW g \in DOMAIN chains, NEW s \in chains[g].pending,
             NEW ok \in BOOLEAN, LayerAnswer(g, s, ok)
      PROVE  FitStep
  BY <1>5 DEF LayerAnswer, LayerSettles, AutozoomCompletes, EagerCompletes,
             LazyBatchCompletes, Continue, propVars, FitStep
<1>6. CASE UNCHANGED vars
  BY <1>6 DEF vars, FitStep
<1> QED
  BY <1>1, <1>2, <1>3, <1>4, <1>5, <1>6 DEF Next, Answer

LEMMA FitStaysCurrent ==
    ASSUME FitInv, [Next]_vars, staticViewport' \in BOOLEAN
    PROVE  FitCurrent'
<1>1. FitStep
  BY NextFitStep DEF FitInv
<1>2. CASE UNCHANGED <<fitted, staticViewport>> /\ layers' \subseteq layers
  BY <1>2 DEF FitInv, FitCurrent
<1>3. CASE fitted' = Fit(staticViewport', fitted, layers')
  BY <1>3, FitOf DEF FitCurrent
<1> QED
  BY <1>1, <1>2, <1>3 DEF FitStep

\* What a step does to the loads and the map, as far as the fit can tell: new
\* settings, a new load, or an answer to load g.
LoadStep ==
    \/ /\ UNCHANGED chains
       /\ \/ UNCHANGED <<deck, layers>>
          \/ deck' \in Decks /\ layers' = SyncSettings(layers, deck')
    \/ \E c \in Chain :
         /\ Zoomed(c)
         /\ chains' = Append(chains, c)
         /\ layers' = {}
    \/ \E g \in DOMAIN chains, e \in Chain :
         /\ UNCHANGED deck
         /\ chains' = [chains EXCEPT ![g] = e]
         /\ e.deck = chains[g].deck /\ e.slices = chains[g].slices
         /\ Zoomed(e)
         /\ \A l \in layers' \ layers :
              /\ ~isStale(g)
              /\ l.sliceId \in chains[g].batch
              /\ l.autozoom = Autozoom(chains[g].deck, l.sliceId)

LEMMA EntriesSettings ==
    ASSUME NEW c, NEW S, NEW g, NEW l \in Entries(c, S, g)
    PROVE  l.sliceId \in S /\ l.autozoom = Autozoom(c.deck, l.sliceId)
BY DEF Entries, Entry

LEMMA SettlesLoadStep ==
    ASSUME FitInv, NEW g \in DOMAIN chains, NEW s \in chains[g].pending,
           NEW ok \in BOOLEAN, LayerSettles(g, s, ok)
    PROVE  LoadStep
<1> DEFINE c == [chains[g] EXCEPT !.pending = @ \ {s},
                                  !.loaded = IF ok THEN @ \cup {s} ELSE @]
<1>1. chains[g] \in Chain /\ Zoomed(chains[g])
  BY DEF FitInv, LoadInv, TypeInv, TypeOK, ChainsZoomed
<1>2. s \in Slice
  BY <1>1 DEF Chain
<1>3. c \in Chain
  BY <1>1, <1>2 DEF Chain
<1>4. /\ c.slices = chains[g].slices /\ c.deck = chains[g].deck
      /\ c.phase = chains[g].phase /\ c.batch = chains[g].batch
      /\ c.eager = chains[g].eager /\ c.lazy = chains[g].lazy
  BY <1>1 DEF Chain
<1>5. chains' = [chains EXCEPT ![g] = c] /\ layers' = layers /\ deck' = deck
  BY DEF LayerSettles, propVars
<1> HIDE DEF c
<1>6. Zoomed(c)
  BY <1>1, <1>4 DEF Zoomed, AutoOnes
<1> QED
  BY <1>3, <1>4, <1>5, <1>6 DEF LoadStep

LEMMA CompletesLoadStep ==
    ASSUME FitInv, NEW g \in DOMAIN chains, NEW s \in chains[g].pending,
           NEW ok \in BOOLEAN,
           \/ AutozoomCompletes(g, s, ok)
           \/ EagerCompletes(g, s, ok)
           \/ LazyBatchCompletes(g, s, ok)
    PROVE  LoadStep
<1> DEFINE c == chains[g]
           E == Entries(c, Loaded(g, s, ok), g)
<1>1. chains \in Seq(Chain) /\ c \in Chain /\ Zoomed(c)
  BY DEF FitInv, LoadInv, TypeInv, TypeOK, ChainsZoomed
<1>2. PICK e \in Chain : Later(c, e) /\ chains' = [chains EXCEPT ![g] = e]
  BY CompleteType DEF FitInv, LoadInv
<1>3. chains'[g] = e
  BY <1>1, <1>2
<1>4. \/ chains' = [chains EXCEPT ![g] = Abandon(c)]
      \/ chains' = [chains EXCEPT ![g] = EnterEager(c)]
      \/ chains' = [chains EXCEPT ![g] = EnterLazy(c)]
  BY DEF AutozoomCompletes, EagerCompletes, LazyBatchCompletes, Continue
<1>5. e = Abandon(c) \/ e = EnterEager(c) \/ e = EnterLazy(c)
  BY <1>1, <1>3, <1>4
<1>6. e.deck = c.deck /\ e.slices = c.slices /\ Zoomed(e)
  BY <1>1, <1>2, <1>5, EnterKeepsDeck, LaterZoomed DEF Later
<1>7. /\ Loaded(g, s, ok) \subseteq c.batch
      /\ layers' \subseteq layers \cup E
      /\ isStale(g) => layers' = layers
      /\ deck' = deck
  BY CompleteType DEF FitInv, LoadInv, propVars
<1>8. \A l \in layers' \ layers :
        /\ ~isStale(g)
        /\ l.sliceId \in c.batch
        /\ l.autozoom = Autozoom(c.deck, l.sliceId)
  <2>1. \A l \in E : /\ l.sliceId \in Loaded(g, s, ok)
                    /\ l.autozoom = Autozoom(c.deck, l.sliceId)
    BY EntriesSettings
  <2> HIDE DEF E
  <2> QED
    BY <1>7, <2>1
<1> QED
  BY <1>2, <1>6, <1>7, <1>8 DEF LoadStep

LEMMA MetadataLoadStep ==
    ASSUME FitInv, NEW r \in requests, MetadataArrives(r)
    PROVE  LoadStep
<1>0. PICK ok \in SUBSET Ids(r.deck) :
        \E meta \in MetadataOf(r, ok) :
          LET data == [fetched |-> TRUE, order |-> Order(r.deck), meta |-> meta]
          IN loadLayers(data) \/ UNCHANGED <<chains, layers>>
  BY DEF MetadataArrives
<1>1. PICK meta \in MetadataOf(r, ok) :
        LET data == [fetched |-> TRUE, order |-> Order(r.deck), meta |-> meta]
        IN loadLayers(data) \/ UNCHANGED <<chains, layers>>
  BY <1>0
<1> DEFINE data == [fetched |-> TRUE, order |-> Order(r.deck), meta |-> meta]
<1>2. data \in SlicesData /\ deck \in Decks /\ deck' = deck
  BY DataType DEF FitInv, LoadInv, TypeInv, TypeOK, MetadataArrives, propVars
<1>3. loadLayers(data) \/ UNCHANGED <<chains, layers>>
  BY <1>1
<1> HIDE DEF data
<1>4. StartChain(data, deck) \in Chain /\ Zoomed(StartChain(data, deck))
  BY <1>2, StartChainStep, StartChainZoomed
<1> QED
  BY <1>2, <1>3, <1>4 DEF loadLayers, LoadStep

LEMMA NextLoadStep ==
    ASSUME FitInv, [Next]_vars
    PROVE  LoadStep
<1>1. CASE ChangeDeck
  <2>1. PICK raw \in RawDecks :
          /\ ParentRender(normalizeDeckSlices(raw))
          /\ layers' = SyncSettings(layers, normalizeDeckSlices(raw))
    BY <1>1 DEF ChangeDeck
  <2>2. normalizeDeckSlices(raw) \in Decks
    BY DEF Decks
  <2> QED
    BY <2>1, <2>2 DEF ParentRender, LoadStep
<1>2. CASE ChangeOther \/ ToggleStaticViewport
  BY <1>2 DEF ChangeOther, ToggleStaticViewport, ParentRender, LoadStep
<1>3. CASE \E s \in Slice : EditChart(s)
  BY <1>3 DEF EditChart, propVars, LoadStep
<1>4. CASE Answer
  BY <1>4, MetadataLoadStep, SettlesLoadStep, CompletesLoadStep
  DEF Answer, LayerAnswer
<1>5. CASE UNCHANGED vars
  BY <1>5 DEF vars, LoadStep
<1> QED
  BY <1>1, <1>2, <1>3, <1>4, <1>5 DEF Next

\* The loads after an answer to load g.
LEMMA AnsweredLoads ==
    ASSUME LoadInv, NEW g \in DOMAIN chains, NEW e \in Chain,
           chains' = [chains EXCEPT ![g] = e],
           e.deck = chains[g].deck, e.slices = chains[g].slices
    PROVE  /\ chains # <<>> /\ chains' # <<>>
           /\ loadGeneration' = loadGeneration /\ loadGeneration \in DOMAIN chains
           /\ CurrentChain'.deck = CurrentChain.deck
           /\ CurrentChain'.slices = CurrentChain.slices
           /\ SettingsKept' <=> CurrentChain.deck = deck'
           /\ ~isStale(g) => CurrentChain = chains[g]
<1>1. chains \in Seq(Chain) /\ DOMAIN chains = 1..Len(chains) /\ Len(chains) \in Nat
  BY DEF LoadInv, TypeInv, TypeOK
<1>2. chains # <<>> /\ Len(chains) \in DOMAIN chains
  BY <1>1
<1>3. /\ Len(chains') = Len(chains)
      /\ chains'[Len(chains)] = IF g = Len(chains) THEN e ELSE chains[Len(chains)]
  BY <1>1, <1>2, ReplaceChain
<1>4. chains' # <<>>
  BY <1>1, <1>2, <1>3
<1> QED
  BY <1>2, <1>3, <1>4 DEF loadGeneration, CurrentChain, SettingsKept, isStale

LEMMA NextFitInv == FitInv /\ [Next]_vars => FitInv'
<1> SUFFICES ASSUME FitInv, [Next]_vars
             PROVE  ChainsZoomed' /\ LayersSynced' /\ FitCurrent'
  BY NextLoadInv DEF FitInv
<1>1. chains \in Seq(Chain) /\ layers \subseteq Layer
  BY DEF FitInv, LoadInv, TypeInv, TypeOK
<1>2. staticViewport' \in BOOLEAN
  BY NextLoadInv DEF FitInv, LoadInv, TypeInv, TypeOK
<1>3. FitCurrent'
  BY <1>2, FitStaysCurrent
<1>4. LoadStep
  BY NextLoadStep
<1>5. CASE UNCHANGED <<chains, deck, layers>>
  BY <1>3, <1>5 DEF FitInv, ChainsZoomed, LayersSynced, SettingsKept, loadGeneration
<1>6. CASE /\ UNCHANGED chains
           /\ deck' \in Decks /\ layers' = SyncSettings(layers, deck')
  <2>1. LayersSynced'
    BY <1>1, <1>6, SyncSettles DEF LayersSynced
  <2> QED
    BY <1>3, <1>6, <2>1 DEF FitInv, ChainsZoomed
<1>7. ASSUME NEW c \in Chain, Zoomed(c), chains' = Append(chains, c), layers' = {}
      PROVE  ChainsZoomed' /\ LayersSynced'
  BY <1>1, <1>7, AppendChain DEF FitInv, ChainsZoomed, LayersSynced
<1>8. ASSUME NEW g \in DOMAIN chains, NEW e \in Chain,
             UNCHANGED deck, chains' = [chains EXCEPT ![g] = e],
             e.deck = chains[g].deck, e.slices = chains[g].slices, Zoomed(e),
             \A l \in layers' \ layers :
                /\ ~isStale(g)
                /\ l.autozoom = Autozoom(chains[g].deck, l.sliceId)
      PROVE  ChainsZoomed' /\ LayersSynced'
  <2>1. ChainsZoomed'
    BY <1>1, <1>8, ReplaceChain DEF FitInv, ChainsZoomed
  <2>2. ASSUME SettingsKept', NEW l \in layers'
        PROVE  l.autozoom = Autozoom(deck', l.sliceId)
    <3>1. CurrentChain.deck = deck /\ SettingsKept
      BY <1>8, <2>2, AnsweredLoads DEF FitInv, SettingsKept, CurrentChain
    <3>2. ~isStale(g) => chains[g].deck = deck
      BY <1>8, <3>1, AnsweredLoads DEF FitInv
    <3> QED
      BY <1>8, <3>1, <3>2 DEF FitInv, LayersSynced
  <2> QED
    BY <2>1, <2>2 DEF LayersSynced
<1> QED
  BY <1>3, <1>4, <1>5, <1>6, <1>7, <1>8 DEF LoadStep

LEMMA InitFitInv == Init => FitInv
BY InitLoadInv DEF Init, FitInv, ChainsZoomed, LayersSynced, FitCurrent

LEMMA FitInvariant == Spec => []FitInv
BY InitFitInv, NextFitInv, PTL DEF Spec

\* The first fit of a viewport is to autozoom layers that are on the map.
LEMMA FirstFit ==
    ASSUME FitInv, [Next]_vars, fitted = {}, fitted' # {}
    PROVE  /\ ~staticViewport'
           /\ fitted' = LayerIds({l \in layers' : l.autozoom})
           /\ \E l \in layers' : l.autozoom
<1>1. FitStep /\ staticViewport' \in BOOLEAN
  BY NextFitStep, NextLoadInv DEF FitInv, LoadInv, TypeInv, TypeOK
<1>2. fitted' = Fit(staticViewport', fitted, layers')
  BY <1>1 DEF FitStep
<1>3. ~staticViewport' /\ fitted' = LayerIds({l \in layers' : l.autozoom})
  BY <1>1, <1>2, FitOf
<1> QED
  BY <1>3 DEF LayerIds

\* The viewport that is kept for good is fitted to all the autozoom layers that
\* the latest load will ever have: none of them is in flight or still to start.
THEOREM FitIsToTheWholePhase == Spec => FitWaitsForAutozoom
<1> DEFINE Waits == fitted = {} /\ fitted' # {} /\ SettingsKept' =>
             LET c == chains'[Len(chains')]
             IN /\ \A s \in c.pending \cup c.eager \cup c.lazy : ~Autozoom(c.deck, s)
                /\ fitted' = LayerIds({l \in layers' : Autozoom(deck', l.sliceId)})
<1>1. ASSUME FitInv, [Next]_vars PROVE Waits
  <2> SUFFICES ASSUME fitted = {}, fitted' # {}, SettingsKept'
               PROVE  LET c == chains'[Len(chains')]
                      IN /\ \A s \in c.pending \cup c.eager \cup c.lazy :
                               ~Autozoom(c.deck, s)
                         /\ fitted' = LayerIds({l \in layers' :
                                                 Autozoom(deck', l.sliceId)})
    OBVIOUS
  <2> DEFINE c == chains'[Len(chains')]
  <2>1. FitInv'
    BY <1>1, NextFitInv
  <2>2. /\ fitted' = LayerIds({l \in layers' : l.autozoom})
        /\ layers' # {}
    BY <1>1, FirstFit
  <2>3. chains' # <<>> /\ chains' \in Seq(Chain) /\ CurrentChain' = c
    BY <2>1, <2>2 DEF FitInv, LoadInv, MapInv, TypeInv, TypeOK, CurrentChain,
                      loadGeneration
  <2>4. Len(chains') \in DOMAIN chains'
    BY <2>3
  <2>5. c.phase # "autozoom" /\ WellFormed(c) /\ Zoomed(c)
    BY <2>1, <2>2, <2>3, <2>4 DEF FitInv, LoadInv, MapInv, TypeInv,
                                  ChainsWellFormed, ChainsZoomed
  <2> HIDE DEF c
  <2>6. \A s \in c.pending \cup c.eager \cup c.lazy : ~Autozoom(c.deck, s)
    BY <2>5 DEF WellFormed, Zoomed, AutoOnes
  <2>7. \A l \in layers' : l.autozoom = Autozoom(deck', l.sliceId)
    BY <2>1 DEF FitInv, LayersSynced
  <2>8. {l \in layers' : l.autozoom} = {l \in layers' : Autozoom(deck', l.sliceId)}
    BY <2>7
  <2> QED
    BY <2>2, <2>6, <2>8 DEF c
<1> QED
  BY <1>1, FitInvariant, PTL DEF Spec, FitWaitsForAutozoom

\* A chart of the deck that autozooms makes the gate wait for a layer.
LEMMA AutozoomGates ==
    ASSUME NEW s \in Ids(deck), Autozoom(deck, s)
    PROVE  hasAutozoomLayers /\ deck # <<>>
<1>1. \E i \in DOMAIN deck : deck[i].sliceId = s
  BY DEF Ids
<1>2. PICK i \in DOMAIN deck : ConfigOf(deck, s) = deck[i]
  BY <1>1 DEF ConfigOf
<1> QED
  BY <1>2 DEF Autozoom, hasAutozoomLayers

\* A canvas that stays visible keeps its viewport: whatever arrives, in
\* whatever order, the map never snaps to a new position by itself.
THEOREM NeverSnaps == Spec => NoViewportJump
<1> DEFINE Stays ==
      Shown /\ Shown' /\ SettingsKept /\ SettingsKept' /\ LoadOfDeck
        /\ UNCHANGED <<deck, staticViewport>>
      => UNCHANGED viewport
<1>1. ASSUME FitInv, [Next]_vars PROVE Stays
  <2> SUFFICES ASSUME Shown, SettingsKept, SettingsKept', LoadOfDeck,
                      UNCHANGED <<deck, staticViewport>>
               PROVE  UNCHANGED viewport
    OBVIOUS
  <2>1. FitInv' /\ FitStep /\ LoadStep /\ staticViewport \in BOOLEAN
    BY <1>1, NextFitInv, NextFitStep, NextLoadStep
    DEF FitInv, LoadInv, TypeInv, TypeOK
  <2>2. CASE staticViewport
    BY <2>2 DEF viewport
  <2>3. CASE ~staticViewport /\ fitted # {}
    BY <2>1, <2>3, FitOf DEF FitStep, viewport
  <2>4. CASE ~staticViewport /\ fitted = {}
    <3> SUFFICES ASSUME fitted' # {} PROVE FALSE
      BY <2>4 DEF viewport
    <3>1. PICK l \in layers' : l.autozoom
      BY <1>1, <2>4, FirstFit
    <3>2. Autozoom(deck, l.sliceId)
      BY <2>1, <3>1 DEF FitInv, LayersSynced
    <3>3. chains' # <<>> /\ l.sliceId \in CurrentChain'.slices
      BY <2>1, <3>1 DEF FitInv, LoadInv, MapInv, LayerIds
    <3>4. \A k \in layers : ~k.autozoom /\ ~Autozoom(deck, k.sliceId)
      BY <1>1, <2>4 DEF FitInv, FitCurrent, LayersSynced
    <3>5. LayerIds(layers') # LayerIds(layers) /\ ~(layers' \subseteq layers)
      BY <3>1, <3>2, <3>4 DEF LayerIds
    <3>6. \A d \in Decks : layers' # SyncSettings(layers, d)
      <4>1. layers \subseteq Layer
        BY <1>1 DEF FitInv, LoadInv, TypeInv, TypeOK
      <4> QED
        BY <3>5, <4>1, SyncType
    <3>7. PICK g \in DOMAIN chains, e \in Chain :
             /\ chains' = [chains EXCEPT ![g] = e]
             /\ e.deck = chains[g].deck /\ e.slices = chains[g].slices
             /\ \A k \in layers' \ layers :
                  ~isStale(g) /\ k.sliceId \in chains[g].batch
      BY <2>1, <3>1, <3>5, <3>6 DEF LoadStep
    <3>8. l \notin layers
      BY <3>1, <3>4
    <3>9. CurrentChain = chains[g] /\ chains # <<>> /\ CurrentChain.deck = deck
          /\ CurrentChain'.slices = CurrentChain.slices
      BY <1>1, <3>1, <3>7, <3>8, AnsweredLoads
      DEF FitInv, SettingsKept, CurrentChain
    <3>10. l.sliceId \in Ids(deck)
      BY <3>3, <3>9 DEF LoadOfDeck, CurrentChain
    <3>11. layers # {}
      BY <3>2, <3>10, AutozoomGates DEF Shown, isLoading
    <3>12. chains[g].phase # "autozoom"
      BY <1>1, <3>9, <3>11 DEF FitInv, LoadInv, MapInv
    <3>13. l.sliceId \in chains[g].batch \cap AutoOnes(chains[g])
      <4>1. WellFormed(chains[g])
        BY <1>1 DEF FitInv, LoadInv, TypeInv, ChainsWellFormed
      <4>2. l.sliceId \in chains[g].batch /\ chains[g].deck = deck
        BY <3>1, <3>7, <3>8, <3>9
      <4> QED
        BY <3>2, <4>1, <4>2 DEF WellFormed, AutoOnes
    <3> QED
      BY <1>1, <3>12, <3>13 DEF FitInv, ChainsZoomed, Zoomed
  <2> QED
    BY <2>2, <2>3, <2>4
<1> QED
  BY <1>1, FitInvariant, PTL DEF Spec, NoViewportJump
=============================================================================
