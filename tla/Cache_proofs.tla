------------------------------ MODULE Cache_proofs ------------------------------
(***************************************************************************)
(* withCache for any destinations, credits, capacity and number of fetches *)
(* in flight: the lazily cleaned heap always holds what an eviction needs, *)
(* it stays bounded, and the cache implements the GreedyDual policy.       *)
(***************************************************************************)
EXTENDS Cache, FiniteSetTheorems, TLAPS

\* Entries es and heap hp fit together, no version being above vc: each entry
\* has its current node, and a node that looks current has the entry's h.
Sound(es, hp, vc) ==
  /\ es \in [Dest -> CacheEntry \cup {NoEntry}]
  /\ hp \subseteq HeapNode
  /\ \A d \in Live(es) : es[d].version <= vc /\ Node(d, es[d]) \in hp
  /\ \A n \in hp : /\ n.version <= vc
                   /\ n.destination \in Live(es) /\ es[n.destination].version = n.version
                        => n.h = es[n.destination].h

IInv ==
  /\ TypeOK
  /\ Sound(entries, heap, versionCounter)
  /\ Cardinality(Live(entries)) <= MaxEntries
  /\ IsFiniteSet(heap) /\ HeapBounded
  /\ \A d \in Dest : refreshing[d] <= 1 /\ (refreshing[d] > 0 => d \in revalidating)

\* What a node says of its entry.
LEMMA NodeFields ==
  ASSUME NEW d \in Dest, NEW e \in CacheEntry
  PROVE  /\ Node(d, e) \in HeapNode
         /\ Node(d, e).destination = d
         /\ Node(d, e).h = e.h
         /\ Node(d, e).version = e.version
         /\ e.h \in Nat
         /\ e.version \in Nat
BY DEF Node, HeapNode, CacheEntry

\* A touch gives entry e of d a version never seen before, and so keeps
\* entries and nodes together, whether its node is pushed or the heap rebuilt.
LEMMA UpdateSound ==
  ASSUME Sound(entries, heap, versionCounter), versionCounter \in Nat,
         NEW d \in Dest, NEW e \in CacheEntry, e.version = versionCounter + 1,
         NEW es, es \in [Dest -> CacheEntry \cup {NoEntry}], es[d] = e,
         \A k \in Dest : k # d => es[k] = entries[k]
  PROVE  /\ Live(es) = Live(entries) \cup {d}
         /\ Sound(es, HeapAfterTouch(es, d), versionCounter + 1)
<1> USE NoEntryAssumption
<1>1. entries \in [Dest -> CacheEntry \cup {NoEntry}] /\ heap \subseteq HeapNode
  BY DEF Sound
<1>2. /\ es \in [Dest -> CacheEntry \cup {NoEntry}]
      /\ es[d] = e
      /\ \A k \in Dest : k # d => es[k] = entries[k]
      /\ Live(es) = Live(entries) \cup {d}
      /\ \A k \in Live(es) : k \in Dest /\ es[k] \in CacheEntry
  BY <1>1 DEF Live
<1>3. \A k \in Live(entries) : entries[k].version <= versionCounter /\ Node(k, entries[k]) \in heap
  BY DEF Sound
<1>4. \A n \in heap : n.destination \in Dest /\ n.version \in Nat /\ n.version <= versionCounter
  BY <1>1 DEF Sound, HeapNode
<1>5. \A n \in heap : n.destination \in Live(entries) /\ entries[n.destination].version = n.version
                      => n.h = entries[n.destination].h
  BY DEF Sound
<1>6. \A k \in Live(es) : es[k].version <= versionCounter + 1
  <2> SUFFICES ASSUME NEW k \in Live(es) PROVE es[k].version <= versionCounter + 1
    OBVIOUS
  <2>1. CASE k = d
    BY <1>2, <2>1
  <2>2. CASE k # d
    BY <1>2, <1>3, <2>2, NodeFields
  <2> QED
    BY <2>1, <2>2
<1>7. Sound(es, heap \cup {Node(d, e)}, versionCounter + 1)
  <2> DEFINE pushed == heap \cup {Node(d, e)}
  <2>1. pushed \subseteq HeapNode
    BY <1>1, NodeFields
  <2>2. \A k \in Live(es) : Node(k, es[k]) \in pushed
    <3> SUFFICES ASSUME NEW k \in Live(es), k # d PROVE Node(k, es[k]) \in heap
      BY <1>2
    <3> QED
      BY <1>2, <1>3
  <2>3. ASSUME NEW n \in pushed
        PROVE  /\ n.version <= versionCounter + 1
               /\ n.destination \in Live(es) /\ es[n.destination].version = n.version
                    => n.h = es[n.destination].h
    <3>1. CASE n = Node(d, e)
      BY <1>2, <3>1, NodeFields
    <3>2. CASE n \in heap /\ n.destination = d
      BY <1>2, <1>4, <3>2
    <3>3. CASE n \in heap /\ n.destination # d
      BY <1>2, <1>4, <1>5, <3>3
    <3> QED
      BY <3>1, <3>2, <3>3
  <2> QED
    BY <1>2, <1>6, <2>1, <2>2, <2>3 DEF Sound
<1>8. Sound(es, {Node(k, es[k]) : k \in Live(es)}, versionCounter + 1)
  <2>1. \A k \in Live(es) : /\ Node(k, es[k]) \in HeapNode
                            /\ Node(k, es[k]).destination = k
                            /\ Node(k, es[k]).h = es[k].h
                            /\ Node(k, es[k]).version = es[k].version
    BY <1>2, NodeFields
  <2> QED
    BY <1>2, <1>6, <2>1 DEF Sound
<1>9. HeapAfterTouch(es, d) = heap \cup {Node(d, es[d])}
      \/ HeapAfterTouch(es, d) = {Node(k, es[k]) : k \in Live(es)}
  BY Zenon DEF HeapAfterTouch
<1> QED
  BY <1>2, <1>7, <1>8, <1>9

LEMMA TouchSound ==
  ASSUME Sound(entries, heap, versionCounter), versionCounter \in Nat,
         NEW d \in Dest, NEW e \in CacheEntry, e.version = versionCounter + 1,
         NEW es, es = [entries EXCEPT ![d] = e]
  PROVE  /\ es[d] = e
         /\ Live(es) = Live(entries) \cup {d}
         /\ Sound(es, HeapAfterTouch(es, d), versionCounter + 1)
<1>1. entries \in [Dest -> CacheEntry \cup {NoEntry}]
  BY DEF Sound
<1>2. /\ es \in [Dest -> CacheEntry \cup {NoEntry}] /\ es[d] = e
      /\ \A k \in Dest : k # d => es[k] = entries[k]
  BY <1>1
<1> QED
  BY <1>2, UpdateSound

\* An eviction finds a least valuable entry by its current node and leaves the
\* nodes of all others.
LEMMA EvictSound ==
  ASSUME NEW es, NEW hp, NEW vc \in Nat, Sound(es, hp, vc), Live(es) # {}, Evict(es, hp)
  PROVE  /\ Sound(entries', heap', vc)
         /\ \E victim \in Live(es) :
              /\ entries' = [es EXCEPT ![victim] = NoEntry]
              /\ clockL' = es[victim].h
              /\ \A r \in Live(es) : es[victim].h <= es[r].h
         /\ evictedSince \in SUBSET Dest => evictedSince' \in SUBSET Dest
         /\ \E top \in hp : heap' \subseteq hp \ {top}
<1> DEFINE current == {n \in hp : es[n.destination] # NoEntry
                                  /\ es[n.destination].version = n.version}
<1>1. \A k \in Live(es) : /\ Node(k, es[k]) \in current
                          /\ Node(k, es[k]).destination = k
                          /\ Node(k, es[k]).h = es[k].h
  BY DEF Sound, Node, Live
<1>2. PICK top \in current : \E ties \in SUBSET {n \in hp \ current : n.h = top.h} :
        /\ \A n \in current : top.h <= n.h
        /\ heap' = {n \in hp : n.h >= top.h} \ (ties \cup {top})
        /\ entries' = [es EXCEPT ![top.destination] = NoEntry]
        /\ clockL' = top.h
        /\ evictedSince' = IF refreshing[top.destination] > 0
                             THEN evictedSince \cup {top.destination}
                             ELSE evictedSince
  BY <1>1 DEF Evict
<1>3. PICK ties \in SUBSET {n \in hp \ current : n.h = top.h} :
        /\ \A n \in current : top.h <= n.h
        /\ heap' = {n \in hp : n.h >= top.h} \ (ties \cup {top})
        /\ entries' = [es EXCEPT ![top.destination] = NoEntry]
        /\ clockL' = top.h
        /\ evictedSince' = IF refreshing[top.destination] > 0
                             THEN evictedSince \cup {top.destination}
                             ELSE evictedSince
  BY <1>2
<1> DEFINE victim == top.destination
<1>4. /\ victim \in Live(es)
      /\ top.h = es[victim].h
      /\ \A r \in Live(es) : es[victim].h <= es[r].h
  BY <1>1, <1>3 DEF Sound, Live, HeapNode
<1>5. /\ entries' \in [Dest -> CacheEntry \cup {NoEntry}]
      /\ Live(entries') = Live(es) \ {victim}
      /\ \A k \in Dest \ {victim} : entries'[k] = es[k]
  BY <1>3, <1>4 DEF Sound, Live
<1>6. \A k \in Live(entries') : Node(k, entries'[k]) \in heap'
  <2> SUFFICES ASSUME NEW k \in Live(entries') PROVE Node(k, es[k]) \in heap'
    BY <1>5 DEF Live
  <2>1. Node(k, es[k]) \in current /\ Node(k, es[k]) # top
    BY <1>1, <1>5
  <2>2. Node(k, es[k]).h >= top.h
    BY <1>1, <1>3, <2>1, <1>4, <1>5 DEF Sound, CacheEntry, Live
  <2> QED
    BY <1>3, <2>1, <2>2
<1>7. Sound(entries', heap', vc)
  BY <1>3, <1>5, <1>6 DEF Sound, Live, HeapNode
<1>8. heap' \subseteq hp \ {top}
  BY <1>3
<1> QED
  BY <1>3, <1>4, <1>7, <1>8 DEF Live

-----------------------------------------------------------------------------
\* What a touch makes of d's entry.
LEMMA TouchedEntry ==
  ASSUME IInv, NEW d \in Dest, NEW at \in Nat, NEW credit \in Credit
  PROVE  /\ Touched(d, at, credit) \in CacheEntry
         /\ Touched(d, at, credit).version = versionCounter + 1
         /\ Touched(d, at, credit).h = clockL + credit
         /\ versionCounter \in Nat
BY CacheAssumption DEF IInv, TypeOK, Touched, CacheEntry, computeH, NextVersion

\* The values GreedyDual sees.
Seen(es) == [d \in Dest |-> IF es[d] # NoEntry THEN es[d].h ELSE 0]

\* A hit or a revalidation, seen by GreedyDual.
LEMMA InPlace ==
  ASSUME IInv, NEW d \in Dest, Cached(d), NEW at \in Nat, NEW credit \in Credit,
         TouchInPlace(d, at, credit)
  PROVE  /\ Sound(entries', heap', versionCounter')
         /\ versionCounter' \in 0 .. MaxTouches
         /\ d \in Live(entries)
         /\ Live(entries') = Live(entries)
         /\ Seen(entries') = [Seen(entries) EXCEPT ![d] = clockL + credit]
         /\ UNCHANGED <<clockL, evictedSince>>
<1> DEFINE e  == Touched(d, at, credit)
           es == [entries EXCEPT ![d] = e]
<1>1. /\ Sound(entries, heap, versionCounter)
      /\ entries \in [Dest -> CacheEntry \cup {NoEntry}]
  BY DEF IInv, Sound
<1>2. /\ e \in CacheEntry
      /\ e.version = versionCounter + 1
      /\ e.h = clockL + credit
      /\ versionCounter \in Nat
  BY TouchedEntry
<1>3. /\ versionCounter < MaxTouches
      /\ versionCounter' = versionCounter + 1
      /\ entries' = es
      /\ heap' = HeapAfterTouch(es, d)
      /\ UNCHANGED <<clockL, evictedSince>>
  BY DEF TouchInPlace
<1> HIDE DEF e
<1>4. /\ es[d] = e
      /\ Live(es) = Live(entries) \cup {d}
      /\ Sound(es, HeapAfterTouch(es, d), versionCounter + 1)
  BY <1>1, <1>2, TouchSound
<1>5. d \in Live(entries)
  BY DEF Cached, Live
<1>6. Seen(es) = [Seen(entries) EXCEPT ![d] = clockL + credit]
  BY <1>1, <1>2, NoEntryAssumption DEF Seen
<1>7. versionCounter + 1 \in 0 .. MaxTouches
  BY <1>2, <1>3, CacheAssumption
<1> HIDE DEF es
<1> QED
  BY <1>3, <1>4, <1>5, <1>6, <1>7

\* A fetch that lands, seen by GreedyDual: an access, an insertion into a cache
\* with room, or one that evicts.
LEMMA Landing ==
  ASSUME IInv, NEW d \in Dest, NEW credit \in Credit, FetchArrives(d, credit)
  PROVE  /\ Sound(entries', heap', versionCounter')
         /\ versionCounter' \in 0 .. MaxTouches
         /\ Cardinality(Live(entries')) <= MaxEntries
         /\ evictedSince' \in SUBSET Dest
         /\ clockL' \in Nat
         /\ LET value == [Seen(entries) EXCEPT ![d] = clockL + credit]
                live  == Live(entries) \cup {d}
            IN \/ /\ d \in Live(entries) \/ Cardinality(Live(entries)) < MaxEntries
                  /\ Live(entries') = live
                  /\ Seen(entries') = value
                  /\ UNCHANGED clockL
               \/ /\ d \notin Live(entries) /\ Cardinality(Live(entries)) >= MaxEntries
                  /\ \E victim \in live :
                       /\ \A r \in live : value[victim] <= value[r]
                       /\ Live(entries') = live \ {victim}
                       /\ Seen(entries') = [value EXCEPT ![victim] = 0]
                       /\ clockL' = value[victim]
<1> USE CacheAssumption, NoEntryAssumption
<1> DEFINE e     == Touched(d, now, credit)
           es    == [entries EXCEPT ![d] = e]
           hp    == HeapAfterTouch(es, d)
           value == [Seen(entries) EXCEPT ![d] = clockL + credit]
           live  == Live(entries) \cup {d}
<1>1. /\ Sound(entries, heap, versionCounter)
      /\ entries \in [Dest -> CacheEntry \cup {NoEntry}]
      /\ now \in Nat /\ clockL \in Nat /\ evictedSince \in SUBSET Dest
      /\ Cardinality(Live(entries)) <= MaxEntries
  BY DEF IInv, Sound, TypeOK
<1>2. /\ e \in CacheEntry
      /\ e.version = versionCounter + 1
      /\ e.h = clockL + credit
      /\ versionCounter \in Nat
  BY <1>1, TouchedEntry
<1>3. /\ versionCounter < MaxTouches
      /\ versionCounter' = versionCounter + 1
      /\ IF Cardinality(Live(es)) > MaxEntries
           THEN Evict(es, hp)
           ELSE /\ entries' = es /\ heap' = hp
                /\ UNCHANGED <<clockL, evictedSince>>
  BY DEF FetchArrives
<1> HIDE DEF e
<1>4. /\ es[d] = e
      /\ Live(es) = live
      /\ Sound(es, hp, versionCounter + 1)
  BY <1>1, <1>2, TouchSound
<1>5. Seen(es) = value
  BY <1>1, <1>2 DEF Seen
<1>6. versionCounter' \in 0 .. MaxTouches
  BY <1>2, <1>3
<1>7. /\ IsFiniteSet(Live(entries)) /\ Cardinality(Live(entries)) \in Nat
      /\ IsFiniteSet(live) /\ Cardinality(live) \in Nat
      /\ Cardinality(live) = IF d \in Live(entries) THEN Cardinality(Live(entries))
                                                    ELSE Cardinality(Live(entries)) + 1
  BY FS_Subset, FS_CardinalityType, FS_AddElement DEF Live
<1> HIDE DEF es, hp
<1>8. CASE Cardinality(live) <= MaxEntries
  <2>1. /\ entries' = es /\ heap' = hp
        /\ UNCHANGED <<clockL, evictedSince>>
    BY <1>3, <1>4, <1>7, <1>8
  <2>2. d \in Live(entries) \/ Cardinality(Live(entries)) < MaxEntries
    BY <1>7, <1>8
  <2> QED
    BY <1>1, <1>3, <1>4, <1>5, <1>6, <1>8, <2>1, <2>2
<1>9. CASE Cardinality(live) > MaxEntries
  <2>1. Evict(es, hp) /\ Live(es) # {}
    BY <1>3, <1>4, <1>9
  <2>2. d \notin Live(entries) /\ Cardinality(Live(entries)) >= MaxEntries
    BY <1>1, <1>7, <1>9
  <2>3. /\ Sound(entries', heap', versionCounter + 1)
        /\ \E victim \in Live(es) :
             /\ entries' = [es EXCEPT ![victim] = NoEntry]
             /\ clockL' = es[victim].h
             /\ \A r \in Live(es) : es[victim].h <= es[r].h
        /\ evictedSince' \in SUBSET Dest
    BY <1>1, <1>2, <1>4, <2>1, EvictSound
  <2>4. PICK victim \in live :
             /\ entries' = [es EXCEPT ![victim] = NoEntry]
             /\ clockL' = es[victim].h
             /\ \A r \in live : es[victim].h <= es[r].h
    BY <1>4, <2>3
  <2>5. /\ es \in [Dest -> CacheEntry \cup {NoEntry}]
        /\ live \subseteq Dest
        /\ \A r \in live : value[r] = es[r].h /\ es[r].h \in Nat
    BY <1>4, <1>5 DEF Sound, Live, Seen, CacheEntry
  <2>6. Live(entries') = live \ {victim}
    BY <1>4, <2>4, <2>5 DEF Live
  <2>7. Seen(entries') = [value EXCEPT ![victim] = 0]
    BY <1>5, <2>4, <2>5 DEF Seen
  <2>8. Cardinality(live \ {victim}) = Cardinality(live) - 1
    BY <1>7, FS_RemoveElement
  <2>9. Cardinality(Live(entries')) <= MaxEntries
    BY <1>1, <1>7, <2>6, <2>8
  <2> HIDE DEF value, live
  <2> QED
    BY <1>3, <1>6, <2>2, <2>3, <2>4, <2>5, <2>6, <2>7, <2>9 DEF value, live
<1> QED
  BY <1>7, <1>8, <1>9

-----------------------------------------------------------------------------
\* The nodes of the live entries number at most the entries.
LEMMA LiveNodes ==
  ASSUME NEW es, IsFiniteSet(Live(es))
  PROVE  /\ IsFiniteSet({Node(k, es[k]) : k \in Live(es)})
         /\ Cardinality({Node(k, es[k]) : k \in Live(es)}) <= Cardinality(Live(es))
<1> DEFINE nodes == {Node(k, es[k]) : k \in Live(es)}
           f     == [k \in Live(es) |-> Node(k, es[k])]
<1>1. f \in Surjection(Live(es), nodes)
  BY DEF Surjection
<1> HIDE DEF f
<1>2. IsFiniteSet(nodes) /\ Cardinality(nodes) <= Cardinality(Live(es))
  BY <1>1, FS_Surjection
<1> QED
  BY <1>2

\* A touch leaves at most HEAP_COMPACTION_RATIO nodes per entry.
LEMMA TouchBounds ==
  ASSUME IsFiniteSet(heap), NEW es, NEW d, IsFiniteSet(Live(es)), Live(es) # {}
  PROVE  /\ IsFiniteSet(HeapAfterTouch(es, d))
         /\ Cardinality(HeapAfterTouch(es, d)) <= 2 * Cardinality(Live(es))
<1> DEFINE pushed == heap \cup {Node(d, es[d])}
           nodes  == {Node(k, es[k]) : k \in Live(es)}
           size   == Cardinality(Live(es))
<1>1. size \in Nat /\ size # 0
  BY FS_EmptySet, FS_CardinalityType
<1>2. IsFiniteSet(pushed) /\ Cardinality(pushed) \in Nat
  BY FS_AddElement, FS_CardinalityType
<1>3. IsFiniteSet(nodes) /\ Cardinality(nodes) \in Nat /\ Cardinality(nodes) <= size
  BY LiveNodes, FS_CardinalityType
<1>4. HeapAfterTouch(es, d) = IF Cardinality(pushed) > 2 * size THEN nodes ELSE pushed
  BY <1>1 DEF HeapAfterTouch, HEAP_COMPACTION_RATIO
<1> HIDE DEF pushed, nodes, size
<1>5. CASE Cardinality(pushed) > 2 * size
  BY <1>1, <1>3, <1>4, <1>5 DEF size
<1>6. CASE ~(Cardinality(pushed) > 2 * size)
  BY <1>1, <1>2, <1>4, <1>6 DEF size
<1> QED
  BY <1>5, <1>6

\* A landing keeps the heap in bounds: an eviction pops one node at least.
LEMMA LandingBounds ==
  ASSUME IInv, NEW d \in Dest, NEW credit \in Credit, FetchArrives(d, credit)
  PROVE  IsFiniteSet(heap') /\ HeapBounded'
<1> USE CacheAssumption, NoEntryAssumption DEF HeapBounded, HEAP_COMPACTION_RATIO
<1> DEFINE e  == Touched(d, now, credit)
           es == [entries EXCEPT ![d] = e]
           hp == HeapAfterTouch(es, d)
<1>1. /\ Sound(entries, heap, versionCounter)
      /\ now \in Nat /\ IsFiniteSet(heap)
      /\ IsFiniteSet(Live(entries)) /\ Cardinality(Live(entries)) <= MaxEntries
      /\ Cardinality(Live(entries)) \in Nat
  BY FS_Subset, FS_CardinalityType DEF IInv, TypeOK, Live
<1>2. e \in CacheEntry /\ e.version = versionCounter + 1 /\ versionCounter \in Nat
  BY <1>1, TouchedEntry
<1>3. IF Cardinality(Live(es)) > MaxEntries
        THEN Evict(es, hp)
        ELSE heap' = hp
  BY DEF FetchArrives
<1> HIDE DEF e
<1>4. Live(es) = Live(entries) \cup {d} /\ Sound(es, hp, versionCounter + 1)
  BY <1>1, <1>2, TouchSound
<1> HIDE DEF es
<1>5. /\ IsFiniteSet(Live(es)) /\ Cardinality(Live(es)) \in Nat
      /\ Cardinality(Live(es)) <= Cardinality(Live(entries)) + 1
  <2>1. /\ IsFiniteSet(Live(es))
        /\ Cardinality(Live(es)) = IF d \in Live(entries) THEN Cardinality(Live(entries))
                                                          ELSE Cardinality(Live(entries)) + 1
    BY <1>1, <1>4, FS_AddElement
  <2> HIDE DEF hp
  <2> QED
    BY <1>1, <2>1, FS_CardinalityType
<1>6. Live(es) # {}
  BY <1>4
<1>7. /\ IsFiniteSet(hp) /\ Cardinality(hp) <= 2 * Cardinality(Live(es))
      /\ Cardinality(hp) \in Nat
  BY <1>1, <1>5, <1>6, TouchBounds, FS_CardinalityType
<1> HIDE DEF hp
<1>8. CASE Cardinality(Live(es)) > MaxEntries
  <2>1. PICK top \in hp : heap' \subseteq hp \ {top}
    BY <1>2, <1>3, <1>4, <1>6, <1>8, EvictSound
  <2>2. IsFiniteSet(hp \ {top}) /\ Cardinality(hp \ {top}) = Cardinality(hp) - 1
    BY <1>7, <2>1, FS_RemoveElement
  <2>3. /\ IsFiniteSet(heap') /\ Cardinality(heap') <= Cardinality(hp \ {top})
        /\ Cardinality(heap') \in Nat
    BY <2>1, <2>2, FS_Subset, FS_CardinalityType
  <2> QED
    BY <1>1, <1>5, <1>7, <2>2, <2>3
<1>9. CASE ~(Cardinality(Live(es)) > MaxEntries)
  BY <1>3, <1>5, <1>7, <1>9
<1> QED
  BY <1>8, <1>9

\* A hit or a revalidation keeps the heap in bounds.
LEMMA InPlaceBounds ==
  ASSUME IInv, NEW d \in Dest, Cached(d), NEW at \in Nat, NEW credit \in Credit,
         TouchInPlace(d, at, credit)
  PROVE  IsFiniteSet(heap') /\ HeapBounded'
<1> DEFINE es == [entries EXCEPT ![d] = Touched(d, at, credit)]
<1>1. entries' = es /\ heap' = HeapAfterTouch(es, d)
  BY DEF TouchInPlace
<1> HIDE DEF es
<1>2. Live(es) = Live(entries) /\ Live(entries) # {}
  BY <1>1, InPlace
<1>3. /\ IsFiniteSet(Live(entries)) /\ Cardinality(Live(entries)) <= MaxEntries
      /\ Cardinality(Live(entries)) \in Nat /\ IsFiniteSet(heap)
  BY CacheAssumption, FS_Subset, FS_CardinalityType DEF IInv, TypeOK, Live
<1>4. /\ IsFiniteSet(heap') /\ Cardinality(heap') <= 2 * Cardinality(Live(entries))
      /\ Cardinality(heap') \in Nat
  BY <1>1, <1>2, <1>3, TouchBounds, FS_CardinalityType
<1> QED
  BY <1>3, <1>4, CacheAssumption DEF HeapBounded, HEAP_COMPACTION_RATIO

-----------------------------------------------------------------------------
\* The parts of the state an access works on.
Kept(es, hp, vc) ==
  /\ Sound(es, hp, vc)
  /\ vc \in 0 .. MaxTouches
  /\ Cardinality(Live(es)) <= MaxEntries
  /\ IsFiniteSet(hp)
  /\ Cardinality(hp) <= HEAP_COMPACTION_RATIO * MaxEntries + 1

KeptInv == Kept(entries, heap, versionCounter) /\ clockL \in Nat /\ evictedSince \in SUBSET Dest

\* A hit or a revalidation keeps them.
LEMMA InPlaceKeeps ==
  ASSUME IInv, NEW d \in Dest, Cached(d), NEW at \in Nat, NEW credit \in Credit,
         TouchInPlace(d, at, credit)
  PROVE  KeptInv'
<1>1. /\ Sound(entries', heap', versionCounter')
      /\ versionCounter' \in 0 .. MaxTouches
      /\ Live(entries') = Live(entries)
      /\ UNCHANGED <<clockL, evictedSince>>
  BY InPlace
<1>2. IsFiniteSet(heap') /\ HeapBounded'
  BY InPlaceBounds
<1> QED
  BY <1>1, <1>2 DEF KeptInv, Kept, IInv, TypeOK, HeapBounded

\* A landing keeps them.
LEMMA LandingKeeps ==
  ASSUME IInv, NEW d \in Dest, NEW credit \in Credit, FetchArrives(d, credit)
  PROVE  KeptInv'
<1>1. /\ Sound(entries', heap', versionCounter')
      /\ versionCounter' \in 0 .. MaxTouches
      /\ Cardinality(Live(entries')) <= MaxEntries
      /\ evictedSince' \in SUBSET Dest
      /\ clockL' \in Nat
  BY Landing
<1>2. IsFiniteSet(heap') /\ HeapBounded'
  BY LandingBounds
<1> QED
  BY <1>1, <1>2 DEF KeptInv, Kept, HeapBounded

\* The rest of IInv: clock, fetches and revalidations.
BookKept ==
  /\ now \in 0 .. MaxTime
  /\ pending \in [Dest -> 0 .. MaxPending]
  /\ revalidating \in SUBSET Dest
  /\ refreshing \in [Dest -> Nat]
  /\ \A d \in Dest : refreshing[d] <= 1 /\ (refreshing[d] > 0 => d \in revalidating)

LEMMA Parts == IInv <=> KeptInv /\ BookKept
BY DEF IInv, KeptInv, Kept, BookKept, TypeOK, Sound, HeapBounded

\* IInv holds in every reachable state.
THEOREM Inductive == Spec => []IInv
<1>1. Init => IInv
  <2> SUFFICES ASSUME Init PROVE IInv
    OBVIOUS
  <2>1. Live(entries) = {} /\ heap = {}
    BY DEF Init, Live
  <2>2. IsFiniteSet({}) /\ Cardinality({}) = 0
    BY FS_EmptySet
  <2>3. Sound(entries, heap, versionCounter)
    BY <2>1 DEF Init, Sound
  <2>4. KeptInv
    BY <2>1, <2>2, <2>3, CacheAssumption DEF Init, KeptInv, Kept, HEAP_COMPACTION_RATIO
  <2>5. BookKept
    BY CacheAssumption DEF Init, BookKept
  <2> QED
    BY <2>4, <2>5, Parts
<1>2. IInv /\ [Next]_vars => IInv'
  <2> SUFFICES ASSUME IInv, [Next]_vars PROVE KeptInv' /\ BookKept'
    BY DEF IInv, KeptInv, Kept, BookKept, TypeOK, Sound, HeapBounded
  <2> KeptInv /\ BookKept
    BY Parts
  <2>0. now \in Nat /\ \A d \in Dest : Cached(d) => entries[d].fetchedAt \in Nat /\ entries[d].credit \in Credit
    BY CacheAssumption DEF BookKept, KeptInv, Kept, Sound, Cached, CacheEntry
  <2>1. ASSUME NEW d \in Dest, ServeFresh(d) PROVE KeptInv' /\ BookKept'
    BY <2>0, <2>1, InPlaceKeeps DEF ServeFresh, BookKept
  <2>2. ASSUME NEW d \in Dest, ServeStale(d) PROVE KeptInv' /\ BookKept'
    <3>1. KeptInv'
      BY <2>0, <2>2, InPlaceKeeps DEF ServeStale
    <3>2. BookKept'
      BY <2>2 DEF ServeStale, Revalidates, BookKept
    <3> QED
      BY <3>1, <3>2
  <2>3. ASSUME NEW d \in Dest, Miss(d) \/ FetchFails(d) \/ RevalidationFails(d)
        PROVE KeptInv' /\ BookKept'
    <3>1. UNCHANGED eviction
      BY <2>3 DEF Miss, FetchFails, RevalidationFails
    <3>2. BookKept'
      BY <2>3, CacheAssumption DEF Miss, FetchFails, RevalidationFails, BookKept
    <3> QED
      BY <3>1, <3>2 DEF eviction, KeptInv
  <2>4. ASSUME NEW d \in Dest, NEW credit \in Credit, FetchArrives(d, credit)
        PROVE KeptInv' /\ BookKept'
    <3>1. pending' = [pending EXCEPT ![d] = @ - 1] /\ UNCHANGED <<now, revalidating, refreshing>>
          /\ pending[d] > 0
      BY <2>4 DEF FetchArrives
    <3>2. BookKept'
      BY <3>1, CacheAssumption DEF BookKept
    <3> QED
      BY <2>4, <3>2, LandingKeeps
  <2>5. ASSUME NEW d \in Dest, NEW credit \in Credit, RevalidationArrives(d, credit)
        PROVE KeptInv' /\ BookKept'
    <3>1. CASE Cached(d)
      BY <2>0, <2>5, <3>1, InPlaceKeeps DEF RevalidationArrives, BookKept
    <3>2. CASE ~Cached(d)
      BY <2>5, <3>2 DEF RevalidationArrives, BookKept, eviction, KeptInv
    <3> QED
      BY <3>1, <3>2
  <2>6. ASSUME NEW d \in Dest, RevalidationEnds(d) PROVE KeptInv' /\ BookKept'
    BY <2>6 DEF RevalidationEnds, BookKept, KeptInv
  <2>7. CASE Tick
    BY <2>7, CacheAssumption DEF Tick, BookKept, KeptInv, eviction
  <2>8. CASE UNCHANGED vars
    BY <2>8 DEF vars, eviction, BookKept, KeptInv
  <2> QED
    BY <2>1, <2>2, <2>3, <2>4, <2>5, <2>6, <2>7, <2>8 DEF Next, Call, Fetch, Revalidate
<1> QED
  BY <1>1, <1>2, PTL DEF Spec

\* The types are right.
THEOREM TypeCorrect == Spec => []TypeOK
<1>1. IInv => TypeOK
  BY DEF IInv
<1> QED
  BY <1>1, Inductive, PTL

\* However entries are touched, evicted and compacted, each live one has its
\* current node in the heap.
THEOREM NodeForEveryEntry == Spec => []NodePerEntry
<1>1. IInv => NodePerEntry
  BY DEF IInv, Sound, Live, NodePerEntry, Cached
<1> QED
  BY <1>1, Inductive, PTL

\* The heap never outgrows twice the capacity by more than a node.
THEOREM HeapStaysBounded == Spec => []HeapBounded
<1>1. IInv => HeapBounded
  BY DEF IInv
<1> QED
  BY <1>1, Inductive, PTL

\* One background revalidation per destination, across evictions too.
THEOREM OneRevalidation == Spec => []SingleRevalidation
<1>1. IInv => SingleRevalidation
  BY DEF IInv, SingleRevalidation
<1> QED
  BY <1>1, Inductive, PTL

-----------------------------------------------------------------------------
\* A step of the cache is an access, an insertion, an insertion that evicts,
\* or a stutter of GreedyDual.
LEMMA Simulation == IInv /\ [Next]_vars => [GD!Next]_(GD!vars)
<1> SUFFICES ASSUME IInv, Next PROVE GD!Next \/ UNCHANGED GD!vars
  BY DEF vars, eviction, GD!vars, Live, Cached
<1> DEFINE hh == [d \in Dest |-> IF Cached(d) THEN entries[d].h ELSE 0]
<1>0. hh = Seen(entries) /\ hh' = Seen(entries')
  BY DEF Seen, Cached
<1>1. ASSUME NEW d \in Dest, NEW at \in Nat, NEW credit \in Credit,
             Cached(d), TouchInPlace(d, at, credit)
      PROVE  GD!Next
  <2>1. GD!Access(d, credit)
    <3>1. /\ d \in Live(entries)
          /\ Live(entries') = Live(entries)
          /\ Seen(entries') = [Seen(entries) EXCEPT ![d] = clockL + credit]
          /\ UNCHANGED clockL
      BY <1>1, InPlace
    <3> QED
      BY <1>0, <3>1 DEF GD!Access, GD!Valued
  <2> QED
    BY <2>1 DEF GD!Next
<1>2. ASSUME NEW d \in Dest, NEW credit \in Credit, FetchArrives(d, credit)
      PROVE  GD!Next
  <2> DEFINE value == [Seen(entries) EXCEPT ![d] = clockL + credit]
             live  == Live(entries) \cup {d}
  <2>1. \/ /\ d \in Live(entries) \/ Cardinality(Live(entries)) < MaxEntries
           /\ Live(entries') = live
           /\ Seen(entries') = value
           /\ UNCHANGED clockL
        \/ /\ d \notin Live(entries) /\ Cardinality(Live(entries)) >= MaxEntries
           /\ \E victim \in live :
                /\ \A r \in live : value[victim] <= value[r]
                /\ Live(entries') = live \ {victim}
                /\ Seen(entries') = [value EXCEPT ![victim] = 0]
                /\ clockL' = value[victim]
    BY <1>2, Landing
  <2>2. value = GD!Valued(d, credit)
    BY <1>0 DEF GD!Valued
  <2>3. Cardinality(Live(entries)) \in Nat /\ MaxEntries \in Nat
    BY CacheAssumption, FS_Subset, FS_CardinalityType DEF Live
  <2>0. GD!HasRoom <=> Cardinality(Live(entries)) < MaxEntries
    BY Zenon DEF GD!HasRoom, GD!Cardinality, Cardinality, GD!IsFiniteSet, IsFiniteSet
  <2> HIDE DEF value
  <2>4. CASE d \in Live(entries) /\ Live(entries') = live /\ Seen(entries') = value /\ UNCHANGED clockL
    <3>1. GD!Access(d, credit)
      BY <1>0, <2>2, <2>4 DEF GD!Access
    <3> QED
      BY <3>1 DEF GD!Next
  <2>5. CASE /\ d \notin Live(entries) /\ Cardinality(Live(entries)) < MaxEntries
             /\ Live(entries') = live /\ Seen(entries') = value /\ UNCHANGED clockL
    <3>1. GD!Insert(d, credit)
      BY <1>0, <2>2, <2>5, <2>0 DEF GD!Insert
    <3> QED
      BY <3>1 DEF GD!Next
  <2>6. CASE /\ d \notin Live(entries) /\ Cardinality(Live(entries)) >= MaxEntries
             /\ \E victim \in live :
                  /\ \A r \in live : value[victim] <= value[r]
                  /\ Live(entries') = live \ {victim}
                  /\ Seen(entries') = [value EXCEPT ![victim] = 0]
                  /\ clockL' = value[victim]
    <3>1. PICK victim \in live :
                  /\ \A r \in live : value[victim] <= value[r]
                  /\ Live(entries') = live \ {victim}
                  /\ Seen(entries') = [value EXCEPT ![victim] = 0]
                  /\ clockL' = value[victim]
      BY <2>6
    <3>2. ~GD!HasRoom
      BY <2>3, <2>6, <2>0
    <3>3. victim \in GD!LeastValuable(live, value)
      BY <3>1 DEF GD!LeastValuable
    <3>4. GD!InsertEvicting(d, credit)
      BY <1>0, <2>2, <2>6, <3>1, <3>2, <3>3 DEF GD!InsertEvicting
    <3> QED
      BY <3>4 DEF GD!Next
  <2> QED
    BY <2>1, <2>4, <2>5, <2>6
<1>3. \A d \in Dest : Cached(d) => entries[d].fetchedAt \in Nat /\ entries[d].credit \in Credit
  BY DEF IInv, TypeOK, Cached, CacheEntry
<1>4. now \in Nat
  BY CacheAssumption DEF IInv, TypeOK
<1>5. ASSUME NEW d \in Dest, ServeFresh(d) \/ ServeStale(d) PROVE GD!Next
  BY <1>1, <1>3, <1>5 DEF ServeFresh, ServeStale
<1>6. ASSUME NEW d \in Dest, NEW credit \in Credit, RevalidationArrives(d, credit)
      PROVE GD!Next \/ UNCHANGED GD!vars
  <2>1. CASE Cached(d)
    BY <1>1, <1>4, <1>6, <2>1 DEF RevalidationArrives
  <2>2. CASE ~Cached(d)
    BY <1>6, <2>2 DEF RevalidationArrives, eviction, GD!vars, Live, Cached
  <2> QED
    BY <2>1, <2>2
<1>7. ASSUME NEW d \in Dest,
             Miss(d) \/ FetchFails(d) \/ RevalidationFails(d) \/ RevalidationEnds(d)
      PROVE  UNCHANGED GD!vars
  BY <1>7 DEF Miss, FetchFails, RevalidationFails, RevalidationEnds, eviction, GD!vars, Live, Cached
<1>8. ASSUME Tick PROVE UNCHANGED GD!vars
  BY <1>8 DEF Tick, eviction, GD!vars, Live, Cached
<1> QED
  BY <1>2, <1>5, <1>6, <1>7, <1>8 DEF Next, Call, Fetch, Revalidate

\* The initial states map to initial states, and every step to one of the
\* policy.
THEOREM Refinement == Spec => ImplementsGreedyDual
<1>1. Init => GD!Init
  BY DEF Init, GD!Init, Live, Cached
<1> QED
  BY <1>1, Simulation, Inductive, PTL DEF Spec, ImplementsGreedyDual, GD!Spec

-----------------------------------------------------------------------------
(* What the policy guarantees, and so the cache.                           *)

\* One step of the policy, from residents res worth val and the clock at L.
Decision(res, val, L, res1, val1, L1) ==
  \/ res1 = res /\ val1 = val /\ L1 = L
  \/ \E d \in Dest, credit \in Credit :
       LET value == [val EXCEPT ![d] = L + credit] IN
         \/ res1 = res \cup {d} /\ val1 = value /\ L1 = L
         \/ \E victim \in res \cup {d} :
              /\ \A r \in res \cup {d} : value[victim] <= value[r]
              /\ res1 = (res \cup {d}) \ {victim}
              /\ val1 = [value EXCEPT ![victim] = 0]
              /\ L1 = value[victim]

LEMMA FloorKept ==
  ASSUME NEW res \in SUBSET Dest, NEW val \in [Dest -> Nat], NEW L \in Nat,
         \A d \in res : L <= val[d],
         NEW res1, NEW val1, NEW L1, Decision(res, val, L, res1, val1, L1)
  PROVE  L <= L1 /\ \A d \in res1 : L1 <= val1[d]
<1>1. CASE res1 = res /\ val1 = val /\ L1 = L
  BY <1>1
<1>2. ASSUME NEW d \in Dest, NEW credit \in Credit,
             NEW value, value = [val EXCEPT ![d] = L + credit],
             \/ res1 = res \cup {d} /\ val1 = value /\ L1 = L
             \/ \E victim \in res \cup {d} :
                  /\ \A r \in res \cup {d} : value[victim] <= value[r]
                  /\ res1 = (res \cup {d}) \ {victim}
                  /\ val1 = [value EXCEPT ![victim] = 0]
                  /\ L1 = value[victim]
      PROVE  L <= L1 /\ \A e \in res1 : L1 <= val1[e]
  <2>1. value \in [Dest -> Nat] /\ \A r \in res \cup {d} : L <= value[r]
    BY <1>2, CacheAssumption
  <2>2. CASE res1 = res \cup {d} /\ val1 = value /\ L1 = L
    BY <2>1, <2>2
  <2>3. ASSUME NEW victim \in res \cup {d},
               \A r \in res \cup {d} : value[victim] <= value[r],
               res1 = (res \cup {d}) \ {victim},
               val1 = [value EXCEPT ![victim] = 0],
               L1 = value[victim]
        PROVE  L <= L1 /\ \A e \in res1 : L1 <= val1[e]
    BY <2>1, <2>3
  <2> QED
    BY <1>2, <2>2, <2>3
<1> QED
  BY <1>1, <1>2 DEF Decision

LEMMA Decides ==
  ASSUME [GD!Next]_(GD!vars)
  PROVE  Decision(Live(entries), Seen(entries), clockL, Live(entries'), Seen(entries'), clockL')
<1> DEFINE hh == [d \in Dest |-> IF Cached(d) THEN entries[d].h ELSE 0]
<1>1. hh = Seen(entries) /\ hh' = Seen(entries')
  BY DEF Seen, Cached
<1>2. Live(entries)' = Live(entries')
  BY DEF Live
<1>3. CASE UNCHANGED GD!vars
  BY <1>1, <1>2, <1>3 DEF GD!vars, Decision
<1>4. ASSUME NEW d \in Dest, NEW credit \in Credit,
             GD!Access(d, credit) \/ GD!Insert(d, credit) \/ GD!InsertEvicting(d, credit)
      PROVE  Decision(Live(entries), Seen(entries), clockL, Live(entries'), Seen(entries'), clockL')
  <2> DEFINE value == [Seen(entries) EXCEPT ![d] = clockL + credit]
  <2>1. value = GD!Valued(d, credit)
    BY <1>1 DEF GD!Valued
  <2>2. \/ /\ Live(entries') = Live(entries) \cup {d}
           /\ Seen(entries') = value /\ clockL' = clockL
        \/ \E victim \in Live(entries) \cup {d} :
             /\ \A r \in Live(entries) \cup {d} : value[victim] <= value[r]
             /\ Live(entries') = (Live(entries) \cup {d}) \ {victim}
             /\ Seen(entries') = [value EXCEPT ![victim] = 0]
             /\ clockL' = value[victim]
    <3> HIDE DEF value
    <3>1. CASE GD!Access(d, credit) \/ GD!Insert(d, credit)
      BY <1>1, <1>2, <2>1, <3>1 DEF GD!Access, GD!Insert
    <3>2. CASE GD!InsertEvicting(d, credit)
      BY <1>1, <1>2, <2>1, <3>2 DEF GD!InsertEvicting, GD!LeastValuable
    <3> QED
      BY <1>4, <3>1, <3>2
  <2> QED
    BY <2>2 DEF Decision
<1> QED
  BY <1>3, <1>4 DEF GD!Next

\* The least value among the residents, as an invariant of the cache.
Floored == \A d \in Live(entries) : clockL <= Seen(entries)[d]

LEMMA FloorStep ==
  ASSUME IInv, Floored, [Next]_vars
  PROVE  clockL <= clockL' /\ Floored'
<1>1. clockL \in Nat /\ Live(entries) \in SUBSET Dest
  BY DEF IInv, TypeOK, Live
<1>2. Seen(entries) \in [Dest -> Nat]
  BY DEF IInv, TypeOK, CacheEntry, Seen
<1>3. Decision(Live(entries), Seen(entries), clockL, Live(entries'), Seen(entries'), clockL')
  BY Simulation, Decides
<1>4. clockL <= clockL' /\ \A d \in Live(entries') : clockL' <= Seen(entries')[d]
  BY <1>1, <1>2, <1>3, FloorKept DEF Floored
<1> QED
  BY <1>4 DEF Floored, Live, Seen

LEMMA FloorInductive == Spec => []Floored
<1>1. Init => Floored
  BY DEF Init, Floored, Live
<1>2. IInv /\ Floored /\ [Next]_vars => Floored'
  BY FloorStep
<1> QED
  BY <1>1, <1>2, Inductive, PTL DEF Spec

\* No cached entry is worth less than the clock, the value of the last victim
\* (evictIfNeeded and computeH): nothing was evicted that was worth more than
\* anything that is still there.
THEOREM Floor == Spec => []GD!ClockIsFloor
<1>1. Floored => GD!ClockIsFloor
  BY DEF Floored, GD!ClockIsFloor, Seen, Cached, Live
<1> QED
  BY <1>1, FloorInductive, PTL

\* The clock never runs backwards: a victim is worth at least the clock, being
\* a cached entry or the newcomer, which starts from the clock.
THEOREM Monotone == Spec => GD!ClockMonotone
<1>1. IInv /\ Floored /\ [Next]_vars => [clockL <= clockL']_(GD!vars)
  BY FloorStep
<1> QED
  BY <1>1, FloorInductive, Inductive, PTL DEF Spec, GD!ClockMonotone

\* The cache never keeps more entries than its capacity: evictIfNeeded makes
\* up for every insertion into a full cache.
THEOREM Capacity == Spec => []GD!WithinCapacity
<1>1. IInv => Cardinality(Live(entries)) <= MaxEntries
  BY DEF IInv
<1>2. GD!WithinCapacity <=> Cardinality(Live(entries)) <= MaxEntries
  BY Zenon DEF GD!WithinCapacity, GD!Cardinality, Cardinality, GD!IsFiniteSet, IsFiniteSet
<1> QED
  BY <1>1, <1>2, Inductive, PTL

=============================================================================
