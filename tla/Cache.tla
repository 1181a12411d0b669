--------------------------------- MODULE Cache ---------------------------------
(***************************************************************************)
(* withCache (src/src/middleware/withCache.ts): cost-aware eviction over a *)
(* lazily cleaned heap, stale-while-revalidate, and fetches that land in   *)
(* any order.                                                              *)
(*                                                                         *)
(* The product costMs * confidence an entry is valued by, an average of    *)
(* measured latencies weighted by what the oracle reports, is any member of*)
(* Credit.  The score itself is left out.                                  *)
(***************************************************************************)
EXTENDS Integers, FiniteSets

CONSTANTS
  Dest,
  Credit,
  NoEntry,
  TtlMs,        \* ttlMs, in ticks
  StaleMs,      \* staleMs, in ticks
  MaxEntries,   \* maxEntries
  MaxPending,   \* bound on the fetches in flight for a destination
  MaxTouches,   \* bound on versionCounter
  MaxTime       \* bound on the clock

ASSUME CacheAssumption ==
  /\ IsFiniteSet(Dest)
  /\ Credit \subseteq Nat
  /\ TtlMs \in Nat /\ StaleMs \in Nat
  /\ MaxEntries \in Nat \ {0}
  /\ MaxPending \in Nat /\ MaxTouches \in Nat /\ MaxTime \in Nat

VARIABLES
  now,
  entries,
  heap,            \* the nodes of MinHeap
  versionCounter,
  clockL,
  pending,         \* the freshFetch calls awaiting the inner oracle
  revalidating,
  refreshing,      \* the revalidate calls awaiting the inner oracle
  evictedSince     \* history: evicted while a revalidation was in flight

eviction == <<entries, heap, versionCounter, clockL, evictedSince>>
vars == <<now, eviction, pending, revalidating, refreshing>>

HEAP_COMPACTION_RATIO == 2

CacheEntry == [fetchedAt : Nat, credit : Credit, h : Nat, version : Nat]
HeapNode   == [destination : Dest, h : Nat, version : Nat]

ASSUME NoEntryAssumption == NoEntry \notin CacheEntry

TypeOK ==
  /\ now \in 0 .. MaxTime
  /\ entries \in [Dest -> CacheEntry \cup {NoEntry}]
  /\ heap \in SUBSET HeapNode
  /\ versionCounter \in 0 .. MaxTouches
  /\ clockL \in Nat
  /\ pending \in [Dest -> 0 .. MaxPending]
  /\ revalidating \in SUBSET Dest
  /\ refreshing \in [Dest -> Nat]
  /\ evictedSince \in SUBSET Dest

Init ==
  /\ now = 0
  /\ entries = [d \in Dest |-> NoEntry]
  /\ heap = {}
  /\ versionCounter = 0
  /\ clockL = 0
  /\ pending = [d \in Dest |-> 0]
  /\ revalidating = {}
  /\ refreshing = [d \in Dest |-> 0]
  /\ evictedSince = {}

-----------------------------------------------------------------------------
Live(es) == {d \in Dest : es[d] # NoEntry}
Cached(d) == entries[d] # NoEntry
freshUntil(d) == entries[d].fetchedAt + TtlMs
staleUntil(d) == entries[d].fetchedAt + TtlMs + StaleMs

\* The version of d's next touch; a mutant counts per entry, from 1.
EntryVersion(d) == IF Cached(d) THEN entries[d].version + 1 ELSE 1
NextVersion(d)  == versionCounter + 1

computeH(credit) == clockL + credit

Touched(d, at, credit) ==
  [fetchedAt |-> at, credit |-> credit, h |-> computeH(credit), version |-> NextVersion(d)]

Node(d, entry) == [destination |-> d, h |-> entry.h, version |-> entry.version]

\* Mutants: the heap is never rebuilt; it is rebuilt without the new node.
HeapUncompacted(es, d) == heap \cup {Node(d, es[d])}
HeapMissingTouched(es, d) ==
  IF Cardinality(heap) >= HEAP_COMPACTION_RATIO * Cardinality(Live(es))
    THEN {Node(k, es[k]) : k \in Live(es) \ {d}}
    ELSE heap \cup {Node(d, es[d])}

\* touch, for entries es in which d's entry has its new h and version: push
\* its node, and rebuild the heap if it has grown out of proportion.
HeapAfterTouch(es, d) ==
  LET pushed == heap \cup {Node(d, es[d])}
      size   == Cardinality(Live(es))
  IN IF Cardinality(pushed) > HEAP_COMPACTION_RATIO * (IF size = 0 THEN 1 ELSE size)
       THEN {Node(k, es[k]) : k \in Live(es)}
       ELSE pushed

\* The entry of d is read or replaced in place.
TouchInPlace(d, at, credit) ==
  LET es == [entries EXCEPT ![d] = Touched(d, at, credit)]
  IN /\ versionCounter < MaxTouches
     /\ versionCounter' = versionCounter + 1
     /\ entries' = es
     /\ heap' = HeapAfterTouch(es, d)
     /\ UNCHANGED <<clockL, evictedSince>>

\* evictIfNeeded on entries es, at most one too many, and heap hp: pop until a
\* node is current.  Nodes of equal h pop in any order.
Evict(es, hp) ==
  LET current == {n \in hp : es[n.destination] # NoEntry
                             /\ es[n.destination].version = n.version}
  IN IF current = {}
       THEN /\ entries' = es /\ heap' = {}
            /\ UNCHANGED <<clockL, evictedSince>>
       ELSE \E top \in current :
            \E ties \in SUBSET {n \in hp \ current : n.h = top.h} :
              /\ \A n \in current : top.h <= n.h
              /\ heap' = {n \in hp : n.h >= top.h} \ (ties \cup {top})
              /\ entries' = [es EXCEPT ![top.destination] = NoEntry]
              /\ clockL' = top.h
              /\ evictedSince' = IF refreshing[top.destination] > 0
                                   THEN evictedSince \cup {top.destination}
                                   ELSE evictedSince

-----------------------------------------------------------------------------
ServeFresh(d) ==
  /\ Cached(d)
  /\ now < freshUntil(d)
  /\ TouchInPlace(d, entries[d].fetchedAt, entries[d].credit)
  /\ UNCHANGED <<now, pending, revalidating, refreshing>>

\* The single-flight check of a stale hit, and a mutant without it.
AlwaysRevalidates(d) == TRUE
Revalidates(d)       == d \notin revalidating

ServeStale(d) ==
  /\ Cached(d)
  /\ now >= freshUntil(d)
  /\ now < staleUntil(d)
  /\ TouchInPlace(d, entries[d].fetchedAt, entries[d].credit)
  /\ IF Revalidates(d)
       THEN /\ revalidating' = revalidating \cup {d}
            /\ refreshing' = [refreshing EXCEPT ![d] = @ + 1]
       ELSE UNCHANGED <<revalidating, refreshing>>
  /\ UNCHANGED <<now, pending>>

\* Never cached, or expired for good: freshFetch starts.
Miss(d) ==
  /\ Cached(d) => now >= staleUntil(d)
  /\ pending[d] < MaxPending
  /\ pending' = [pending EXCEPT ![d] = @ + 1]
  /\ UNCHANGED <<now, eviction, revalidating, refreshing>>

\* freshFetch resumes with the inner oracle's answer.
FetchArrives(d, credit) ==
  LET es == [entries EXCEPT ![d] = Touched(d, now, credit)]
      hp == HeapAfterTouch(es, d)
  IN /\ pending[d] > 0
     /\ versionCounter < MaxTouches
     /\ versionCounter' = versionCounter + 1
     /\ IF Cardinality(Live(es)) > MaxEntries
          THEN Evict(es, hp)
          ELSE /\ entries' = es /\ heap' = hp
               /\ UNCHANGED <<clockL, evictedSince>>
     /\ pending' = [pending EXCEPT ![d] = @ - 1]
     /\ UNCHANGED <<now, revalidating, refreshing>>

FetchFails(d) ==
  /\ pending[d] > 0
  /\ pending' = [pending EXCEPT ![d] = @ - 1]
  /\ UNCHANGED <<now, eviction, revalidating, refreshing>>

\* revalidate's `then`.
RevalidationArrives(d, credit) ==
  /\ refreshing[d] > 0
  /\ refreshing' = [refreshing EXCEPT ![d] = @ - 1]
  /\ IF Cached(d) THEN TouchInPlace(d, now, credit) ELSE UNCHANGED eviction
  /\ UNCHANGED <<now, pending, revalidating>>

\* revalidate's `catch`.
RevalidationFails(d) ==
  /\ refreshing[d] > 0
  /\ refreshing' = [refreshing EXCEPT ![d] = @ - 1]
  /\ UNCHANGED <<now, eviction, pending, revalidating>>

\* Its `finally`, in a turn of its own.
RevalidationEnds(d) ==
  /\ d \in revalidating
  /\ refreshing[d] = 0
  /\ revalidating' = revalidating \ {d}
  /\ evictedSince' = evictedSince \ {d}
  /\ UNCHANGED <<now, entries, heap, versionCounter, clockL, pending, refreshing>>

Tick ==
  /\ now < MaxTime
  /\ now' = now + 1
  /\ UNCHANGED <<eviction, pending, revalidating, refreshing>>

Call(d) == ServeFresh(d) \/ ServeStale(d) \/ Miss(d)
Fetch(d) == FetchFails(d) \/ \E credit \in Credit : FetchArrives(d, credit)
Revalidate(d) == \/ RevalidationFails(d)
                 \/ \E credit \in Credit : RevalidationArrives(d, credit)
                 \/ RevalidationEnds(d)

Next == \/ \E d \in Dest : Call(d) \/ Fetch(d) \/ Revalidate(d)
        \/ Tick

Spec == Init /\ [][Next]_vars

-----------------------------------------------------------------------------
(* Properties                                                              *)

\* Lazy deletion never loses an entry: whatever was touched, compacted and
\* popped, each live entry has its current node in the heap, so an eviction
\* finds its victim and no entry becomes immortal.
NodePerEntry == \A d \in Dest : Cached(d) => Node(d, entries[d]) \in heap

\* The heap stays proportional to the capacity, however long the cache runs
\* and however many nodes its evictions strand.
HeapBounded == Cardinality(heap) <= HEAP_COMPACTION_RATIO * MaxEntries + 1

\* At most one background revalidation per destination, also across an
\* eviction and re-insertion while it is in flight.
SingleRevalidation == \A d \in Dest : refreshing[d] <= 1

\* withCache implements the GreedyDual policy: heap, versions, compaction and
\* concurrent fetches decide on the same victims and clock as the policy does.
GD == INSTANCE GreedyDual WITH
        resident <- Live(entries),
        h        <- [d \in Dest |-> IF Cached(d) THEN entries[d].h ELSE 0]

ImplementsGreedyDual == GD!Spec

-----------------------------------------------------------------------------
(* What the documentation says of the middleware and the code does not do. *)

\* withCache.ts:210, "If the entry is evicted by capacity pressure while a
\* revalidation for it is in flight, the revalidation's result is dropped".
EvictedRevalidationDropped ==
  [][\A d \in evictedSince : refreshing'[d] < refreshing[d] => entries' = entries]_vars

=============================================================================
