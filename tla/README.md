# A verification project for grydlock-oracle-adapter

TLA+ models of the adapter's oracles, middleware, validators and codecs, the TLC
configurations that check them on small instances, and TLAPS proofs of their
most important properties for every value of the constants.

Everything here is translated from the TypeScript sources under `src/src/`.
Paths below are given without that prefix (`CircuitBreakerOracle.ts` is
`src/src/CircuitBreakerOracle.ts`). `PROJECT.json` maps each definition to the
lines it models.

1. [The system](#1-the-system)
2. [From code to model](#2-from-code-to-model)
3. [The models](#3-the-models)
4. [What the runs check](#4-what-the-runs-check)
5. [What is proved](#5-what-is-proved)
6. [Where the code and its documentation disagree](#6-where-the-code-and-its-documentation-disagree)
7. [What is not modelled](#7-what-is-not-modelled)
8. [What is left](#8-what-is-left)

## 1. The system

The adapter is a library without a server: a chain of `RiskOracle`s, each with
a method `getScore(destination): Promise<number>`, wrapped one around another.
A `DetailedRiskOracle` answers with metadata, a `CancellableRiskOracle` takes
an `AbortSignal`. All state is in memory and lost with the process; there is
nothing to recover. All concurrency is that of one event loop: a call runs
synchronously to its first `await`, and the reactions to settled promises,
timers, aborted signals and channel messages interleave in any order that the
loop allows. Only `withRateLimit` talks to other contexts (tabs, workers), by
`BroadcastChannel`.

| Component | State | Operations | Talks to |
|---|---|---|---|
| `CircuitBreakerOracle` | `state`, `failures`, `nextAttempt`, `halfOpenProbe` | `getScore`, `getScoreCancellable`, `getState` | wrapped oracle, fallback producer, caller's signal |
| `CoalescingOracle` | one map of flights per pool, a reference count and an `AbortController` per cancellable flight | `getScore`, `getScoreCancellable` | inner oracle, callers' signals |
| `withRateLimit` | per-context bucket counters, time of the last broadcast | `getScore`, the channel's listener | next oracle, the other contexts |
| `withCache` | entries, a heap of versioned nodes, a clock, the destinations being revalidated | `getScore`, `getScoreDetailed` | next oracle, in the foreground and in the background |
| `RiskOracleAggregator` | reputations | `getScore`, `getScoreDetailed` | all sources at once, each under `withTimeout` |
| `BatchRiskOracleAdapter` | a queue, the slots in use, one timer, the latest latencies | `getScores` | wrapped oracle |
| `FallbackOracle` | discounted pulls and successes of each tier | `getScore`, `getScoreDetailed`, `getScoreCancellable` | tiers in the order of their rank, an observer, `getState` of a breaker |
| `withTimeout` | a timer and an `AbortController` per call | `getScore`, `getScoreCancellable` | next oracle, caller's signal |
| `raceWithCancellation` | - | - | a promise and a signal |
| `SorobanOracle` | - | `getScore`, `getScoreDetailed` | a transport; checks its answer |
| `validateRiskDecision`, `legacy/numericAdapter` | - | pure | - |
| `ProvenanceOracle`, `RiskDecisionProvenance` | - | one record for each lookup | logger |
| `StrKeyCodec`, `DestinationValidator` | - | pure | - |
| `RequestContext`, `OracleMiddleware`, `DefaultOracle`, `StubOracle`, errors | - | context propagation, composition, wiring | - |
| `fixtures/` | scanner position and stack | incremental JSON scanning | - |

### What is hard, and what makes it correct

- **Breaker.** Calls that started while the breaker was `CLOSED` settle at any
  later time: after it has opened, while a probe runs, after it has closed
  again. Waiters re-enter `getScore` when the probe they wait for settles, and
  the owner of a probe may leave it. Correct means that a `HALF_OPEN` breaker
  always has a running probe that will end that state; that a waiter is always
  woken; that probes do not multiply; that an open breaker spares the oracle.
- **Coalescing.** Callers attach, cancel and are answered in any order, and the
  clean-up of an abandoned flight runs after its successor has started. Correct
  means one running flight for a destination and pool, a count that is exact in
  every interleaving, and no caller affected by the cancellation of another.
- **Rate limiting.** Messages are lost, delayed, repeated and reordered.
  Correct means that counts are never inflated, that a context knows its own
  spending exactly, and that each context keeps to the budget on its own.
- **Cache.** The heap is cleaned lazily: superseded nodes stay, an entry lives
  through eviction and re-insertion, a revalidation lands after either. Correct
  means that stale nodes never decide on an eviction, that no live entry loses
  its node and that the heap stays bounded.
- **Aggregator.** Up to *f* sources lie, some fail, some answer after the
  decision, and calls overlap and share the reputations that weigh the sources.
  Correct means a score within the range of the honest reports, and a decision
  as soon as there can be one.
- **Batch.** The estimate that admits an entry changes while it waits; slots
  are released in a microtask after the answer; the wrapped oracle may hang.
  Correct means that no slot leaks, that no entry waits beside a free slot or
  beyond its deadline, and that every request is answered once.
- **Fallback and timeouts.** Concurrent calls rank the tiers, wait for them and
  write to the same beliefs; a caller aborts while a tier fails it, or waits for
  the probe of another caller; answer, timer and signal race, and stopping an
  oracle makes it reject as well. Correct means that a call goes on to the next
  tier exactly when the last one failed it, that nothing is started and nothing
  learnt once it has been cancelled, that a timeout does not pass for a
  cancellation, that nothing is left behind, and that every call returns.
- **Lookups.** The node that answers lags behind the one that computed the
  score, ledgers close and time passes while the answer is under way, the local
  clock is off, a destination is mistyped, evidence is nested or malformed, the
  logger throws. Correct means that what the caller and the audit trail are told
  is true at the time they are told, and that a doubt never becomes a number.

## 2. From code to model

**A step is one synchronous turn.** JavaScript runs to completion, so
everything between two `await`s is atomic and is one action: `getScore` up to
its first `await`, one reaction of a promise, one timer, one listener. Where a
callback runs in a later microtask than the event that triggers it (the
clean-up reaction of a flight, the `finally` of a dispatched or a
revalidating call) it is an action of its own, and other turns come between.

**Each caller is a constant or a number.** Calls are members of `Call`, each
made once (breaker, coalescing, aggregator, fallback), or numbered (batch), or
anonymous and unlimited (cache, rate limiting). `Lookup` is one call: lookups
share no state.

**Data is what the properties tell apart.** A score is the destination it was
computed for (breaker), a number that can be compared (aggregator) or left out
(cache, batch, fallback). An error is one of the classes the code distinguishes. Wording,
logging and metadata are left out.

**Time** is a variable `now` that any interleaving may advance, except in the
batch module, where the event loop is taken to be never late for a timer and
microtasks run before time passes. The timer of a `withTimeout` call may fire at
any moment after it is set, before or after any number of ticks, but only as a
turn of its own, when the reactions to a settled promise have run.

**Mutants.** Next to some operators there is a variant, marked as a mutant in
its comment (`HerdMayClaim` next to `MayClaim`). It is the operator with a
plausible bug, and no specification uses it. For each property of a passing
run, `PROJECT.json` names one that makes TLC report that property as violated
when it takes the place of the operator. This shows that the property depends
on the code and that its run reaches the case it is about.

**Type invariants.** Each module that holds state has a `TypeOK`. They are
conjuncts of the inductive invariants of section 5, so they hold for every
value of the constants and take no place in the configurations.

## 3. The models

| Module | Models | Extends or instantiates |
|---|---|---|
| `CircuitBreaker` | `CircuitBreakerOracle.ts`, and `raceWithCancellation` where it calls it | |
| `SingleFlight` | abstract: what coalescing promises | |
| `Coalescing` | `CoalescingOracle.ts` | instantiates `SingleFlight` |
| `RateLimit` | `middleware/withRateLimit.ts` and the channel | |
| `RateLimitTrailing` | the same with the time of every admission | extends `RateLimit` |
| `GreedyDual` | abstract: the eviction policy of `withCache` | |
| `Cache` | `middleware/withCache.ts` | instantiates `GreedyDual` |
| `Aggregator` | `RiskOracleAggregator.ts` | |
| `Batch` | `BatchRiskOracle.ts` with its `LatencyEstimator` | |
| `FallbackChain` | `FallbackOracle.ts` over a breaker and over `middleware/withTimeout.ts` | instantiates `CircuitBreaker` |
| `StrKey` | `StrKeyCodec.ts`, `DestinationValidator.ts`: pure operators | |
| `RiskDecision` | `RiskDecision.ts`, `validateRiskDecision.ts`, `toLegacyScore`: pure operators | |
| `Lookup` | `SorobanOracle.ts`, `ProvenanceOracle.ts`, `legacy/numericAdapter.ts` | extends `StrKey`, `RiskDecision` |
| `MC*` | symmetry sets and inputs for TLC | extends its component |
| `*_proofs` | theorems | extends its component and `TLAPS` |

### CircuitBreaker

`state`, `failures`, `nextAttempt` and `halfOpenProbe` are the fields of the
class; a probe bears the name of the call that launched it. `pc[c]` says at
which `await` a call is suspended, `probe[c]` the same for the `runProbe` it
launched, which may outlive it. `preempted` is a history variable: the
`HALF_OPEN` states that a late failure of a `CLOSED`-path call ended.

- `FailFast`, `ClaimProbe`, `AwaitProbe`, `CallInner` are the four ways through
  `getScore` to its first `await`, `EnterAborted` the early rejection.
- `ClaimProbeThrows` is the case where the wrapped oracle throws instead of
  returning a promise. All of `runProbe`, its `finally` included, then runs
  before its promise is assigned to `halfOpenProbe`, which is left set.
- `InnerSettles` and `ProbeSettles` are the continuations with
  `recordFailure`, `reset` and the call of `handleFallback` they make.
- `SettleProbe` answers the owner, unless it has left, and sends the waiters
  back to the entry of `getScore`.
- `Abort` is the caller's signal. It ends every `await` that is raced against
  the signal; the fallback of a `CLOSED`-path failure is the one that is not.

### Coalescing and SingleFlight

A flight is the call to the inner oracle (promise, controller and map entry)
and bears the name of the call that started it. The two maps are
`inFlightByDestination` and `cancellableInFlightByDestination`. `StartFlight`
and `Coalesce` are the two ways through either method; `Abort` is `onAbort`,
with the decrement, the abort of the flight by the last caller and the early
removal of the entry; `InnerSettles`, `CleanUp` and `Deliver` are the
settlement of the inner promise, the clean-up reaction registered first, and
the callers' reactions queued behind it. Whether the inner oracle is
cancellable is chosen in `Init`.

`SingleFlight` says the same without maps, counts and reactions: calls for a
key join the open flight if there is one, and a flight closes before it lands
only when nobody waits on it. The refinement maps a flight to *open* as long as
the map of its pool holds it.

### RateLimit

`counters[c][p][b]` is what context `c` has counted for `p` in bucket `b`, with
0 for a bucket the `Map` does not hold. `sent` is a growing set of messages
from which `Receive` picks at will, which is loss, delay, repetition and
reordering at once. `Admit` and `Deny` are `getScore`, `Receive` is the
listener with its merge and prune, `Broadcast` includes a `postMessage` that
throws, after which the next admission tries again. `admitted` and `merged` are
history variables: what was really admitted, never pruned, and the messages
merged. `RateLimitTrailing` adds the time of every admission.

A context that crashes and comes back has a new id, and so is another member
of `Context`. Malformed messages, which the listener skips, are left out.

### Cache and GreedyDual

`entries`, `heap`, `versionCounter`, `clockL` and `revalidating` are the
variables of the closure; `pending` and `refreshing` count the foreground and
background calls in flight. `ServeFresh`, `ServeStale` and `Miss` are the
branches of the lookup; `FetchArrives` is the continuation of `freshFetch`,
with `touch`, compaction and eviction in the same turn; `RevalidationArrives`,
`RevalidationFails` and `RevalidationEnds` are the `then`, `catch` and
`finally` of `revalidate`.

The layout of the heap array is abstracted: popping yields a least node, ties
in any order. The product of cost and confidence that values an entry is any
member of `Credit`.

`GreedyDual` is the policy the documentation of the middleware describes: no
versions, no nodes, no heap. The refinement maps the residents to the live
entries and their values to `h`.

### Aggregator

All sources have been asked by every call. `Settles` is one source of one call
settling (an answer, a failure, a number that is not finite, a timeout), with
`maybeDecide` in the same turn. `Fuse` is `getScoreDetailed` after the quorum:
weighted median, clamp to the order statistics, dispersion and the update of
the reputations. Sorting is replaced by order statistics (`At(S, v, i)` is the
report at position *i*). Reports are in tenths of a point and reputations in
thousandths, so that with `Alpha = 1000` the integer arithmetic is that of the
code. The honest sources are those outside `Byzantine`; nothing restricts what
either kind reports.

### Batch

`queue`, `inFlight`, `timer` and `samples` are the fields of the class and of
its estimator; `running` and `releasing` are the dispatched calls before they
settle and between that and their `finally`. `scheduleTick(q, busy, res)` is a
whole pass: reject what is infeasible, start the best of the rest in the free
slots, set the timer. `getScores`, `Release` (the `finally`) and `TimerFires`
are the three places that run a pass. `cdf` and `quantile` are the estimator's,
with the cold-start guesses; probabilities are percentages or counts of
samples. The dispatch loop, which takes the best entry as long as a slot is
free, is `Best`: a set of the right size that is preferred to everything left.

### FallbackChain

The composition of three components: a `FallbackOracle` whose chain is a
`CircuitBreakerOracle` and `withTimeout` around some oracle, in either order
(`BreakerTier`). The breaker is the whole module `CircuitBreaker`, instantiated:
trying that tier is a step `B!Run` in the same turn, and its own steps go on
beside it. The breaker is tried by at most one attempt of a call, so the attempt
bears the name of the call. Before the first call the tiers are untried, or, if
one failure trips the breaker, in the state such a call leaves behind.

- `Begin` is `routeCancellable` (and `route`, which is the same without the
  signal) up to its first `await`: one round of decay, the ranking, the first
  tier. `TierAnswers`, `TierCancelled`, `LastTierFails` and `FallThrough` are the
  ways the loop goes on after the `await`; `FallThrough` includes the look at the
  signal at the head of the loop and the next attempt, in the same turn.
- `TryTier` reads whether the attempt is to teach anything before it makes the
  call, as `learnsFromThisAttempt` does; `Learn` uses that after the `await`.
- `Rankings` is any order the scores allow. A tier nobody has tried comes first,
  and none that is better in both rate and bonus is ranked behind; otherwise
  the exploration factor, taken to be positive, decides, and it may be any. The
  discount is one half and observations weigh `Pull`, a power of 2, so that
  the decayed beliefs are exact integers.
- `StartTimed`, `InnerSettles`, `InnerReaction`, `TimerFires` and `Abort` are
  `withTimeout`: the timer, the reaction to the inner promise and the listener on
  the caller's signal each call `Settle`, the `finish` that only the first gets
  through. `Stoppable` says whether the inner oracle honours the signal that
  `StopInner` aborts. The inner oracle returns a promise; the breaker's may
  throw instead.
- `Reenter` is the breaker's waiter, woken by the end of another call's probe.

The observer is called with what the code decides and looks on; its results are
not used.

### StrKey, RiskDecision and Lookup

`StrKey` works on bits: bytes are only ever regrouped, so a string of bytes is
the sequence of its bits, and `decodeBase32` and `encodeBase32` are that sequence
in fives and in eights, which is what the loops with their accumulators compute.
`ZeroPadding` is the check on what is left over. `crc16XModem` is the register
with its polynomial, one bit at a time. Lengths of keys are parameters.

`RiskDecision` takes an unknown value as the sequence of its nested layers.
`validateRiskDecision` works from the innermost layer outwards by a recursive
function; only a policy's decision looks at the layer below. Fields that are
checked in the same way (non-empty strings, fractions) are one flag of a layer.

`Lookup` follows one lookup. Around the code it has what the code's promises
are about: a chain of ledgers that go on closing, nodes that have seen part of
it, and a clock that is `ClockOffset` off. `Ask` is `resolve` up to the call of
the transport, with validation and canonical form; `NodeAnswers` is the node,
which reports a score as of any ledger with any view of the chain, a response
with one thing wrong (`Wrong`), or one that is well formed and untrue (`MadeUp`:
ledgers that nobody has closed, another close time); `Deliver` runs the checks
in their order (`Resolve`) when the answer has arrived, which may be ledgers and
ticks later. `Truthful` says of a response that what it tells of the chain is
so; the code has no means to find out, and two of the properties suppose it.

`Settle` ends the call, through `Audit` if a `ProvenanceOracle` is around it.
There the logger takes a record or throws, and it may have taken the record
before it throws (`Attempt`). What it throws at a success record is caught by
the code's own `catch`, recorded as a failure, and is what the caller gets.
`SourceFails` is a transport or a producer that rejects. `Cancel` is
`getScoreCancellable`.

`DecisionArrives` is `toLegacyRiskOracle`, which converts what its producer
returns and validates nothing. The kind `legacy` has a producer with decisions of
its own, which the compiler holds to the type `RiskDecision` (`IsRiskDecision`:
the fields are there, whatever their values), and no more. The kind
`validated` has one that calls `validateRiskDecision` on whatever it has fetched.

A caller means one of the `Intended` destinations and types it, perhaps with one
wrong character or two neighbours exchanged. One slip is not found by the
checksum: a colon typed into the address of a subaccount, which is the only one
long enough, leaves an asset code and an issuer, and the issuer's checksum may
fit by chance (one time in 2^16, where the length and the version fit already).
`MisreadAsAsset` names that case, and the run contains an address it happens to.

## 4. What the runs check

`tlc -config X.cfg M` in this directory. Each run ends within five minutes.

| Run | Configuration | Question |
|---|---|---|
| `breaker` | `MCCircuitBreaker`, `CircuitBreaker.cfg` | Do slot, waiters, answers and counts stay consistent in every interleaving? |
| `breaker_flight` | `MCCircuitBreaker`, `CircuitBreakerFlight.cfg` | Is at most one probe running? *No*, see 6. |
| `coalescing` | `Coalescing`, `Coalescing.cfg` | Are counts, maps and flights in step, is `SingleFlight` implemented, is every call answered? |
| `ratelimit` | `MCRateLimit`, `RateLimit.cfg` | Do the views converge from below, whatever the channel does, does one that is up to date keep the budget, and is no call refused while there is budget for it? |
| `ratelimit_trailing` | `RateLimitTrailing`, `RateLimitTrailing.cfg` | Is the budget kept in every trailing window? *No*, see 6. |
| `cache` | `MCCache`, `Cache.cfg` | Is the heap complete and bounded, and is `GreedyDual` implemented? |
| `cache_dropped` | `MCCache`, `CacheDropped.cfg` | Is the revalidation of an evicted entry dropped? *No*, see 6. |
| `aggregator` | `MCAggregator`, `Aggregator.cfg` | Is the score robust, and are decisions prompt and exact? |
| `batch` | `MCBatch`, `Batch.cfg` | Is the pool accounted for, is every entry admitted fairly and answered once, and does none wait forever? |
| `batch_aging` | `MCBatch`, `BatchAging.cfg` | Does an aged entry beat every newcomer? *No*, see 6. |
| `fallback` | `MCFallbackChain`, `FallbackChain.cfg` | Does a chain of breaker and timeout fall through, learn, cancel and release as it should, and does every call return? |
| `lookup` | `MCLookup`, `Lookup.cfg` | Is what a lookup tells the caller and the trail true when it is told, as far as what it was told is? |

### The properties

Breaker:
- `ProbeSlotHeld` a `HALF_OPEN` breaker holds a probe whose oracle call runs:
  `this.halfOpenProbe!` is never null and the state will be left.
- `ProbesAccountedFor` the running probes are at most one more than the
  `HALF_OPEN` states that a late failure has cut short.
- `NoMissedWakeUp` whoever waits, waits for a probe that has yet to settle.
- `ScoreForOwnDestination`; `OracleSparedWhileOpen` no call gets on to the
  oracle during a cooldown, not even one that re-enters after a probe.

Coalescing:
- `CountsCallers` the count is the number of callers that have not cancelled.
- `NobodyOnAbortedFlight` and its converse `NoFlightLeftRunning`: a flight is
  aborted when the last caller leaves, no earlier and no later.
- `SingleRunningFlight`, `NoEntryLeaked`, `ImplementsSingleFlight`,
  `EveryCallSettles`.

Rate limiting:
- `ViewNeverOvercounts`, `OwnCountExact`, `ViewIsJoinOfMerged`: the bucket maps
  behave as a grow-only counter, pruning included.
- `BudgetHonoured` a context that has heard everything does not overshoot the
  shared budget; and whatever one has heard and in whatever order, it refuses a
  call only when the admissions of the window really use up the budget, or its
  own use up its share. A bucket that a late message brings back after it was
  pruned is below the window, where `ViewIsJoinOfMerged` does not look: this is
  the property that it costs no call.

Cache: `NodePerEntry`, `HeapBounded`, `SingleRevalidation`,
`ImplementsGreedyDual`.

Aggregator:
- `HonestRange` the score lies between two honest reports, whatever up to
  `FaultTolerance` sources say and whatever trust they have earned in
  overlapping calls.
- `DisagreementNotHidden` the dispersion is at least the mean disagreement of
  the honest, so liars cannot buy confidence.
- `DecidedAtOnce`, `QuorumCounted`.

Batch:
- `SlotsAccounted`, `QueueWatched`, `NothingLost`.
- `FairAdmission` an entry is started or rejected on what the latest latencies
  say at that time, and none is passed over by one with both the lower aged
  priority and the lesser chance.
- `NoneQueuedForever` an entry leaves the queue though the wrapped oracle never
  answers again.

Fallback and timeout:
- `CancelledBySignal` a call is told that it was cancelled only if its own
  caller cancelled it: not because a timeout stopped the inner oracle, nor
  because another caller left the probe it waited for.
- `ChainExhausted` it fails only after every tier has failed it, and is answered
  by the first in its ranking that did not.
- `NothingStartedAfterSignal` once its caller has aborted, no oracle is called
  for it: not by the tier, not by a re-entry, not by the next tier.
- `CancellationTeachesNothing` evidence comes only from attempts that ended of
  themselves.
- `TimedReleased` whatever ends a `withTimeout` call releases the rest.
- `EveryCallReturns` though the oracle behind `withTimeout` stays silent. It
  runs through the breaker too, and so covers that no waiter is forgotten.

Lookup:
- `OnlyIntendedAsked` after a slip of one character or an exchange of two in an
  address, the issuer's in an asset included, the contract is not asked about
  another payee, unless the slip made an asset of a subaccount; and it is asked
  for no subaccount. The code of an asset has no checksum, so a slip in it is
  another asset to the adapter, and the model types none.
- `ScoreIsFinal` when a score is told, its ledger has the required
  confirmations on the chain itself, if the node told the truth: not only as of
  the ledger it had seen, and although it lags.
- `LiveIsRecent` a score told to be live is recent when it is told, give or
  take the error of the clock, if the close time that the node told is true.
- `FailsClosed` the legacy adapter makes a number only of an outcome that has
  one; over a producer that validates, only of sound evidence (`SoundEvidence`:
  known schema, score of the scale, no time from the future, evidence no later
  than its observation; it may have expired, see 6). And the caller of such a
  producer is told of a veto only if it is not a veto on a veto.
- `AuditMatches` the trail has one record, of what the caller is told, unless
  the logger has thrown. Then the caller is told that, and the trail has
  nothing, one record, or a success and an error; but a success is on record
  only if a score was found.

### The bounds, and why they are enough

- *Breaker.* The longest scenarios take four calls: two on the `CLOSED` path, of
  which one trips the breaker and the other fails late, the probe that the late
  failure preempts, and either a second probe, so that two run at once, or a
  waiter on the probe that has been orphaned. A threshold of 1 leaves room for
  them, and two ticks of a cooldown of 1 let the breaker open and be probed
  twice. Both were confirmed to be reached by asking TLC for a state without them.
  That failures below a greater threshold are counted and reset is not in the
  run: the proofs are for any positive threshold. Two destinations tell an answer
  to another caller from one's own.
- *Coalescing.* Three calls: one starts a flight, one shares it, one starts the
  next after both have left. Two destinations, both pools, both kinds of inner
  oracle.
- *Rate limiting.* Two contexts, a window of two buckets, a budget of two and
  enough time to prune the first bucket while a message about it is under way.
  The message may also arrive after that, and bring the bucket back. What a
  context holds for a peer does not depend on further peers, and all four
  properties are proved for any number of contexts.
- *Cache.* Three destinations for two places, values that tie and that do not,
  expiry and staleness after one tick each, six touches, which is one more than
  the size of heap that compaction allows. `MaxPending` 1 already gives
  overlapping fetches of three destinations.
- *Aggregator.* *f* = 1, so four sources and a quorum of three, leave one late
  source and one liar. Two calls overlap, and what the liar earns in one weighs
  in the other. The reports include both ends of the scale, one that rounding
  moves and one beyond 100.
- *Batch.* Two calls, repeated destinations, two slots, deadlines that the
  samples can and cannot meet, a cold and a full estimator.
- *Fallback.* Two calls, so that one waits for the other's probe, one decays
  what the other learns, and either leaves. The breaker is first in the chain,
  which the ranking may reverse, trips at once and cools down for one of two
  ticks; the inner oracle can be stopped. The run is one of four settings; the
  other tier order and an oracle that cannot be stopped are covered by the
  proofs of its safety properties, which hold for all of them. `Pull` is 4, for at most two rounds of
  decay.
- *Lookup.* An address of each kind, an asset, and a subaccount that one colon
  makes an asset, each with every replacement of one character and every
  exchange of two in the address (1934253 states). Keys of two bytes and ids of three
  have the lengths of the real ones modulo 5, and so leave as many bits over at
  the end of an address; the checksum is the real one. Three ledgers with two
  required confirmations, three ticks with a maximal age of one, and a clock one
  tick behind give each comparison both outcomes at its boundary. A lying node
  claims one ledger more than the chain has or enough of them to confirm the
  last, names one that has not closed, or is a tick off with a close time. Decisions
  have their times around the clock and the allowed skew, scores around the
  range, and are nested up to one layer beyond the limit.

Counters that the code leaves unbounded have a named bound: `MaxTime`,
`MaxTouches`, `MaxPending`, `MaxCalls`. Symmetry is used where no liveness is
checked, and over sets that no definition orders.

### Fairness

- `Coalescing`: weak fairness of a call's next turn and of the settlement of
  what it awaits. The first is the event loop, which runs every microtask; the
  second is the assumption that the oracle settles, which `withTimeout` is there
  to justify. Cancellation is not fair: nobody has to abort.
- `FallbackChain`: weak fairness of the loop of each call, of a woken waiter, of
  the breaker's oracle, which is assumed to settle, and of reactions and timers.
  The oracle inside `withTimeout` need never settle: its timer is what makes the
  call return. Nobody has to call or abort, and time may stand still, because no
  return waits for the end of a cooldown.
- `Batch`: weak fairness of time, of a due timer and of the `finally`
  callbacks. Nothing is assumed of the wrapped oracle: entries must leave the
  queue although it hangs.
- The other specifications state safety only. In particular nothing makes a
  `SorobanOracle` return: `requestBudgetMs` is handed to the transport, and
  whether it is kept is up to the transport.

All runs check for deadlock. Specifications in which the calls are used up end
in an explicit idle step, enabled only when nothing is left to do.

## 5. What is proved

TLAPS checks the following for every value of the constants that satisfies the
assumptions named in the modules (finite sets of calls, contexts and sources;
options in the ranges that the constructors enforce).

| Module | Theorems |
|---|---|
| `CircuitBreaker_proofs` | `TypeCorrect`, `SlotSafe`, `ProbeHeld`, `NoLostWakeUp`, `AnswersSafe`, `ProbeCount`, `SingleFlight`, `OpenSpares` |
| `Coalescing_proofs` | `Inductive`, `OneFlight`, `Counts`, `CancellationIsPrivate`, `AbandonedIsStopped`, `MapsDrain`, `Refinement` |
| `RateLimit_proofs` | `Inductive`, `TypeCorrect`, `NoOvercount`, `ExactOwnCount`, `OrderForgotten`, `BudgetShared` |
| `Cache_proofs` | `Inductive`, `TypeCorrect`, `NodeForEveryEntry`, `HeapStaysBounded`, `OneRevalidation`, `Refinement`, `Floor`, `Monotone`, `Capacity` |
| `Aggregator_proofs` | `Inductive`, `RobustScore`, `ConfidenceNotInflated`, `Prompt`, `ExactQuorum` |
| `Batch_proofs` | `Inductive`, `PoolBounded`, `NoneOverdue`, `AnsweredOnce`, `Fairness` |
| `FallbackChain_proofs` | `Inductive`, `Released`, `CancelledOnlyBySignal`, `Exhausted`, `NothingAfterSignal`, `OnlyOutcomesTeach`, `BreakerInChain`, `BreakerKeepsPromises`, `BreakerSparesInChain` |
| `Lookup_proofs` | `Finality`, `Recency`, `NumericFailsClosed`, `TrailMatches`, `VetoOutermost`, `WrongPayeeNeverAsked`, `AskedCanonically`; of the codec `ShortBurstsFound`, `SlipFound`, `EncodedIsValid`, `OneSpelling`, `CanonicalForm` |

Every invariant and every action property that a passing run checks is stated by
one of these theorems.

The assumptions are what the constructors enforce (`ConfigAssumption` is
`validateConfig` itself, `OptionsAssumption` the option checks), finite sets of
actors, integer times (`PolicyAssumption`, `WorldAssumption`), a producer that has or
fetches some sequence of layers (`ProducerAssumption`), a breaker with a
positive threshold (`ChainAssumption`), and callers who mean valid destinations
(`IntendedAssumption`). TLC evaluates each of them in the runs.

- **Breaker.** `ProbeSlotHeld` is not inductive: a waiter woken to find the
  breaker `HALF_OPEN` must find its slot filled, and a call at the entry of
  `getScore` must not have launched a probe before. `IInv` adds
  `NoMissedWakeUp`, `ClosedBelowThreshold` and `NoProbeYet`. `ProbeCount` counts
  over it, and `SingleFlight` is its consequence where no late failure has
  occurred: the part of INV-CB-1 that holds. `OpenSpares` needs the types only.
- **Coalescing.** `Structure` ties the maps, the flights and the riders
  together: an entry is a flight of that destination and pool that has not been
  cleaned up, a running flight that has not been given up is in its map, a
  rider is on a flight of its own key. With it the count is exact, since an
  attachment is counted by the same turn that makes it. The refinement goes
  action by action; `CleanUp` is `Land` or a stutter, depending on whether the
  entry is still the flight's own. `AbandonedIsStopped` follows from the count:
  the last to leave sees it drop to zero. `MapsDrain` adds that what a map holds
  has been started and not been cleaned up.
- **Rate limiting.** `MessagesTrue` (what any message says of its sender, the
  sender really admitted) is what makes a view that merges them true. Its own
  count is exact as the merge skips a context's own messages and pruning only
  removes what is below the window. `OrderForgotten`: within the window, a view
  is at each place the maximum over the messages merged, which is what makes
  order and repetition irrelevant; a pruned bucket never comes back into it.
  `BudgetShared` is about sums over buckets and contexts. A sum is turned into
  the number of units its terms consist of (the pairs of a place and a number up
  to the count at that place), and a sum that is smaller at each place has a
  subset of the units. So what a context sees, once pruned, is at most what was
  spent in the window (`SeenIsSpent`), and just that if it is up to date or its
  own. The contexts it knows are then among the active ones, and a share rounded
  up, times their number, covers the budget (`CeilDivCovers`): a refusal is due to
  what was spent.
- **Cache.** `Sound` says that the live entries have their nodes, that a node
  with the current version of an entry has its value, that versions are unique
  and below the counter, and that a node of a live entry is worth no more than
  that entry. The last part, which needs the clock to be a floor, is why
  skipping superseded nodes at the top loses nothing. `HeapStaysBounded` counts
  the heap after a compaction. The refinement maps the touches to `Access`, an
  arriving fetch to `Access`, `Insert` or `InsertEvicting`, and all else to
  stutters. `Floor`, `Monotone` and `Capacity` are what the policy guarantees,
  and hold of the cache by that simulation.
- **Aggregator.** Among `Quorum` reports, *f* + 1 lie at or below the *f*-th
  order statistic from below, so one of them is honest; the same from above.
  The clamp then puts the score between two honest reports whatever the
  weights are, which is why no fact about reputations is needed. Rounding and
  clamping are monotone. `ConfidenceNotInflated`: the `FaultTolerance`
  reports nearest to the aggregate are left out of the dispersion, so it is a mean
  over the farthest ones. No more than that many reports are not honest, and the
  mean over the honest ones is therefore no larger (`Averages`, `Dispersion`).
- **Batch.** `OnePlace` (an entry is queued, running or being released, and
  only one of them) is what turns the sum of the slots into a cardinality;
  `WatchedLater` (a queue that is not empty has a timer) is what keeps time from
  passing a deadline unnoticed. `Owed` (the requests without a result are those
  of the entries queued or running, each of exactly one) is what a pass, an
  answer and a new call each preserve, and gives `AnsweredOnce`. `Fairness` goes
  through the three places that run a pass. That none is passed over by an entry
  with both the lower aged priority and the lesser chance is monotonicity of the
  sum that ranks them; it is strict as `priorityNormalization` is positive and,
  for the part about priorities, where `priorityWeight` is.
- **Fallback.** Two facts carry the invariant. `Signals`: whatever a tier
  reports as cancelled, the caller's signal has been aborted, and a call that
  the breaker holds has told the breaker so. `Route`: the tiers before the one
  a call awaits have failed it, the others have not been reached, and
  `withTimeout` has no trace of a call before its turn. What the breaker
  contributes is stated once, as lemmas about `B!Run`, `B!Settle` and `B!Abort`
  over its own type invariant: no step of it touches another call's answer with
  a cancellation or gets a call with an aborted signal to the oracle. The two
  action properties then go through the disjuncts of `Next`.
  The last three theorems are about the composition. `BreakerInChain`: each step
  of the chain is a step of the breaker's specification or leaves it alone. With
  it the breaker's invariants carry over, established anew because a chain may
  start with a tripped breaker, which is no initial state of `CircuitBreaker`.
- **Lookup.** A truthful response has the close time of the ledger it names and
  claims no more ledgers than there are; that is the hypothesis of `Finality` and
  `Recency`, at the time of the answer to the caller. Confirmations claimed are
  then confirmations held, which is why a node that lags is safe. The invariant
  keeps what was so when the caller was told: the clock stands and the chain has
  ended for a call that is done (`Settlement` says what `Audit` leaves behind, by
  way of the trails that a logger can make). `NumericFailsClosed` rests on
  `ScoredSound` (a validated layer that has a score is sound evidence) and, for a
  veto, on `VetoOutermost`, which is about the validator alone: evidence under a
  valid veto is evidence and not another veto. That `incompatible` comes
  from an unknown schema somewhere below is an induction over the layers
  (`OtherSchema`).
- **Codec.** The checksum is a recursion over the bits, so it is handled as its
  sequence of registers (`Run`), of which there is one for each string of bits
  (`RunOfCrc`). Two strings are compared along their runs: the registers agree
  before the first difference (`SameBefore`); ten bits later the difference that
  the polynomial makes of it has not vanished, whatever the other bits are
  (`LookBack`); and equal bits keep equal registers equal and different ones
  different (`SameAfter`). Hence `ShortBurstsFound`, also where the difference
  is in the stored checksum or reaches from the data into it. Two neighbouring
  characters are ten bits, so `SlipFound`. `Framed` says what a valid strkey
  consists of: version, payload, checksum, and zeros that are too few for
  another character.
  For `WrongPayeeNeverAsked` there remain the slips that turn an address into
  something of another form: one with a colon becomes at most an asset, and an
  issuer's address fits behind the colon in no key but a subaccount's.
  `Reencoded` and `Redecoded` make base32 with its padding rule a bijection
  between texts and strings of bytes; `EncodedIsValid`, `OneSpelling` and
  `CanonicalForm` follow from it, and from this that a subaccount is looked up
  as an account.

Induction is by sets: a set of natural numbers that contains 0 and with each
number the next contains them all (`NatSteps`, from the least number of a set,
`LeastNat`), which needs no operator as a parameter. What a recursive function
computes is then stated as a set of the lengths for which it does. Each proof
module that needs these lemmas or those about sums states them itself, as the
proof modules do not depend on one another.

Only model-checked is all liveness (`EveryCallSettles`, `NoneQueuedForever`,
`EveryCallReturns`): it needs fairness and `ENABLED`, which the prover does not
handle.

No module declares a `RECURSIVE` operator: recursion is by functions (`StrKey`,
`RiskDecision`) and sums are the folds of the community modules.

## 6. Where the code and its documentation disagree

Each of these is a run that TLC ends with a counterexample.

- `breaker_flight`. `CircuitBreakerOracle.ts:51` promises at most one call of
  the oracle in flight while `HALF_OPEN`. A `CLOSED`-path call that fails late
  re-opens the breaker under its probe; after the cooldown a second probe starts
  beside the first.
- `ratelimit_trailing`. `withRateLimit.ts:57` and `:261` bound the admissions in
  every trailing window. Whole buckets are pruned, and the buckets kept span
  less than the window unless `now` is at the end of one: admissions that are
  still in the trailing window are forgotten.
- `cache_dropped`. `withCache.ts:210` says that the result of a revalidation
  is dropped if its entry has been evicted meanwhile. If the destination has
  been fetched again by then, the older result replaces the newer entry.
- `batch_aging`. `BatchRiskOracle.ts:215` says that an entry aged past
  `priorityNormalization` is the next to be dispatched. A newcomer with a later
  deadline is more feasible, and its sum may be greater.

Noticed while reading, and outside the runs listed in section 4:
- `ProvenanceOracle.ts:56` promises one record for every call and the inner
  result unchanged. A logger that throws at the success record (line 109) is
  caught at line 120: the caller gets its error in place of the score that was
  found, and the trail an error record, beside the success if the logger had
  taken that. `LookupLogger.cfg` has TLC find it: `OneRecordThenResult`, which is
  that promise, fails in `MCLookup` with a success on record and `LoggerError` as
  the result. `AuditMatches` says what is left of it.
- `SorobanOracle.ts:125` calls the response of a transport untrusted. The last
  ledger seen and the close time, by which its confirmations and its age are
  judged (lines 422 and 441), are taken from that response: a node that makes up
  either has its score accepted as final or as live. `ScoreIsFinal` and
  `LiveIsRecent` say so with `Truthful`.
- `withRateLimit.ts:62` says that a context's last admissions always reach the
  others in time; the throttle drops a broadcast and nothing sends it later.
- A call of the aggregator that is rejected updates no reputation
  (`RiskOracleAggregator.ts:234`), so sources that fail together are not judged.
- `FallbackOracle.ts:104` keeps the verdict of an `OPEN` breaker out of the
  beliefs. A tier that was `HALF_OPEN` when tried, and whose probe then failed,
  fails fast as well, and that is learned.
- `RiskDecision.ts:64` calls `expiresAt` the time after which a decision is to be
  revalidated. `validateRiskDecision.ts:242` checks it like a time of
  observation: a decision that expires later than the allowed skew from now is
  refused, one that has expired is accepted, and `toLegacyScore` returns its
  score.
- `RiskDecisionProvenance.ts:25` promises machine-defined reason codes only; for
  an `incompatible` decision the reason is its free-text `detail` (line 181).

## 7. What is not modelled

Inside the modelled components:
- `getState` of the breaker and the `getScoreDetailed` metadata: they only read.
- Option checks of the constructors: they are the `ASSUME`s of the modules.
- The array of `MinHeap`, and the running average of costs, in `withCache`.
- The confidence of the aggregator beyond the dispersion it decreases in;
  `withTimeout` around a source is a source that fails at any time.
- In the batch module a late event loop; a wrapped oracle that throws instead of
  rejecting (the slot would stay counted, `BatchRiskOracle.ts:386`; `RiskOracle`
  does not rule it out, though every `getScore` in the repository is an async
  method); calls with no requests, which return at once.
- In `FallbackChain` longer chains and several breakers or timeouts; an empty
  chain, which throws; the labels and metadata of the result; an inner oracle
  of `withTimeout` that throws synchronously.
- In `Lookup` the metadata of a score; a lookup's time budget, which the
  transport is only handed; slips in the code of an asset; a legacy producer
  whose decision has been cast to `RiskDecision` and is none.

Whole components:
- `RiskDecisionProvenance` copies a decision into a record field by field:
  there is no choice in it but which fields to copy.
- `RequestContext` is an immutable value with pure functions; its own
  documentation says that no oracle reads it yet (`RequestContext.ts:35`).
- `OracleMiddleware`, `DefaultOracle`, `StubOracle`, the error classes, `Logger`,
  `index.ts`: composition, types and exports; they keep no state.
- `fixtures/testkit` (a JSON scanner and a schema) is used by tests and tools
  and not by the adapter; `scripts/` is build tooling.

## 8. What is left

Done: every component whose correctness depends on interleaving, time or
failure, in the order breaker, coalescing, rate limiting, cache, aggregator,
batch, fallback with timeout, lookup; two abstract specifications with
refinements; one composition that instantiates a module as a part of another;
the inductive invariant of every module with state; a proof of every safety
property that a run checks.

Worth adding, should the code grow that way:
- an oracle that reads `RequestContext`, whose deadline would then bound a
  lookup, and give `SorobanOracle` a liveness property;
- middleware on top of one another (`withCache` over `CoalescingOracle`,
  `withRateLimit` under either). Today each wraps a `RiskOracle` of which it
  assumes only that it settles at any time with anything, which is how each is
  modelled, so that what holds of the parts holds under composition;
- a chain of more than two tiers: `Route` and the lemmas about a turn are
  already stated by the position in the ranking.
