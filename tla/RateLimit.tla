------------------------------- MODULE RateLimit -------------------------------
(***************************************************************************)
(* withRateLimit (src/src/middleware/withRateLimit.ts): contexts that share*)
(* a request budget by gossiping a bucketed grow-only counter over a       *)
(* channel that may lose, delay, duplicate and reorder messages.           *)
(*                                                                         *)
(* A bucket that a Map does not hold counts 0 here: the code never stores  *)
(* a 0, and drops a peer that holds no bucket.                             *)
(***************************************************************************)
EXTENDS Integers, FiniteSets, Functions

CONSTANTS
  Context,         \* contextIds
  Budget,          \* budget
  WindowMs,        \* windowMs, in ticks
  BucketMs,        \* bucketMs, in ticks
  GossipInterval,  \* gossipIntervalMs, in ticks
  PostMayFail,     \* may postMessage throw (or the channel be missing)?
  MaxTime          \* bound on the clock

ASSUME ContextAssumption == IsFiniteSet(Context)
ASSUME OptionsAssumption ==
  /\ Budget \in Nat \ {0}
  /\ WindowMs \in Nat \ {0}
  /\ BucketMs \in Nat \ {0}
  /\ GossipInterval \in Nat
  /\ PostMayFail \in BOOLEAN
  /\ MaxTime \in Nat

VARIABLES
  now,              \* the clock all contexts of a machine read
  counters,         \* counters[c][p][b]: what c has counted for p in bucket b
  lastBroadcastAt,  \* -GossipInterval stands for -Infinity
  sent,             \* every message ever posted; delivery picks from it at will
  admitted,         \* history: what c really admitted in bucket b, never pruned
  merged            \* history: the messages each context has merged

history == <<admitted, merged>>
vars    == <<now, counters, lastBroadcastAt, sent, history>>

bucketIndexAt(t) == t \div BucketMs
Bucket == 0 .. bucketIndexAt(MaxTime)
BucketMap == [Bucket -> Nat]
GossipMessage == [contextId : Context, buckets : BucketMap]

\* Math.ceil of a quotient of naturals
CeilDiv(a, b) == (a + b - 1) \div b
bucketsPerWindow == CeilDiv(WindowMs, BucketMs)   \* at least 1, as WindowMs is
MinBucket(t) == bucketIndexAt(t) - bucketsPerWindow + 1

TypeOK ==
  /\ now \in 0 .. MaxTime
  /\ counters \in [Context -> [Context -> BucketMap]]
  /\ lastBroadcastAt \in [Context -> Int]
  /\ sent \in SUBSET GossipMessage
  /\ admitted \in [Context -> BucketMap]
  /\ merged \in [Context -> SUBSET GossipMessage]

Init ==
  /\ now = 0
  /\ counters = [c \in Context |-> [p \in Context |-> [b \in Bucket |-> 0]]]
  /\ lastBroadcastAt = [c \in Context |-> -GossipInterval]
  /\ sent = {}
  /\ admitted = [c \in Context |-> [b \in Bucket |-> 0]]
  /\ merged = [c \in Context |-> {}]

-----------------------------------------------------------------------------
\* Mutants: counts of different messages add up; the last message wins.
addBucketMaps(a, b)     == [k \in Bucket |-> a[k] + b[k]]
replaceBucketMaps(a, b) == b
joinBucketMaps(a, b) == [k \in Bucket |-> IF a[k] < b[k] THEN b[k] ELSE a[k]]

\* Mutant: the window is a bucket longer for pruning than for counting.
pruneLate(view, t) ==
  [p \in Context |-> [b \in Bucket |-> IF b + 1 < MinBucket(t) THEN 0 ELSE view[p][b]]]
pruneStale(view, t) ==
  [p \in Context |-> [b \in Bucket |-> IF b < MinBucket(t) THEN 0 ELSE view[p][b]]]

\* The contexts c's Map has a key for: itself and those with a bucket left.
Known(view, c) == {c} \cup {p \in Context : \E b \in Bucket : view[p][b] > 0}

globalEstimate(view) == SumFunction([p \in Context |-> SumFunction(view[p])])
fairShare(view, c) == CeilDiv(Budget, Cardinality(Known(view, c)))

Admissible(view, c) ==
  /\ globalEstimate(view) + 1 <= Budget
  /\ SumFunction(view[c]) + 1 <= fairShare(view, c)

\* The message broadcastOwnState posts.
OwnState(view, c) == [contextId |-> c, buckets |-> view[c]]

\* postMessage succeeds, or throws, in which case the next admission tries
\* again.  Without a channel nothing is ever posted.
Broadcast(view, c) ==
  \/ /\ sent' = sent \cup {OwnState(view, c)}
     /\ lastBroadcastAt' = [lastBroadcastAt EXCEPT ![c] = now]
  \/ PostMayFail /\ UNCHANGED <<sent, lastBroadcastAt>>

\* Would a call be admitted now?
Admits(c) == Admissible(pruneStale(counters[c], now), c)

\* getScore, up to its call of next.getScore.
Admit(c) ==
  LET pruned == pruneStale(counters[c], now)
      b      == bucketIndexAt(now)
      view   == [pruned EXCEPT ![c][b] = @ + 1]
  IN /\ Admits(c)
     /\ counters' = [counters EXCEPT ![c] = view]
     /\ admitted' = [admitted EXCEPT ![c][b] = @ + 1]
     /\ IF now - lastBroadcastAt[c] >= GossipInterval
          THEN Broadcast(view, c)
          ELSE UNCHANGED <<sent, lastBroadcastAt>>
     /\ UNCHANGED <<now, merged>>

\* getScore rejecting with OracleRateLimitError.
Deny(c) ==
  /\ ~ Admits(c)
  /\ counters' = [counters EXCEPT ![c] = pruneStale(@, now)]
  /\ UNCHANGED <<now, lastBroadcastAt, sent, history>>

\* A mutant takes the message for the truth, also about itself.
mergeAny(view, c, m) == [view EXCEPT ![m.contextId] = m.buckets]
mergeGossip(view, c, m) ==
  IF m.contextId = c
    THEN view
    ELSE [view EXCEPT ![m.contextId] = joinBucketMaps(@, m.buckets)]

\* The channel's listener.
Receive(c, m) ==
  /\ counters' = [counters EXCEPT ![c] = pruneStale(mergeGossip(@, c, m), now)]
  /\ merged' = [merged EXCEPT ![c] = @ \cup {m}]
  /\ UNCHANGED <<now, lastBroadcastAt, sent, admitted>>

Tick ==
  /\ now < MaxTime
  /\ now' = now + 1
  /\ UNCHANGED <<counters, lastBroadcastAt, sent, history>>

Next ==
  \/ \E c \in Context : Admit(c) \/ Deny(c)
  \/ \E c \in Context : \E m \in sent : Receive(c, m)
  \/ Tick

Spec == Init /\ [][Next]_vars

-----------------------------------------------------------------------------
(* Properties                                                              *)

\* No context ever believes a peer admitted more than it did, whatever the
\* channel repeats, reorders or holds back: gossip never costs a peer budget
\* it has not spent.
ViewNeverOvercounts ==
  \A c, p \in Context : \A b \in Bucket : counters[c][p][b] <= admitted[p][b]

\* A context has its own admissions of the current window exactly: neither an
\* echo of its gossip nor pruning makes it forget or double one.
OwnCountExact ==
  \A c \in Context : \A b \in Bucket :
    b >= MinBucket(now) => counters[c][c][b] = admitted[c][b]

\* What a context knows of a peer is the join of the messages it merged, so
\* their order, repetition and the pruning in between leave no trace.
ViewIsJoinOfMerged ==
  \A c, p \in Context : \A b \in Bucket :
    c # p /\ b >= MinBucket(now) =>
      /\ \A m \in merged[c] : m.contextId = p => m.buckets[b] <= counters[c][p][b]
      /\ counters[c][p][b] # 0 =>
           \E m \in merged[c] : m.contextId = p /\ m.buckets[b] = counters[c][p][b]

\* What was really admitted in the window, for one context and for all of them;
\* there is nothing yet in the buckets to come.
Spent(f) == SumFunctionOnSet(f, {b \in Bucket : b >= MinBucket(now)})
Combined(adm) == SumFunction([c \in Context |-> Spent(adm[c])])
Active(c) == {c} \cup {p \in Context : Spent(admitted[p]) > 0}

UpToDate(c) ==
  \A p \in Context : \A b \in Bucket :
    b >= MinBucket(now) => counters[c][p][b] = admitted[p][b]

\* What gossip is for.  A context that has heard of everything the others
\* admitted in this window is admitted nothing beyond the shared budget.  And
\* whatever it has heard, and however late, it is refused a call only if what was
\* admitted in this window uses up the budget or, by its own, its share among
\* the contexts with any: a bucket that a late message brings back after it was
\* pruned costs no call.
BudgetHonoured ==
  \A c \in Context :
    IF Admits(c) THEN UpToDate(c) => Combined(admitted) < Budget
                 ELSE \/ Combined(admitted) >= Budget
                      \/ Spent(admitted[c]) * Cardinality(Active(c)) >= Budget

=============================================================================
