---------------------------- MODULE RateLimit_proofs ----------------------------
(***************************************************************************)
(* withRateLimit for any number of contexts, any budget and window, and any*)
(* sequence of losses, repetitions and delays: no view ever exceeds what   *)
(* was admitted, every context knows its own admissions exactly, and one   *)
(* whose view is up to date keeps the contexts together within the budget. *)
(***************************************************************************)
EXTENDS RateLimit, FiniteSetTheorems, WellFoundedInduction, TLAPS

\* A message never says more than its sender has admitted by now.
MessagesTrue == \A m \in sent : \A b \in Bucket : m.buckets[b] <= admitted[m.contextId][b]

IInv == TypeOK /\ MessagesTrue /\ ViewNeverOvercounts /\ OwnCountExact

-----------------------------------------------------------------------------
\* The bucket of a time is a natural number, and time never goes back to an
\* earlier bucket.
LEMMA BucketsAscend ==
  ASSUME NEW s \in Nat, NEW t \in Nat, s <= t
  PROVE  /\ bucketIndexAt(s) \in Nat
         /\ bucketIndexAt(s) <= bucketIndexAt(t)
<1> DEFINE n == BucketMs
           p == s \div n
           q == t \div n
<1>1. n \in Nat /\ n >= 1
  BY OptionsAssumption
<1>2. p \in Int /\ q \in Int /\ s = n * p + (s % n) /\ t = n * q + (t % n)
      /\ s % n \in Nat /\ t % n \in Nat /\ s % n < n /\ t % n < n
  BY <1>1, SMTT(30)
<1> HIDE DEF n, p, q
<1>3. p \in Nat
  <2> SUFFICES ASSUME p <= -1 PROVE FALSE
    BY <1>2
  <2>1. n * p <= n * (-1)
    BY <1>1, <1>2, SMTT(30)
  <2> QED
    BY <1>1, <1>2, <2>1
<1>4. p <= q
  <2> SUFFICES ASSUME q + 1 <= p PROVE FALSE
    BY <1>2
  <2>1. n * (q + 1) <= n * p
    BY <1>1, <1>2, SMTT(30)
  <2>2. n * (q + 1) = n * q + n
    BY <1>1, <1>2, SMTT(30)
  <2> QED
    BY <1>1, <1>2, <2>1, <2>2
<1> QED
  BY <1>3, <1>4 DEF p, q, n, bucketIndexAt

\* The clock is in a bucket, and the window has a beginning.
LEMMA Clock ==
  ASSUME TypeOK
  PROVE  /\ now \in Nat /\ MaxTime \in Nat
         /\ bucketIndexAt(now) \in Bucket
         /\ Bucket \subseteq Nat
<1>1. now \in Nat /\ MaxTime \in Nat /\ now <= MaxTime
  BY OptionsAssumption DEF TypeOK
<1> QED
  BY <1>1, BucketsAscend DEF Bucket

\* The window's first bucket is an integer that never goes back.
LEMMA WindowAscends ==
  ASSUME NEW s \in Nat, NEW t \in Nat, s <= t
  PROVE  /\ MinBucket(s) \in Int /\ MinBucket(t) \in Int
         /\ MinBucket(s) <= MinBucket(t)
<1>1. bucketIndexAt(s) \in Nat /\ bucketIndexAt(t) \in Nat /\ bucketIndexAt(s) <= bucketIndexAt(t)
  BY BucketsAscend
<1>2. bucketsPerWindow \in Int
  BY OptionsAssumption, SMTT(30) DEF bucketsPerWindow, CeilDiv
<1> QED
  BY <1>1, <1>2 DEF MinBucket

\* Pruning keeps the types, raises nothing and spares the window.
LEMMA Pruned ==
  ASSUME NEW view \in [Context -> BucketMap], NEW t \in Nat
  PROVE  /\ pruneStale(view, t) \in [Context -> BucketMap]
         /\ \A p \in Context : \A b \in Bucket :
              /\ pruneStale(view, t)[p][b] <= view[p][b]
              /\ b >= MinBucket(t) => pruneStale(view, t)[p][b] = view[p][b]
<1>1. ASSUME NEW p \in Context, NEW b \in Bucket
      PROVE  /\ pruneStale(view, t)[p][b] = IF b < MinBucket(t) THEN 0 ELSE view[p][b]
             /\ view[p][b] \in Nat
  BY DEF pruneStale, BucketMap
<1>2. pruneStale(view, t) \in [Context -> BucketMap]
  BY <1>1 DEF pruneStale, BucketMap
<1> HIDE DEF pruneStale
<1>3. ASSUME NEW p \in Context, NEW b \in Bucket
      PROVE  /\ pruneStale(view, t)[p][b] <= view[p][b]
             /\ b >= MinBucket(t) => pruneStale(view, t)[p][b] = view[p][b]
  <2>1. b \in Int /\ MinBucket(t) \in Int
    BY WindowAscends DEF Bucket
  <2> QED
    BY <1>1, <2>1
<1> QED
  BY <1>2, <1>3

\* Pruning c's view raises no count and leaves the window's.
Keeps(view, c, t) ==
  /\ view \in [Context -> BucketMap]
  /\ \A p \in Context : \A b \in Bucket : view[p][b] <= admitted[p][b]
  /\ \A b \in Bucket : b >= MinBucket(t) => view[c][b] = admitted[c][b]

ViewOK(c) == Keeps(counters[c], c, now)

LEMMA PrunedKeeps ==
  ASSUME IInv, NEW c \in Context, NEW view, Keeps(view, c, now)
  PROVE  Keeps(pruneStale(view, now), c, now)
<1> DEFINE pruned == pruneStale(view, now)
<1>0. now \in Nat
  BY Clock DEF IInv
<1>1. /\ pruned \in [Context -> BucketMap]
      /\ \A p \in Context : \A b \in Bucket :
           /\ pruned[p][b] <= view[p][b]
           /\ b >= MinBucket(now) => pruned[p][b] = view[p][b]
  BY <1>0, Pruned DEF Keeps
<1>2. \A p \in Context : \A b \in Bucket :
        pruned[p][b] \in Nat /\ view[p][b] \in Nat /\ admitted[p][b] \in Nat
  BY <1>1 DEF Keeps, BucketMap, IInv, TypeOK
<1> HIDE DEF pruned
<1>3. \A p \in Context : \A b \in Bucket : pruned[p][b] <= admitted[p][b]
  BY <1>1, <1>2 DEF Keeps
<1>4. \A b \in Bucket : b >= MinBucket(now) => pruned[c][b] = admitted[c][b]
  BY <1>1 DEF Keeps
<1>5. Keeps(pruned, c, now)
  BY <1>1, <1>3, <1>4 DEF Keeps
<1> QED
  BY <1>5 DEF pruned

\* The invariant, context by context.
LEMMA Views ==
  IInv <=> TypeOK /\ MessagesTrue /\ \A c \in Context : ViewOK(c)
BY DEF ViewOK, IInv, Keeps, ViewNeverOvercounts, OwnCountExact, TypeOK

\* An admission counts once, on both sides.
LEMMA AdmitStep ==
  ASSUME IInv, NEW c \in Context, Admit(c)
  PROVE  IInv'
<1> DEFINE pruned == pruneStale(counters[c], now)
           b      == bucketIndexAt(now)
           view   == [pruned EXCEPT ![c][b] = @ + 1]
<1>1. /\ counters' = [counters EXCEPT ![c] = view]
      /\ admitted' = [admitted EXCEPT ![c][b] = @ + 1]
      /\ \/ sent' = sent \cup {OwnState(view, c)} /\ lastBroadcastAt' = [lastBroadcastAt EXCEPT ![c] = now]
         \/ UNCHANGED <<sent, lastBroadcastAt>>
      /\ UNCHANGED <<now, merged>>
  BY DEF Admit, Broadcast
<1>2. Keeps(pruned, c, now)
  BY Views, PrunedKeeps DEF ViewOK
<1>3. b \in Bucket /\ now \in Nat
  BY Clock DEF IInv
<1> HIDE DEF pruned, b
<1>4. /\ TypeOK /\ MessagesTrue
      /\ \A p \in Context : \A k \in Bucket : admitted[p][k] \in Nat
      /\ \A p \in Context : \A k \in Bucket : pruned[p][k] \in Nat
      /\ admitted \in [Context -> BucketMap]
  BY <1>2 DEF IInv, TypeOK, Keeps, BucketMap
<1>5. /\ admitted' \in [Context -> BucketMap]
      /\ \A p \in Context : \A k \in Bucket :
           admitted'[p][k] = IF p = c /\ k = b THEN admitted[p][k] + 1 ELSE admitted[p][k]
  BY <1>1, <1>3, <1>4 DEF BucketMap
<1>6. /\ view \in [Context -> BucketMap]
      /\ \A p \in Context : \A k \in Bucket :
           view[p][k] = IF p = c /\ k = b THEN pruned[p][k] + 1 ELSE pruned[p][k]
  BY <1>2, <1>3, <1>4 DEF BucketMap, Keeps
<1> HIDE DEF view
<1>7. /\ \A p \in Context : \A k \in Bucket : view[p][k] <= admitted'[p][k]
      /\ \A k \in Bucket : k >= MinBucket(now) => view[c][k] = admitted'[c][k]
  BY <1>2, <1>4, <1>5, <1>6 DEF Keeps
<1>8. TypeOK'
  <2>1. OwnState(view, c) \in GossipMessage
    BY <1>6 DEF OwnState, GossipMessage
  <2>2. sent' \in SUBSET GossipMessage
    BY <1>1, <1>4, <2>1 DEF TypeOK
  <2>3. lastBroadcastAt' \in [Context -> Int]
    BY <1>1, <1>3, <1>4 DEF TypeOK
  <2>4. counters' \in [Context -> [Context -> BucketMap]]
    BY <1>1, <1>4, <1>6 DEF TypeOK
  <2> QED
    BY <1>1, <1>4, <1>5, <2>2, <2>3, <2>4 DEF TypeOK
<1>9. MessagesTrue'
  <2> SUFFICES ASSUME NEW m \in sent', NEW k \in Bucket
               PROVE  m.buckets[k] <= admitted'[m.contextId][k]
    BY DEF MessagesTrue
  <2>1. CASE m \in sent
    <3>1. m \in GossipMessage /\ m.buckets[k] <= admitted[m.contextId][k]
      BY <1>4, <2>1 DEF TypeOK, MessagesTrue
    <3>2. m.contextId \in Context /\ m.buckets[k] \in Nat
      BY <3>1 DEF GossipMessage, BucketMap
    <3> QED
      BY <1>4, <1>5, <3>1, <3>2
  <2>2. CASE m = OwnState(view, c)
    BY <1>7, <2>2 DEF OwnState
  <2> QED
    BY <1>1, <2>1, <2>2
<1>10. ASSUME NEW o \in Context PROVE ViewOK(o)'
  <2>1. Keeps(counters[o], o, now)
    BY Views DEF ViewOK
  <2>2. CASE o = c
    BY <1>1, <1>4, <1>5, <1>6, <1>7, <2>2 DEF ViewOK, Keeps, TypeOK
  <2>3. CASE o # c
    <3>1. counters'[o] = counters[o] /\ now' = now
      BY <1>1, <1>4, <2>3 DEF TypeOK
    <3>2. \A p \in Context : \A k \in Bucket : counters[o][p][k] \in Nat
      BY <2>1 DEF Keeps, BucketMap
    <3>3. \A p \in Context : \A k \in Bucket : counters[o][p][k] <= admitted'[p][k]
      BY <1>4, <1>5, <2>1, <3>2 DEF Keeps
    <3>4. \A k \in Bucket : k >= MinBucket(now) => counters[o][o][k] = admitted'[o][k]
      BY <1>5, <2>1, <2>3 DEF Keeps
    <3> QED
      BY <2>1, <3>1, <3>3, <3>4 DEF ViewOK, Keeps
  <2> QED
    BY <2>2, <2>3
<1> QED
  BY <1>8, <1>9, <1>10 DEF ViewOK, IInv, Keeps, ViewNeverOvercounts, OwnCountExact, TypeOK

\* Joining in a message, of whatever age, keeps the view below the truth.
LEMMA ReceiveStep ==
  ASSUME IInv, NEW c \in Context, NEW m \in sent, Receive(c, m)
  PROVE  IInv'
<1> DEFINE joined == mergeGossip(counters[c], c, m)
<1>1. /\ counters' = [counters EXCEPT ![c] = pruneStale(joined, now)]
      /\ merged' = [merged EXCEPT ![c] = @ \cup {m}]
      /\ UNCHANGED <<now, lastBroadcastAt, sent, admitted>>
  BY DEF Receive
<1>2. /\ m \in GossipMessage /\ m.contextId \in Context /\ m.buckets \in BucketMap
      /\ \A b \in Bucket : m.buckets[b] <= admitted[m.contextId][b]
  BY DEF IInv, TypeOK, MessagesTrue, GossipMessage
<1>3. Keeps(counters[c], c, now)
  BY Views DEF ViewOK
<1>4. Keeps(joined, c, now)
  <2>1. CASE m.contextId = c
    BY <1>3, <2>1 DEF mergeGossip
  <2>2. CASE m.contextId # c
    <3> DEFINE other == joinBucketMaps(counters[c][m.contextId], m.buckets)
    <3>1. joined = [counters[c] EXCEPT ![m.contextId] = other]
      BY <2>2 DEF mergeGossip
    <3>2. counters[c] \in [Context -> BucketMap]
      BY <1>3 DEF Keeps
    <3>3. other \in BucketMap
      BY <1>2, <3>2 DEF joinBucketMaps, BucketMap
    <3>4. \A b \in Bucket : other[b] <= admitted[m.contextId][b]
      BY <1>2, <1>3 DEF joinBucketMaps, Keeps
    <3> HIDE DEF other, joined
    <3> QED
      BY <1>2, <1>3, <2>2, <3>1, <3>2, <3>3, <3>4 DEF Keeps
  <2> QED
    BY <2>1, <2>2
<1>5. Keeps(pruneStale(joined, now), c, now)
  BY <1>4, PrunedKeeps
<1> HIDE DEF joined
<1>6. TypeOK'
  BY <1>1, <1>2, <1>5 DEF IInv, TypeOK, Keeps
<1>7. ASSUME NEW o \in Context PROVE ViewOK(o)'
  <2>1. counters'[o] = IF o = c THEN pruneStale(joined, now) ELSE counters[o]
    BY <1>1 DEF IInv, TypeOK
  <2>2. Keeps(counters[o], o, now)
    BY Views DEF ViewOK
  <2> QED
    BY <1>1, <1>5, <2>1, <2>2 DEF ViewOK, Keeps
<1>8. MessagesTrue'
  BY <1>1 DEF IInv, MessagesTrue
<1> QED
  BY <1>6, <1>7, <1>8 DEF ViewOK, IInv, Keeps, ViewNeverOvercounts, OwnCountExact, TypeOK

\* A rejected call only prunes.
LEMMA DenyStep ==
  ASSUME IInv, NEW c \in Context, Deny(c)
  PROVE  IInv'
<1> DEFINE pruned == pruneStale(counters[c], now)
<1>1. /\ counters' = [counters EXCEPT ![c] = pruned]
      /\ UNCHANGED <<now, lastBroadcastAt, sent, admitted, merged>>
  BY DEF Deny, history
<1>2. Keeps(pruned, c, now)
  BY Views, PrunedKeeps DEF ViewOK
<1> HIDE DEF pruned
<1>3. TypeOK'
  BY <1>1, <1>2 DEF IInv, TypeOK, Keeps
<1>4. ASSUME NEW o \in Context PROVE ViewOK(o)'
  <2>1. counters'[o] = IF o = c THEN pruned ELSE counters[o]
    BY <1>1 DEF IInv, TypeOK
  <2>2. Keeps(counters[o], o, now)
    BY Views DEF ViewOK
  <2> QED
    BY <1>1, <1>2, <2>1, <2>2 DEF ViewOK, Keeps
<1>5. MessagesTrue'
  BY <1>1 DEF IInv, MessagesTrue
<1> QED
  BY <1>3, <1>4, <1>5 DEF ViewOK, IInv, Keeps, ViewNeverOvercounts, OwnCountExact, TypeOK

\* The clock only narrows the window in which counts must be exact.
LEMMA TickStep == IInv /\ Tick => IInv'
<1> SUFFICES ASSUME IInv, Tick PROVE IInv'
  OBVIOUS
<1>1. now \in Nat /\ MaxTime \in Nat /\ now' = now + 1 /\ now < MaxTime
      /\ UNCHANGED <<counters, lastBroadcastAt, sent, admitted, merged>>
  BY Clock DEF IInv, Tick, history
<1>2. MinBucket(now) \in Int /\ MinBucket(now') \in Int /\ MinBucket(now) <= MinBucket(now')
  BY <1>1, WindowAscends
<1>3. \A b \in Bucket : b \in Int
  BY DEF Bucket
<1>4. OwnCountExact'
  <2> SUFFICES ASSUME NEW c \in Context, NEW b \in Bucket, b >= MinBucket(now')
               PROVE  counters[c][c][b] = admitted[c][b]
    BY <1>1 DEF OwnCountExact, MinBucket
  <2>1. b >= MinBucket(now)
    BY <1>2, <1>3
  <2> QED
    BY <2>1 DEF IInv, OwnCountExact
<1> QED
  BY <1>1, <1>4 DEF IInv, TypeOK, MessagesTrue, ViewNeverOvercounts

-----------------------------------------------------------------------------
\* IInv holds in every reachable state.
THEOREM Inductive == Spec => []IInv
<1>1. Init => IInv
  <2> SUFFICES ASSUME Init PROVE IInv
    OBVIOUS
  <2>1. [b \in Bucket |-> 0] \in BucketMap
    BY DEF BucketMap
  <2>2. TypeOK
    BY <2>1, OptionsAssumption DEF Init, TypeOK
  <2> QED
    BY <2>2 DEF Init, IInv, MessagesTrue, ViewNeverOvercounts, OwnCountExact
<1>2. IInv /\ [Next]_vars => IInv'
  <2>1. IInv /\ UNCHANGED vars => IInv'
    BY DEF vars, history, IInv, TypeOK, MessagesTrue, ViewNeverOvercounts, OwnCountExact
  <2> QED
    BY <2>1, AdmitStep, DenyStep, ReceiveStep, TickStep DEF Next
<1> QED
  BY <1>1, <1>2, PTL DEF Spec

\* The types are right.
THEOREM TypeCorrect == Spec => []TypeOK
<1>1. IInv => TypeOK
  BY DEF IInv
<1> QED
  BY <1>1, Inductive, PTL

\* Whatever the channel does, no context believes a peer spent more than it did.
THEOREM NoOvercount == Spec => []ViewNeverOvercounts
<1>1. IInv => ViewNeverOvercounts
  BY DEF IInv
<1> QED
  BY <1>1, Inductive, PTL

\* Whatever the channel does, a context's count of its own admissions in the
\* window is exact.
THEOREM ExactOwnCount == Spec => []OwnCountExact
<1>1. IInv => OwnCountExact
  BY DEF IInv
<1> QED
  BY <1>1, Inductive, PTL

\* What a view has of a peer in the window is the join of the messages merged.
JoinOf(view, messages, c) ==
  \A p \in Context : \A b \in Bucket :
    c # p /\ b >= MinBucket(now) =>
      /\ \A m \in messages : m.contextId = p => m.buckets[b] <= view[p][b]
      /\ view[p][b] # 0 => \E m \in messages : m.contextId = p /\ m.buckets[b] = view[p][b]

\* Merging one more message keeps it, pruning included.
LEMMA MergeJoins ==
  ASSUME TypeOK, NEW c \in Context, NEW m \in sent, JoinOf(counters[c], merged[c], c)
  PROVE  JoinOf(pruneStale(mergeGossip(counters[c], c, m), now), merged[c] \cup {m}, c)
<1> DEFINE joined == mergeGossip(counters[c], c, m)
           pruned == pruneStale(joined, now)
<1>1. /\ now \in Nat /\ counters[c] \in [Context -> BucketMap]
      /\ m.contextId \in Context /\ m.buckets \in BucketMap
      /\ \A x \in merged[c] : \A b \in Bucket : x.buckets[b] \in Nat
  BY Clock DEF TypeOK, GossipMessage, BucketMap
<1>2. /\ joined \in [Context -> BucketMap]
      /\ \A p \in Context : \A b \in Bucket :
           p # c => joined[p][b] = IF p = m.contextId /\ counters[c][p][b] < m.buckets[b]
                                     THEN m.buckets[b] ELSE counters[c][p][b]
  <2>1. CASE m.contextId = c
    BY <1>1, <2>1 DEF mergeGossip
  <2>2. CASE m.contextId # c
    <3> DEFINE other == joinBucketMaps(counters[c][m.contextId], m.buckets)
    <3>1. joined = [counters[c] EXCEPT ![m.contextId] = other]
      BY <2>2 DEF mergeGossip
    <3>2. /\ other \in BucketMap
          /\ \A b \in Bucket : other[b] = IF counters[c][m.contextId][b] < m.buckets[b]
                                            THEN m.buckets[b] ELSE counters[c][m.contextId][b]
      BY <1>1 DEF joinBucketMaps, BucketMap
    <3> HIDE DEF other, joined
    <3> QED
      BY <1>1, <3>1, <3>2
  <2> QED
    BY <2>1, <2>2
<1> HIDE DEF joined
<1>3. \A p \in Context : \A b \in Bucket : b >= MinBucket(now) => pruned[p][b] = joined[p][b]
  BY <1>1, <1>2, Pruned
<1> HIDE DEF pruned
<1>4. ASSUME NEW p \in Context, NEW b \in Bucket, c # p, b >= MinBucket(now)
      PROVE  /\ \A x \in merged[c] \cup {m} : x.contextId = p => x.buckets[b] <= pruned[p][b]
             /\ pruned[p][b] # 0 => \E x \in merged[c] \cup {m} :
                                      x.contextId = p /\ x.buckets[b] = pruned[p][b]
  <2>1. pruned[p][b] = IF p = m.contextId /\ counters[c][p][b] < m.buckets[b]
                         THEN m.buckets[b] ELSE counters[c][p][b]
    BY <1>2, <1>3, <1>4
  <2>2. counters[c][p][b] \in Nat /\ m.buckets[b] \in Nat
    BY <1>1 DEF BucketMap
  <2>3. /\ \A x \in merged[c] : x.contextId = p => x.buckets[b] <= counters[c][p][b]
        /\ counters[c][p][b] # 0 =>
             \E x \in merged[c] : x.contextId = p /\ x.buckets[b] = counters[c][p][b]
    BY <1>4 DEF JoinOf
  <2> QED
    BY <1>1, <2>1, <2>2, <2>3
<1> QED
  BY <1>4 DEF JoinOf, pruned, joined

\* The order in which messages arrive, their repetition and the pruning in
\* between leave no trace in what a context knows of its peers.
THEOREM OrderForgotten == Spec => []ViewIsJoinOfMerged
<1> DEFINE Join(c) == JoinOf(counters[c], merged[c], c)
<1>1. ViewIsJoinOfMerged <=> \A c \in Context : Join(c)
  BY DEF ViewIsJoinOfMerged, JoinOf
<1>2. Init => ViewIsJoinOfMerged
  BY DEF Init, ViewIsJoinOfMerged
<1>3. TypeOK /\ ViewIsJoinOfMerged /\ [Next]_vars => ViewIsJoinOfMerged'
  <2> SUFFICES ASSUME TypeOK, ViewIsJoinOfMerged, [Next]_vars
               PROVE  ViewIsJoinOfMerged'
    OBVIOUS
  <2>1. now \in Nat /\ bucketIndexAt(now) \in Bucket
    BY Clock
  <2>2. ASSUME NEW o \in Context, Admit(o) \/ Deny(o) PROVE ViewIsJoinOfMerged'
    <3> DEFINE pruned == pruneStale(counters[o], now)
    <3>1. /\ now' = now /\ merged' = merged
          /\ \/ counters' = [counters EXCEPT ![o] = [pruned EXCEPT ![o][bucketIndexAt(now)] = @ + 1]]
             \/ counters' = [counters EXCEPT ![o] = pruned]
      BY <2>2 DEF Admit, Deny, history
    <3>2. /\ pruned \in [Context -> BucketMap]
          /\ \A p \in Context : \A b \in Bucket : b >= MinBucket(now) => pruned[p][b] = counters[o][p][b]
      BY <2>1, Pruned DEF TypeOK
    <3> HIDE DEF pruned
    <3>3. \A c, p \in Context : \A b \in Bucket :
            c # p /\ b >= MinBucket(now) => counters'[c][p][b] = counters[c][p][b]
      BY <3>1, <3>2 DEF TypeOK
    <3> QED
      BY <3>1, <3>3 DEF ViewIsJoinOfMerged, MinBucket, bucketIndexAt
  <2>3. ASSUME NEW o \in Context, NEW m \in sent, Receive(o, m) PROVE ViewIsJoinOfMerged'
    <3> DEFINE view == pruneStale(mergeGossip(counters[o], o, m), now)
    <3>1. /\ counters' = [counters EXCEPT ![o] = view]
          /\ merged' = [merged EXCEPT ![o] = @ \cup {m}]
          /\ now' = now
      BY <2>3 DEF Receive
    <3>2. JoinOf(view, merged[o] \cup {m}, o)
      BY <1>1, MergeJoins
    <3> HIDE DEF view
    <3>3. ASSUME NEW c \in Context PROVE JoinOf(counters'[c], merged'[c], c)
      <4>1. CASE c = o
        BY <3>1, <3>2, <4>1 DEF TypeOK
      <4>2. CASE c # o
        BY <1>1, <3>1, <4>2 DEF TypeOK
      <4> QED
        BY <4>1, <4>2
    <3> QED
      BY <3>1, <3>3 DEF ViewIsJoinOfMerged, JoinOf, MinBucket, bucketIndexAt
  <2>4. CASE Tick
    <3>1. now' \in Nat /\ now <= now' /\ UNCHANGED <<counters, merged>>
      BY <2>1, <2>4 DEF Tick, history
    <3>2. MinBucket(now) \in Int /\ MinBucket(now)' \in Int /\ MinBucket(now) <= MinBucket(now)'
      <4>1. /\ MinBucket(now) \in Int /\ MinBucket(now') \in Int
            /\ MinBucket(now) <= MinBucket(now')
        BY <2>1, <3>1, WindowAscends
      <4> QED
        BY <4>1 DEF MinBucket, bucketIndexAt
    <3>3. \A b \in Bucket : b \in Int /\ (b >= MinBucket(now)' => b >= MinBucket(now))
      BY <3>2 DEF Bucket
    <3> QED
      BY <3>1, <3>3 DEF ViewIsJoinOfMerged
  <2>5. CASE UNCHANGED vars
    BY <2>5 DEF vars, history, ViewIsJoinOfMerged, MinBucket, bucketIndexAt
  <2> QED
    BY <2>2, <2>3, <2>4, <2>5 DEF Next
<1> QED
  BY <1>2, <1>3, TypeCorrect, PTL DEF Spec

-----------------------------------------------------------------------------
(* The budget: sums of counts.                                             *)

\* Whatever holds of a set once it holds without any one of its elements holds
\* of every finite set.
LEMMA SubsetInduction ==
  ASSUME NEW S, IsFiniteSet(S), NEW Good,
         \A T \in SUBSET S : (\A x \in T : T \ {x} \in Good) => T \in Good
  PROVE  SUBSET S \subseteq Good
<1> DEFINE Bad == (SUBSET S) \ Good
           R == StrictSubsetOrdering(S)
<1> SUFFICES ASSUME Bad # {} PROVE FALSE
  OBVIOUS
<1>1. IsWellFoundedOn(R, SUBSET S)
  <2>1. FiniteSubsetsOf(S) = SUBSET S
    BY FS_FiniteSubsetsOfFinite
  <2>2. IsWellFoundedOn(StrictSubsetOrdering(S), FiniteSubsetsOf(S))
    BY FS_StrictSubsetOrderingWellFounded
  <2> QED
    BY <2>1, <2>2
<1>2. PICK T \in Bad : \A U \in Bad : ~ (<<U, T>> \in R)
  <2> HIDE DEF R
  <2>1. Bad \subseteq SUBSET S
    OBVIOUS
  <2> HIDE DEF Bad
  <2> QED
    BY <1>1, <2>1, WFMin
<1>3. ASSUME NEW x \in T PROVE T \ {x} \in Good
  <2>1. T \ {x} \in SUBSET S /\ T \in SUBSET S /\ T \ {x} # T
    OBVIOUS
  <2>2. <<T \ {x}, T>> \in R
    BY <2>1 DEF StrictSubsetOrdering
  <2> QED
    BY <1>2, <2>1, <2>2
<1> QED
  BY <1>2, <1>3

\* The recursion a sum is defined by.
Pick(s) == CHOOSE x \in s : TRUE
Adds(f, S, g) == g = [s \in SUBSET S |-> IF s = {} THEN 0 ELSE f[Pick(s)] + g[s \ {Pick(s)}]]

\* As many units for each element as it adds to a sum.
Block(f, x) == {x} \X (1 .. f[x])
Units(f, S) == UNION {Block(f, x) : x \in S}

\* An element brings in as many units as it adds, all of them its own.
LEMMA UnitsOfOneMore ==
  ASSUME NEW T, NEW f, NEW x \in T, f[x] \in Nat, IsFiniteSet(Units(f, T \ {x}))
  PROVE  /\ IsFiniteSet(Units(f, T))
         /\ Cardinality(Units(f, T)) = f[x] + Cardinality(Units(f, T \ {x}))
<1>1. Units(f, T) = Block(f, x) \cup Units(f, T \ {x})
  BY DEF Units
<1>2. Block(f, x) \cap Units(f, T \ {x}) = {}
  <2>1. \A y : \A u \in Block(f, y) : u[1] = y
    BY DEF Block
  <2> QED
    BY <2>1 DEF Units
<1>3. IsFiniteSet(Block(f, x)) /\ Cardinality(Block(f, x)) = f[x]
  <2>1. IsFiniteSet(1 .. f[x]) /\ Cardinality(1 .. f[x]) = f[x]
    BY FS_Interval
  <2>2. IsFiniteSet({x}) /\ Cardinality({x}) = 1
    BY FS_Singleton
  <2>3. IsFiniteSet(Block(f, x)) /\ Cardinality(Block(f, x)) = Cardinality({x}) * Cardinality(1 .. f[x])
    BY <2>1, <2>2, FS_Product DEF Block
  <2> QED
    BY <2>1, <2>2, <2>3
<1>4. Cardinality(Units(f, T \ {x})) \in Nat /\ Cardinality({}) = 0
  BY FS_CardinalityType, FS_EmptySet
<1>5. /\ IsFiniteSet(Block(f, x) \cup Units(f, T \ {x}))
      /\ Cardinality(Block(f, x) \cup Units(f, T \ {x}))
           = Cardinality(Block(f, x)) + Cardinality(Units(f, T \ {x}))
               - Cardinality(Block(f, x) \cap Units(f, T \ {x}))
  BY <1>3, FS_Union
<1>6. Cardinality(Block(f, x) \cap Units(f, T \ {x})) = 0
  BY <1>2, <1>4
<1>7. Cardinality(Block(f, x) \cup Units(f, T \ {x})) = f[x] + Cardinality(Units(f, T \ {x}))
  BY <1>3, <1>4, <1>5, <1>6
<1> QED
  BY <1>1, <1>5, <1>7

\* The recursion has one solution, the number of units, so that is the sum.
LEMMA SumCounts ==
  ASSUME NEW S, IsFiniteSet(S), NEW f, \A x \in S : f[x] \in Nat
  PROVE  /\ IsFiniteSet(Units(f, S))
         /\ SumFunctionOnSet(f, S) = Cardinality(Units(f, S))
<1> DEFINE Finite == {T \in SUBSET S : IsFiniteSet(Units(f, T))}
           count  == [T \in SUBSET S |-> Cardinality(Units(f, T))]
<1>0. Units(f, {}) = {}
  BY DEF Units
<1>1. SUBSET S \subseteq Finite
  <2>1. ASSUME NEW T \in SUBSET S, \A x \in T : T \ {x} \in Finite
        PROVE  T \in Finite
    <3>1. CASE T = {}
      BY <1>0, <3>1, FS_EmptySet
    <3>2. CASE T # {}
      BY <2>1, <3>2, UnitsOfOneMore
    <3> QED
      BY <3>1, <3>2
  <2> HIDE DEF Finite
  <2> QED
    BY <2>1, SubsetInduction
<1>2. ASSUME NEW T \in SUBSET S
      PROVE  count[T] = IF T = {} THEN 0 ELSE f[Pick(T)] + count[T \ {Pick(T)}]
  <2>1. CASE T = {}
    BY <1>0, <2>1, FS_EmptySet
  <2>2. CASE T # {}
    <3>1. Pick(T) \in T /\ T \ {Pick(T)} \in SUBSET S
      BY <2>2 DEF Pick
    <3> QED
      BY <1>1, <2>2, <3>1, UnitsOfOneMore
  <2> QED
    BY <2>1, <2>2
<1>3. Adds(f, S, count)
  <2>1. count = [T \in SUBSET S |-> count[T]]
    OBVIOUS
  <2> HIDE DEF count
  <2> QED
    BY <1>2, <2>1 DEF Adds
<1>4. ASSUME NEW g, Adds(f, S, g) PROVE g[S] = count[S]
  <2> DEFINE Same == {T \in SUBSET S : g[T] = count[T]}
  <2> HIDE DEF count
  <2>1. ASSUME NEW T \in SUBSET S, \A x \in T : T \ {x} \in Same
        PROVE  T \in Same
    <3>1. g[T] = IF T = {} THEN 0 ELSE f[Pick(T)] + g[T \ {Pick(T)}]
      BY <1>4 DEF Adds
    <3>2. T # {} => Pick(T) \in T
      BY DEF Pick
    <3> QED
      BY <1>2, <2>1, <3>1, <3>2
  <2> HIDE DEF Same
  <2>2. SUBSET S \subseteq Same
    BY <2>1, SubsetInduction
  <2> QED
    BY <2>2 DEF Same
<1>5. SumFunctionOnSet(f, S) = (CHOOSE g : Adds(f, S, g))[S]
  BY DEF SumFunctionOnSet, FoldFunctionOnSet, MapThenFoldSet, Pick, Adds
<1>6. Adds(f, S, CHOOSE g : Adds(f, S, g))
  <2> HIDE DEF count
  <2> QED
    BY <1>3
<1>7. SumFunctionOnSet(f, S) = count[S]
  <2> HIDE DEF count
  <2> QED
    BY <1>4, <1>5, <1>6
<1> QED
  BY <1>1, <1>7

\* A sum of natural numbers is one.
LEMMA SumIsNat ==
  ASSUME NEW S, IsFiniteSet(S), NEW f, \A x \in S : f[x] \in Nat
  PROVE  SumFunctionOnSet(f, S) \in Nat
BY SumCounts, FS_CardinalityType

\* A sum over more elements, each counting at least as much, is no smaller.
LEMMA SumMonotone ==
  ASSUME NEW S, IsFiniteSet(S), NEW f, \A x \in S : f[x] \in Nat,
         NEW g, NEW R \in SUBSET S, \A x \in R : g[x] \in Nat /\ g[x] <= f[x]
  PROVE  SumFunctionOnSet(g, R) <= SumFunctionOnSet(f, S)
<1>1. IsFiniteSet(R)
  BY FS_Subset
<1>2. Units(g, R) \subseteq Units(f, S)
  <2>1. \A x \in R : Block(g, x) \subseteq Block(f, x)
    BY DEF Block
  <2> QED
    BY <2>1 DEF Units
<1>3. /\ IsFiniteSet(Units(f, S)) /\ SumFunctionOnSet(f, S) = Cardinality(Units(f, S))
      /\ SumFunctionOnSet(g, R) = Cardinality(Units(g, R))
  BY <1>1, SumCounts
<1> QED
  BY <1>2, <1>3, FS_Subset

\* Elements that count nothing may be left out.
LEMMA SumWithin ==
  ASSUME NEW S, IsFiniteSet(S), NEW f, \A x \in S : f[x] \in Nat,
         NEW R \in SUBSET S, \A x \in S \ R : f[x] = 0,
         NEW g, \A x \in R : g[x] \in Nat /\ f[x] <= g[x]
  PROVE  SumFunctionOnSet(f, S) <= SumFunctionOnSet(g, R)
<1>1. IsFiniteSet(R)
  BY FS_Subset
<1>2. Units(f, S) \subseteq Units(g, R)
  <2>1. \A x \in R : Block(f, x) \subseteq Block(g, x)
    BY DEF Block
  <2>2. \A x \in S \ R : Block(f, x) = {}
    BY DEF Block
  <2> QED
    BY <2>1, <2>2 DEF Units
<1>3. /\ IsFiniteSet(Units(g, R)) /\ SumFunctionOnSet(f, S) = Cardinality(Units(f, S))
      /\ SumFunctionOnSet(g, R) = Cardinality(Units(g, R))
  BY <1>1, SumCounts
<1> QED
  BY <1>2, <1>3, FS_Subset

\* A sum to which an element adds something is not 0.
LEMMA SumPositive ==
  ASSUME NEW S, IsFiniteSet(S), NEW f, \A x \in S : f[x] \in Nat, NEW y \in S, f[y] # 0
  PROVE  SumFunctionOnSet(f, S) > 0
<1>1. <<y, 1>> \in Units(f, S)
  BY DEF Units, Block
<1>2. IsFiniteSet(Units(f, S)) /\ SumFunctionOnSet(f, S) = Cardinality(Units(f, S))
  BY SumCounts
<1>3. Cardinality(Units(f, S)) # 0 /\ Cardinality(Units(f, S)) \in Nat
  BY <1>1, <1>2, FS_EmptySet, FS_CardinalityType
<1> QED
  BY <1>2, <1>3

\* The buckets are finitely many.
LEMMA BucketsFinite == IsFiniteSet(Bucket)
<1>1. bucketIndexAt(MaxTime) \in Nat
  BY OptionsAssumption, BucketsAscend
<1> QED
  BY <1>1, FS_Interval DEF Bucket

\* What a context counts when it is called: no more than was admitted in the
\* window, and all of that if it is up to date.
LEMMA SeenIsSpent ==
  ASSUME IInv, NEW c \in Context, NEW p \in Context
  PROVE  LET pruned == pruneStale(counters[c], now)
             seen   == SumFunctionOnSet(pruned[p], Bucket)
         IN  /\ seen \in Nat /\ Spent(admitted[p]) \in Nat
             /\ seen <= Spent(admitted[p])
             /\ UpToDate(c) => Spent(admitted[p]) <= seen
             /\ (\E b \in Bucket : pruned[p][b] > 0) => Spent(admitted[p]) > 0
<1> DEFINE pruned == pruneStale(counters[c], now)
           window == {b \in Bucket : b >= MinBucket(now)}
<1>1. /\ now \in Nat /\ MinBucket(now) \in Int /\ \A b \in Bucket : b \in Int
      /\ counters[c] \in [Context -> BucketMap]
      /\ \A b \in Bucket : admitted[p][b] \in Nat /\ counters[c][p][b] <= admitted[p][b]
  BY Clock, WindowAscends DEF IInv, TypeOK, BucketMap, ViewNeverOvercounts
<1>2. \A b \in Bucket : /\ pruned[p][b] = IF b < MinBucket(now) THEN 0 ELSE counters[c][p][b]
                        /\ counters[c][p][b] \in Nat
  BY <1>1 DEF pruneStale, BucketMap
<1> HIDE DEF pruned
<1>3. /\ \A b \in Bucket : pruned[p][b] \in Nat
      /\ \A b \in Bucket \ window : pruned[p][b] = 0
      /\ \A b \in window : admitted[p][b] \in Nat /\ pruned[p][b] <= admitted[p][b]
      /\ UpToDate(c) => \A b \in window : admitted[p][b] <= pruned[p][b]
  BY <1>1, <1>2 DEF UpToDate
<1>4. IsFiniteSet(Bucket) /\ window \in SUBSET Bucket /\ IsFiniteSet(window)
  BY BucketsFinite, FS_Subset
<1>5. Spent(admitted[p]) = SumFunctionOnSet(admitted[p], window)
  BY DEF Spent
<1> HIDE DEF window
<1>6. SumFunctionOnSet(pruned[p], Bucket) \in Nat /\ SumFunctionOnSet(admitted[p], window) \in Nat
  BY <1>3, <1>4, SumIsNat
<1>7. SumFunctionOnSet(pruned[p], Bucket) <= SumFunctionOnSet(admitted[p], window)
  BY <1>3, <1>4, SumWithin
<1>8. UpToDate(c) => SumFunctionOnSet(admitted[p], window) <= SumFunctionOnSet(pruned[p], Bucket)
  BY <1>3, <1>4, SumMonotone
<1>9. (\E b \in Bucket : pruned[p][b] > 0) => SumFunctionOnSet(admitted[p], window) > 0
  <2> SUFFICES ASSUME NEW b \in Bucket, pruned[p][b] > 0 PROVE SumFunctionOnSet(admitted[p], window) > 0
    OBVIOUS
  <2>1. b \in window /\ admitted[p][b] # 0
    BY <1>3
  <2> QED
    BY <1>3, <1>4, <2>1, SumPositive
<1> QED
  BY <1>5, <1>6, <1>7, <1>8, <1>9 DEF pruned

\* A quotient rounded up, times the divisor, is no less than the dividend.
LEMMA CeilDivCovers ==
  ASSUME NEW a \in Nat \ {0}, NEW k \in Nat \ {0}, NEW n \in Nat, k <= n,
         NEW own \in Nat, NEW s \in Nat, CeilDiv(a, k) <= own, own <= s
  PROVE  s * n >= a
<1> DEFINE q == (a + k - 1) \div k
<1>1. q \in Int /\ a + k - 1 = k * q + ((a + k - 1) % k) /\ (a + k - 1) % k < k /\ (a + k - 1) % k \in Int
  BY SMTT(30)
<1>2. q <= own
  BY DEF CeilDiv
<1> HIDE DEF q
<1>3. k * q >= a
  <2>1. k * q \in Int
    BY <1>1
  <2> QED
    BY <1>1, <2>1
<1>4. k * q <= k * own
  BY <1>1, <1>2, SMTT(30)
<1>5. k * own <= n * own
  BY SMTT(30)
<1>6. n * own <= n * s
  BY SMTT(30)
<1>7. k * q \in Int /\ k * own \in Int /\ n * own \in Int /\ n * s = s * n /\ n * s \in Int
  BY <1>1
<1> QED
  BY <1>3, <1>4, <1>5, <1>6, <1>7

\* A call is admitted beyond what a context has heard of only if there is some
\* budget left, and refused only if none is.
LEMMA DecisionJust ==
  ASSUME IInv, NEW c \in Context
  PROVE  IF Admits(c) THEN UpToDate(c) => Combined(admitted) < Budget
                      ELSE \/ Combined(admitted) >= Budget
                           \/ Spent(admitted[c]) * Cardinality(Active(c)) >= Budget
<1> DEFINE pruned == pruneStale(counters[c], now)
           seen   == [p \in Context |-> SumFunctionOnSet(pruned[p], Bucket)]
           spent  == [p \in Context |-> Spent(admitted[p])]
<1>1. pruned \in [Context -> BucketMap]
  BY Clock, Pruned DEF IInv, TypeOK
<1>2. /\ globalEstimate(pruned) = SumFunctionOnSet(seen, Context)
      /\ SumFunction(pruned[c]) = SumFunctionOnSet(pruned[c], Bucket)
  BY <1>1 DEF globalEstimate, SumFunction, BucketMap
<1>3. Combined(admitted) = SumFunctionOnSet(spent, Context)
  BY DEF Combined, SumFunction
<1>4. /\ \A p \in Context : /\ seen[p] \in Nat /\ spent[p] \in Nat /\ seen[p] <= spent[p]
                            /\ UpToDate(c) => spent[p] <= seen[p]
      /\ \A p \in Context : (\E b \in Bucket : pruned[p][b] > 0) => Spent(admitted[p]) > 0
  BY SeenIsSpent
<1>5. SumFunction(pruned[c]) = seen[c] /\ Spent(admitted[c]) = spent[c]
  BY <1>2
<1>6. Admits(c) <=> /\ globalEstimate(pruned) + 1 <= Budget
                    /\ SumFunction(pruned[c]) + 1 <= CeilDiv(Budget, Cardinality(Known(pruned, c)))
  BY DEF Admits, Admissible, fairShare
<1>7. /\ IsFiniteSet(Active(c)) /\ Cardinality(Active(c)) \in Nat
      /\ Cardinality(Known(pruned, c)) \in Nat \ {0}
      /\ Cardinality(Known(pruned, c)) <= Cardinality(Active(c))
  <2>1. Known(pruned, c) \subseteq Active(c) /\ Active(c) \in SUBSET Context /\ c \in Known(pruned, c)
    BY <1>4 DEF Known, Active
  <2>2. IsFiniteSet(Active(c))
    BY <2>1, ContextAssumption, FS_Subset
  <2>3. IsFiniteSet(Known(pruned, c)) /\ Cardinality(Known(pruned, c)) <= Cardinality(Active(c))
    BY <2>1, <2>2, FS_Subset
  <2> QED
    BY <2>1, <2>2, <2>3, FS_CardinalityType, FS_EmptySet
<1> HIDE DEF pruned, seen, spent
<1>8. /\ SumFunctionOnSet(seen, Context) \in Nat /\ SumFunctionOnSet(spent, Context) \in Nat
      /\ SumFunctionOnSet(seen, Context) <= SumFunctionOnSet(spent, Context)
      /\ UpToDate(c) => SumFunctionOnSet(spent, Context) <= SumFunctionOnSet(seen, Context)
  <2>1. SumFunctionOnSet(seen, Context) \in Nat /\ SumFunctionOnSet(spent, Context) \in Nat
    BY <1>4, ContextAssumption, SumIsNat
  <2>2. SumFunctionOnSet(seen, Context) <= SumFunctionOnSet(spent, Context)
    BY <1>4, ContextAssumption, SumMonotone
  <2>3. UpToDate(c) => SumFunctionOnSet(spent, Context) <= SumFunctionOnSet(seen, Context)
    BY <1>4, ContextAssumption, SumMonotone
  <2> QED
    BY <2>1, <2>2, <2>3
<1>9. CASE Admits(c)
  BY <1>2, <1>3, <1>6, <1>8, <1>9, OptionsAssumption
<1>10. CASE ~ (globalEstimate(pruned) + 1 <= Budget)
  <2>1. Combined(admitted) >= Budget
    BY <1>2, <1>3, <1>8, <1>10, OptionsAssumption
  <2> QED
    BY <1>6, <1>10, <2>1
<1>11. CASE ~ (SumFunction(pruned[c]) + 1 <= CeilDiv(Budget, Cardinality(Known(pruned, c))))
  <2> DEFINE k == Cardinality(Known(pruned, c))
             n == Cardinality(Active(c))
  <2>1. Budget \in Nat \ {0} /\ k \in Nat \ {0} /\ n \in Nat /\ k <= n
    BY <1>7, OptionsAssumption
  <2>2. seen[c] \in Nat /\ spent[c] \in Nat /\ seen[c] <= spent[c]
    BY <1>4
  <2>3. CeilDiv(Budget, k) <= seen[c]
    <3>1. CeilDiv(Budget, k) \in Int
      BY <2>1, SMTT(30) DEF CeilDiv
    <3> QED
      BY <1>5, <1>11, <2>2, <3>1
  <2> HIDE DEF k, n
  <2>4. spent[c] * n >= Budget
    BY <2>1, <2>2, <2>3, CeilDivCovers
  <2> QED
    BY <1>5, <1>6, <1>11, <2>4 DEF n
<1> QED
  BY <1>6, <1>9, <1>10, <1>11

\* Admissions keep to the budget where gossip has come through, and no call is
\* refused while there is some left, whatever gossip did: for any number of
\* contexts, any budget and any window.
THEOREM BudgetShared == Spec => []BudgetHonoured
<1>1. IInv => BudgetHonoured
  BY DecisionJust DEF BudgetHonoured
<1> QED
  BY <1>1, Inductive, PTL

=============================================================================
