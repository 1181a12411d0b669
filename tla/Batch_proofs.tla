------------------------------ MODULE Batch_proofs ------------------------------
(***************************************************************************)
(* The scheduler of BatchRiskOracleAdapter for any requests, deadlines,    *)
(* weights and latencies: it accounts for every slot of the pool, leaves   *)
(* nothing queued next to a free slot, looks at every queued entry again   *)
(* before its deadline, and starts and rejects entries fairly.             *)
(***************************************************************************)
EXTENDS Batch, FiniteSetTheorems, WellFoundedInduction, TLAPS

InPool == {r.entry : r \in running}

\* Every entry is at one place: queued, running or about to be released.
OnePlace ==
  /\ queue \cap InPool = {}
  /\ queue \cap releasing = {}
  /\ releasing \cap InPool = {}
  /\ \A r, t \in running : r.entry = t.entry => r = t

AllFinite == IsFiniteSet(queue) /\ IsFiniteSet(running) /\ IsFiniteSet(releasing)

\* Entries belong to calls made so far.
Known == \A e \in queue \cup InPool \cup releasing : e.call \in 1 .. Len(results)

Row == UNION {[1 .. n -> Status] : n \in Nat}
ResultsOK == results \in Seq(Row)

\* WatchedLater adds to QueueWatched that the timer is set, without which time
\* could pass a deadline.
WatchedLater == queue # {} => timer # NoTimer

IInv == /\ TypeOK /\ ResultsOK /\ AllFinite /\ Known /\ OnePlace
        /\ SlotsAccounted /\ QueueWatched /\ WatchedLater

-----------------------------------------------------------------------------
\* The community definitions of the least and the greatest of two.
LEMMA MinOfTwo ==
  ASSUME NEW a \in Int, NEW b \in Int
  PROVE  Min({a, b}) = IF a <= b THEN a ELSE b
<1> DEFINE m == IF a <= b THEN a ELSE b
<1>1. m \in {a, b} /\ \A y \in {a, b} : m <= y
  OBVIOUS
<1>2. \A x \in {a, b} : (\A y \in {a, b} : x <= y) => x = m
  OBVIOUS
<1> QED
  BY <1>1, <1>2 DEF Min

LEMMA MaxOfTwo ==
  ASSUME NEW a \in Int, NEW b \in Int
  PROVE  Max({a, b}) = IF a >= b THEN a ELSE b
<1> DEFINE m == IF a >= b THEN a ELSE b
<1>1. m \in {a, b} /\ \A y \in {a, b} : m >= y
  OBVIOUS
<1>2. \A x \in {a, b} : (\A y \in {a, b} : x >= y) => x = m
  OBVIOUS
<1> QED
  BY <1>1, <1>2 DEF Max

\* The records of started calls are as many as the entries started.
LEMMA AsManyRunning ==
  ASSUME NEW S, IsFiniteSet(S), NEW t
  PROVE  LET R == {[entry |-> e, startedAt |-> t] : e \in S}
         IN IsFiniteSet(R) /\ Cardinality(R) = Cardinality(S)
<1> DEFINE R == {[entry |-> e, startedAt |-> t] : e \in S}
           f == [e \in S |-> [entry |-> e, startedAt |-> t]]
<1>1. f \in [S -> R]
  OBVIOUS
<1>2. \A d, e \in S : f[d] = f[e] => d = e
  OBVIOUS
<1>3. \A r \in R : \E e \in S : f[e] = r
  OBVIOUS
<1>4. f \in Bijection(S, R)
  BY <1>1, <1>2, <1>3 DEF Bijection, Injection, Surjection, IsInjective
<1>5. ExistsBijection(S, R)
  BY <1>4 DEF ExistsBijection
<1> QED
  BY <1>5, FS_Bijection

\* The estimator's bound is a latency, never negative.
LEMMA BoundIsNat ==
  ASSUME samples \in Seq(Nat)
  PROVE  quantile \subseteq Nat
<1>1. \A a \in Nat : CeilDiv(a, 100) \in Nat
  BY DEF CeilDiv
<1>2. InitialEstimateMs * (50 + TargetConfidence) \in Nat
  BY OptionsAssumption
<1>3. CASE Cold
  BY <1>1, <1>2, <1>3 DEF quantile
<1>4. CASE ~Cold
  <2> DEFINE rank == TargetConfidence * (Len(samples) - 1)
             weight == rank % 100
  <2>1. weight \in 0 .. 99
    <3>1. rank \in Int
      BY OptionsAssumption
    <3>2. \A n \in Int : n % 100 \in 0 .. 99
      OBVIOUS
    <3> QED
      BY <3>1, <3>2
  <2>2. ASSUME NEW k, NEW v \in AtRank(k)
        PROVE  v \in Nat
    BY <2>2 DEF AtRank, Range
  <2> HIDE DEF weight
  <2>3. ASSUME NEW lower \in Nat, NEW upper \in Nat
        PROVE  lower * (100 - weight) + upper * weight \in Nat
    <3>1. 100 - weight \in Nat /\ weight \in Nat
      BY <2>1
    <3>2. lower * (100 - weight) \in Nat /\ upper * weight \in Nat
      BY <3>1
    <3> QED
      BY <3>2
  <2>4. ASSUME NEW b \in quantile
        PROVE  b \in Nat
    <3>1. PICK lower \in AtRank(rank \div 100), upper \in AtRank(CeilDiv(rank, 100)) :
             b = CeilDiv(lower * (100 - weight) + upper * weight, 100)
      BY <1>4 DEF quantile, weight
    <3> QED
      BY <1>1, <2>2, <2>3, <3>1
  <2> QED
    BY <2>4
<1> QED
  BY <1>3, <1>4

\* The timer of a pass comes later than now and by every deadline.
LEMMA TimerInTime ==
  ASSUME now \in Nat, samples \in Seq(Nat),
         NEW q, q # {}, \A e \in q : e.deadlineAt \in Nat /\ now < e.deadlineAt,
         NEW t \in WakeUp(q)
  PROVE  /\ t \in Nat /\ now < t
         /\ \A e \in q : t <= e.deadlineAt
<1>7. PICK bound \in quantile : \E delay \in Soonest(q, bound) : t = now + delay
  BY DEF WakeUp
<1>1. PICK delay \in Soonest(q, bound) : t = now + delay
  BY <1>7
<1>2. bound \in Nat
  BY BoundIsNat
<1> DEFINE wait(e) == Max({1, e.deadlineAt - now - bound})
<1>3. \A e \in q : /\ wait(e) \in Nat \ {0}
                   /\ wait(e) <= e.deadlineAt - now
  BY <1>2, MaxOfTwo
<1>4. delay \in {MAX_POLL_MS} \cup {wait(e) : e \in q}
  BY <1>1 DEF Soonest
<1>5. \A e \in q : delay <= wait(e)
  BY <1>1 DEF Soonest
<1> HIDE DEF wait
<1>6. delay \in Nat \ {0}
  BY <1>3, <1>4, OptionsAssumption
<1> QED
  BY <1>1, <1>3, <1>5, <1>6
-----------------------------------------------------------------------------
\* finish fills results in and adds none.
LEMMA FinishKeepsShape ==
  ASSUME NEW res \in Seq(Row), NEW S, NEW status \in Status
  PROVE  /\ Finish(res, S, status) \in Seq(Row)
         /\ Len(Finish(res, S, status)) = Len(res)
<1> DEFINE row(c) == [i \in DOMAIN res[c] |->
                        IF \E e \in S : e.call = c /\ i \in e.indices THEN status ELSE res[c][i]]
<1>1. ASSUME NEW c \in 1 .. Len(res)
      PROVE  row(c) \in Row
  <2>3. res[c] \in Row
    BY <1>1
  <2>1. PICK n \in Nat : res[c] \in [1 .. n -> Status]
    BY <2>3 DEF Row
  <2>2. row(c) \in [1 .. n -> Status]
    BY <2>1
  <2> QED
    BY <2>1, <2>2 DEF Row
<1>2. Finish(res, S, status) = [c \in 1 .. Len(res) |-> row(c)]
  BY DEF Finish
<1>3. Len(res) \in Nat
  OBVIOUS
<1> HIDE DEF row
<1>4. [c \in 1 .. Len(res) |-> row(c)] \in Seq(Row)
  BY <1>1, <1>3
<1>5. Len([c \in 1 .. Len(res) |-> row(c)]) = Len(res)
  BY <1>3
<1> QED
  BY <1>2, <1>4, <1>5

\* What a pass starts fills the free slots, or all candidates start.
LEMMA BestFills ==
  ASSUME NEW candidates, IsFiniteSet(candidates), NEW n \in Nat,
         NEW S \in Best(candidates, n)
  PROVE  /\ IsFiniteSet(S) /\ S \subseteq candidates
         /\ Cardinality(S) \in Nat /\ Cardinality(S) <= n
         /\ S # candidates => Cardinality(S) = n
<1>1. S \subseteq candidates /\ Cardinality(S) = Min({n, Cardinality(candidates)})
  BY DEF Best
<1>2. Cardinality(candidates) \in Nat
  BY FS_CardinalityType
<1>3. IsFiniteSet(S) /\ (Cardinality(candidates) = Cardinality(S) => candidates = S)
  BY <1>1, FS_Subset
<1>4. Cardinality(S) = IF n <= Cardinality(candidates) THEN n ELSE Cardinality(candidates)
  BY <1>1, <1>2, MinOfTwo
<1> QED
  BY <1>1, <1>2, <1>3, <1>4

\* Started entries join the pool.
LEMMA PoolGrows ==
  ASSUME NEW started, running' = running \cup {[entry |-> e, startedAt |-> now] : e \in started}
  PROVE  InPool' = InPool \cup started
<1> DEFINE new == {[entry |-> e, startedAt |-> now] : e \in started}
<1>1. {r.entry : r \in new} = started
  <2>1. \A r \in new : r.entry \in started
    OBVIOUS
  <2>2. \A e \in started : [entry |-> e, startedAt |-> now] \in new
    OBVIOUS
  <2>3. \A e \in started : [entry |-> e, startedAt |-> now].entry = e
    OBVIOUS
  <2> HIDE DEF new
  <2>4. started \subseteq {r.entry : r \in new}
    BY <2>2, <2>3
  <2> QED
    BY <2>1, <2>4
<1>2. running' = running \cup new
  OBVIOUS
<1> HIDE DEF new
<1>3. InPool' = InPool \cup {r.entry : r \in new}
  BY <1>2 DEF InPool
<1> QED
  BY <1>1, <1>3

\* A scheduling pass establishes the invariant, from a queue q, busy slots and
\* results res that fit the calls in the pool and the entries rel not yet
\* released.
LEMMA PassStep ==
  ASSUME NEW q, NEW busy \in Nat, NEW res \in Seq(Row), NEW rel,
         scheduleTick(q, busy, res), releasing' = rel, now' = now, samples' = samples,
         now \in Nat, samples \in Seq(Nat),
         \A e \in q : e.deadlineAt \in Nat,
         \A r \in running : r.startedAt \in Nat /\ r.startedAt <= now,
         IsFiniteSet(q), IsFiniteSet(running), IsFiniteSet(rel),
         \A e \in q \cup InPool \cup rel : e.call \in 1 .. Len(res),
         q \cap InPool = {}, q \cap rel = {}, rel \cap InPool = {},
         \A r, t \in running : r.entry = t.entry => r = t,
         busy = Cardinality(running) + Cardinality(rel), busy <= MaxConcurrency
  PROVE  IInv'
<1> DEFINE admitted == {e \in q : Feasible(e)}
           late     == q \ admitted
<1>1. PICK started \in Best(admitted, FreeSlots(busy)) :
        /\ queue' = admitted \ started
        /\ running' = running \cup {[entry |-> e, startedAt |-> now] : e \in started}
        /\ inFlight' = busy + Cardinality(started)
        /\ results' = Finish(res, late, "deadline-rejected")
        /\ timer' \in WakeUp(admitted \ started)
  BY DEF scheduleTick
<1> DEFINE new == {[entry |-> e, startedAt |-> now] : e \in started}
<1>2. FreeSlots(busy) \in Nat /\ FreeSlots(busy) = MaxConcurrency - busy
  BY OptionsAssumption DEF FreeSlots
<1>3. IsFiniteSet(admitted) /\ admitted \subseteq q
  BY FS_Subset
<1>4. \A e \in admitted : now < e.deadlineAt
  BY DEF Feasible
<1> HIDE DEF admitted
<1>5. /\ IsFiniteSet(started) /\ started \subseteq admitted
      /\ Cardinality(started) \in Nat /\ Cardinality(started) <= FreeSlots(busy)
      /\ started # admitted => Cardinality(started) = FreeSlots(busy)
  BY <1>2, <1>3, BestFills
<1>6. IsFiniteSet(new) /\ Cardinality(new) = Cardinality(started)
  BY <1>5, AsManyRunning
<1>7. running \cap new = {}
  BY <1>3, <1>5 DEF InPool
<1>8. /\ Cardinality(running) \in Nat /\ Cardinality(rel) \in Nat
      /\ Cardinality(running') = Cardinality(running) + Cardinality(started)
      /\ IsFiniteSet(running')
  <2>1. running' = running \cup new
    BY <1>1
  <2> HIDE DEF new
  <2>2. Cardinality({}) = 0
    BY FS_EmptySet
  <2>3. /\ IsFiniteSet(running \cup new)
        /\ Cardinality(running \cup new)
             = Cardinality(running) + Cardinality(new) - Cardinality(running \cap new)
    BY <1>6, FS_Union
  <2>4. Cardinality(running) \in Nat /\ Cardinality(rel) \in Nat
    BY FS_CardinalityType
  <2>5. Cardinality(running \cap new) = 0
    BY <1>7, <2>2
  <2> QED
    BY <1>5, <1>6, <2>1, <2>3, <2>4, <2>5
<1>9. InPool' = InPool \cup started
  BY <1>1, PoolGrows
<1>10. queue' = admitted \ started /\ queue' \subseteq q
  BY <1>1, <1>3
<1>11. SlotsAccounted'
  <2>1. inFlight' = Cardinality(running') + Cardinality(releasing')
    BY <1>1, <1>5, <1>8
  <2>2. inFlight' <= MaxConcurrency
    BY <1>1, <1>2, <1>5, OptionsAssumption
  <2> QED
    BY <2>1, <2>2 DEF SlotsAccounted
<1>12. OnePlace'
  <2>1. /\ queue' \cap InPool' = {} /\ queue' \cap releasing' = {}
        /\ releasing' \cap InPool' = {}
    BY <1>3, <1>5, <1>9, <1>10
  <2>2. ASSUME NEW r \in running', NEW t \in running', r.entry = t.entry
        PROVE  r = t
    <3>1. CASE r \in running /\ t \in running
      BY <2>2, <3>1
    <3>2. CASE r \in new /\ t \in new
      BY <2>2, <3>2
    <3>3. \A x \in running, y \in new : x.entry # y.entry
      BY <1>3, <1>5 DEF InPool
    <3> QED
      BY <1>1, <2>2, <3>1, <3>2, <3>3
  <2> QED
    BY <2>1, <2>2 DEF OnePlace
<1>13. ResultsOK' /\ Len(results') = Len(res)
  <2>1. "deadline-rejected" \in Status
    BY DEF Status
  <2> HIDE DEF late
  <2> QED
    BY <1>1, <2>1, FinishKeepsShape DEF ResultsOK
<1>14. Known'
  BY <1>3, <1>5, <1>9, <1>10, <1>13 DEF Known
<1>15. AllFinite'
  BY <1>3, <1>8, <1>10, FS_Subset DEF AllFinite
<1>16. ASSUME queue' # {}
       PROVE  /\ timer' \in Nat /\ now < timer'
              /\ \A e \in queue' : timer' <= e.deadlineAt
  <2>1. \A e \in queue' : e.deadlineAt \in Nat /\ now < e.deadlineAt
    BY <1>3, <1>4, <1>10
  <2>2. timer' \in WakeUp(queue')
    BY <1>1
  <2> QED
    BY <1>16, <2>1, <2>2, TimerInTime
<1>17. queue' = {} => timer' = NoTimer
  <2> SUFFICES ASSUME queue' = {} PROVE timer' = NoTimer
    OBVIOUS
  <2>1. timer' \in WakeUp({})
    BY <1>1
  <2> QED
    BY <2>1 DEF WakeUp
<1>18. queue' # {} => inFlight' = MaxConcurrency
  <2>1. MaxConcurrency \in Nat
    BY OptionsAssumption
  <2> QED
    BY <1>1, <1>2, <1>5, <1>10, <2>1
<1>19. QueueWatched' /\ WatchedLater'
  BY <1>16, <1>18 DEF QueueWatched, WatchedLater, NoTimer
<1>20. TypeOK'
  <2>1. timer' \in Nat
    BY <1>16, <1>17 DEF NoTimer
  <2>2. inFlight' \in Nat
    BY <1>1, <1>5
  <2>3. \A r \in running' : r.startedAt \in Nat /\ r.startedAt <= now
    BY <1>1
  <2> QED
    BY <1>10, <2>1, <2>2, <2>3 DEF TypeOK
<1> QED
  BY <1>11, <1>12, <1>13, <1>14, <1>15, <1>19, <1>20 DEF IInv
-----------------------------------------------------------------------------
\* A call queues finitely many entries of its own.
LEMMA EntriesFresh ==
  ASSUME NEW requests \in Requests, NEW d \in Deadlines, NEW c, now \in Nat
  PROVE  /\ IsFiniteSet(Entries(c, requests, d))
         /\ \A e \in Entries(c, requests, d) : e.call = c /\ e.deadlineAt \in Nat
<1> DEFINE indices(j) == {i \in DOMAIN requests : requests[i].destination = requests[j].destination}
           entry(j) == [call       |-> c,
                        indices    |-> indices(j),
                        priority   |-> Max({requests[i].priority : i \in indices(j)}),
                        enqueuedAt |-> now,
                        deadlineAt |-> now + d]
           f == [j \in DOMAIN requests |-> entry(j)]
           E == Entries(c, requests, d)
<1>1. E = {entry(j) : j \in DOMAIN requests}
  BY DEF Entries
<1>2. \A j \in DOMAIN requests : entry(j).call = c /\ entry(j).deadlineAt = now + d
  OBVIOUS
<1>3. IsFiniteSet(DOMAIN requests)
  BY InputsAssumption, FS_Interval
<1> HIDE DEF entry, E
<1>4. f \in Surjection(DOMAIN requests, E)
  BY <1>1 DEF Surjection
<1>5. IsFiniteSet(E)
  BY <1>3, <1>4, FS_Surjection
<1>6. d \in Nat
  BY OptionsAssumption
<1> QED
  BY <1>1, <1>2, <1>5, <1>6 DEF E

\* What the invariant says of the entries in the queue and the pool.
LEMMA Facts ==
  ASSUME IInv
  PROVE  /\ TypeOK /\ results \in Seq(Row) /\ AllFinite /\ Known /\ OnePlace
         /\ SlotsAccounted /\ QueueWatched /\ WatchedLater
BY DEF IInv, ResultsOK

LEMMA GetScoresStep ==
  ASSUME IInv, NEW requests \in Requests, NEW d \in Deadlines, getScores(requests, d)
  PROVE  IInv'
<1> DEFINE c   == Len(results) + 1
           new == Entries(c, requests, d)
           row == [i \in DOMAIN requests |-> Waiting]
           res == Append(results, row)
<1>1. /\ scheduleTick(queue \cup new, inFlight, res)
      /\ now' = now /\ releasing' = releasing /\ samples' = samples
  BY DEF getScores
<1>2. TypeOK /\ AllFinite /\ Known /\ OnePlace /\ SlotsAccounted /\ results \in Seq(Row)
  BY Facts
<1>3. IsFiniteSet(new) /\ \A e \in new : e.call = c /\ e.deadlineAt \in Nat
  BY <1>2, EntriesFresh DEF TypeOK
<1>4. row \in Row
  <2>1. Waiting \in Status
    BY DEF Status
  <2>2. Len(requests) \in Nat /\ DOMAIN requests = 1 .. Len(requests)
    BY InputsAssumption
  <2>3. row \in [1 .. Len(requests) -> Status]
    BY <2>1, <2>2
  <2> QED
    BY <2>2, <2>3 DEF Row
<1> HIDE DEF new, row
<1>5. res \in Seq(Row) /\ Len(res) = c /\ Len(results) \in Nat
  BY <1>2, <1>4
<1> HIDE DEF res
<1>6. IsFiniteSet(queue \cup new)
  BY <1>2, <1>3, FS_Union DEF AllFinite
<1>7. \A e \in queue \cup InPool \cup releasing : e.call \in 1 .. Len(results)
  BY <1>2 DEF Known
<1>8. \A e \in (queue \cup new) \cup InPool \cup releasing : e.call \in 1 .. Len(res)
  BY <1>3, <1>5, <1>7
<1>9. new \cap InPool = {} /\ new \cap releasing = {}
  <2>1. \A e \in InPool \cup releasing : e.call # c
    BY <1>5, <1>7
  <2> QED
    BY <1>3, <2>1
<1>10. (queue \cup new) \cap InPool = {} /\ (queue \cup new) \cap releasing = {}
  BY <1>2, <1>9 DEF OnePlace
<1>11. \A e \in queue \cup new : e.deadlineAt \in Nat
  BY <1>2, <1>3 DEF TypeOK
<1> QED
  BY <1>1, <1>2, <1>5, <1>6, <1>8, <1>10, <1>11, PassStep
     DEF TypeOK, AllFinite, OnePlace, SlotsAccounted

LEMMA ReleaseStep ==
  ASSUME IInv, NEW e \in releasing, Release(e)
  PROVE  IInv'
<1> DEFINE rel == releasing \ {e}
<1>1. /\ scheduleTick(queue, inFlight - 1, results)
      /\ now' = now /\ releasing' = rel /\ samples' = samples
  BY DEF Release
<1>2. TypeOK /\ AllFinite /\ Known /\ OnePlace /\ SlotsAccounted /\ results \in Seq(Row)
  BY Facts
<1>3. IsFiniteSet(rel) /\ Cardinality(rel) = Cardinality(releasing) - 1
  BY <1>2, FS_RemoveElement DEF AllFinite
<1>4. Cardinality(rel) \in Nat /\ Cardinality(running) \in Nat /\ Cardinality(releasing) \in Nat
  BY <1>2, <1>3, FS_CardinalityType DEF AllFinite
<1>6. rel \subseteq releasing
  OBVIOUS
<1> HIDE DEF rel
<1>5. /\ inFlight - 1 \in Nat /\ inFlight - 1 <= MaxConcurrency
      /\ inFlight - 1 = Cardinality(running) + Cardinality(rel)
  <2>1. inFlight = Cardinality(running) + Cardinality(releasing) /\ inFlight <= MaxConcurrency
    BY <1>2 DEF SlotsAccounted
  <2>2. MaxConcurrency \in Nat
    BY OptionsAssumption
  <2>3. inFlight - 1 = Cardinality(running) + Cardinality(rel) /\ inFlight \in Nat
    BY <1>3, <1>4, <2>1
  <2> QED
    BY <1>4, <2>1, <2>2, <2>3
<1>7. queue \cap rel = {} /\ rel \cap InPool = {} /\ queue \cap InPool = {}
  BY <1>2, <1>6 DEF OnePlace
<1>8. \A f \in queue \cup InPool \cup rel : f.call \in 1 .. Len(results)
  BY <1>2, <1>6 DEF Known
<1> QED
  BY <1>1, <1>2, <1>3, <1>5, <1>7, <1>8, PassStep DEF TypeOK, AllFinite, OnePlace

LEMMA TimerStep ==
  ASSUME IInv, TimerFires
  PROVE  IInv'
<1>1. /\ scheduleTick(queue, inFlight, results)
      /\ now' = now /\ releasing' = releasing /\ samples' = samples
  BY DEF TimerFires
<1>2. TypeOK /\ AllFinite /\ Known /\ OnePlace /\ SlotsAccounted /\ results \in Seq(Row)
  BY Facts
<1> QED
  BY <1>1, <1>2, PassStep DEF TypeOK, AllFinite, Known, OnePlace, SlotsAccounted

LEMMA SettlesStep ==
  ASSUME IInv, NEW r \in running, Settles(r)
  PROVE  IInv'
<1>1. /\ running' = running \ {r}
      /\ releasing' = releasing \cup {r.entry}
      /\ samples' = Recorded(now - r.startedAt)
      /\ results' = Finish(results, {r.entry}, "answered")
      /\ UNCHANGED <<now, queue, inFlight, timer>>
  BY DEF Settles
<1>2. TypeOK /\ AllFinite /\ Known /\ OnePlace /\ SlotsAccounted /\ QueueWatched /\ WatchedLater
      /\ results \in Seq(Row)
  BY Facts
<1>3. r.entry \in InPool /\ r.entry \notin releasing /\ r.entry \notin queue
  BY <1>2 DEF InPool, OnePlace
<1>4. InPool' = InPool \ {r.entry}
  BY <1>1, <1>2 DEF InPool, OnePlace
<1>5. /\ IsFiniteSet(running') /\ Cardinality(running') = Cardinality(running) - 1
      /\ IsFiniteSet(releasing') /\ Cardinality(releasing') = Cardinality(releasing) + 1
  BY <1>1, <1>2, <1>3, FS_RemoveElement, FS_AddElement DEF AllFinite
<1>6. Cardinality(running) \in Nat /\ Cardinality(releasing) \in Nat
  BY <1>2, FS_CardinalityType DEF AllFinite
<1>7. SlotsAccounted' /\ AllFinite'
  BY <1>1, <1>2, <1>5, <1>6 DEF SlotsAccounted, AllFinite
<1>8. OnePlace'
  <2>1. \A x, y \in running' : x.entry = y.entry => x = y
    BY <1>1, <1>2 DEF OnePlace
  <2> QED
    BY <1>1, <1>2, <1>3, <1>4, <2>1 DEF OnePlace
<1>9. results' \in Seq(Row) /\ Len(results') = Len(results)
  <2>1. "answered" \in Status
    BY DEF Status
  <2> QED
    BY <1>1, <1>2, <2>1, FinishKeepsShape
<1>10. Known'
  BY <1>1, <1>2, <1>3, <1>4, <1>9 DEF Known
<1>11. samples' \in Seq(Nat)
  <2>1. now - r.startedAt \in Nat
    BY <1>2 DEF TypeOK
  <2>2. Append(samples, now - r.startedAt) \in Seq(Nat)
    BY <1>2, <2>1 DEF TypeOK
  <2>3. Append(samples, now - r.startedAt) # <<>>
    BY <1>2, <2>1 DEF TypeOK
  <2>4. \A s \in Seq(Nat) : s # <<>> => Tail(s) \in Seq(Nat)
    OBVIOUS
  <2> QED
    BY <1>1, <2>2, <2>3, <2>4 DEF Recorded
<1>12. TypeOK'
  BY <1>1, <1>2, <1>11 DEF TypeOK
<1>13. QueueWatched' /\ WatchedLater'
  BY <1>1, <1>2 DEF QueueWatched, WatchedLater
<1> QED
  BY <1>7, <1>8, <1>9, <1>10, <1>12, <1>13 DEF IInv, ResultsOK

LEMMA TickStep ==
  ASSUME IInv, Tick
  PROVE  IInv'
<1>1. /\ now' = now + 1
      /\ timer = NoTimer \/ now < timer
      /\ UNCHANGED <<queue, running, releasing, inFlight, timer, samples, results>>
  BY DEF Tick
<1>2. TypeOK /\ AllFinite /\ Known /\ OnePlace /\ SlotsAccounted /\ QueueWatched /\ WatchedLater
      /\ ResultsOK
  BY DEF IInv
<1>3. TypeOK' /\ QueueWatched' /\ WatchedLater'
  BY <1>1, <1>2 DEF TypeOK, QueueWatched, WatchedLater
<1>4. AllFinite' /\ Known' /\ OnePlace' /\ SlotsAccounted' /\ ResultsOK'
  BY <1>1, <1>2 DEF AllFinite, Known, OnePlace, SlotsAccounted, ResultsOK, InPool
<1> QED
  BY <1>3, <1>4 DEF IInv

-----------------------------------------------------------------------------
\* IInv holds in every reachable state.
THEOREM Inductive == Spec => []IInv
<1>1. Init => IInv
  <2> SUFFICES ASSUME Init PROVE IInv
    OBVIOUS
  <2>1. /\ now = 0 /\ queue = {} /\ running = {} /\ releasing = {} /\ inFlight = 0
        /\ timer = 0 /\ samples \in Seq(Nat) /\ results = <<>>
    BY InputsAssumption DEF Init, NoTimer
  <2>2. IsFiniteSet({}) /\ Cardinality({}) = 0
    BY FS_EmptySet
  <2>3. TypeOK /\ ResultsOK /\ AllFinite
    BY <2>1, <2>2 DEF TypeOK, ResultsOK, AllFinite
  <2>4. Known /\ OnePlace /\ QueueWatched /\ WatchedLater
    BY <2>1 DEF Known, OnePlace, QueueWatched, WatchedLater, InPool
  <2>5. SlotsAccounted
    BY <2>1, <2>2, OptionsAssumption DEF SlotsAccounted
  <2> QED
    BY <2>3, <2>4, <2>5 DEF IInv
<1>2. IInv /\ [Next]_vars => IInv'
  <2>1. IInv /\ UNCHANGED vars => IInv'
    BY DEF vars, IInv, TypeOK, ResultsOK, AllFinite, Known, OnePlace, SlotsAccounted,
           QueueWatched, WatchedLater, InPool
  <2> QED
    BY <2>1, GetScoresStep, SettlesStep, ReleaseStep, TimerStep, TickStep DEF Next, Done
<1> QED
  BY <1>1, <1>2, PTL DEF Spec

\* The pool never leaks a slot nor exceeds MaxConcurrency.
THEOREM PoolBounded == Spec => []SlotsAccounted
<1>1. IInv => SlotsAccounted
  BY DEF IInv
<1> QED
  BY <1>1, Inductive, PTL

\* An entry is queued only while the pool is full, and never past its deadline
\* as long as timers are in time.
THEOREM NoneOverdue == Spec => []QueueWatched
<1>1. IInv => QueueWatched
  BY DEF IInv
<1> QED
  BY <1>1, Inductive, PTL

-----------------------------------------------------------------------------
Awaits(c, i, e) == e.call = c /\ i \in e.indices

\* The requests without a result are those of the entries es, each of one.
Owed(es, res) ==
  \A c \in DOMAIN res : \A i \in DOMAIN res[c] :
    /\ res[c][i] = Waiting => \E e \in es : Awaits(c, i, e)
    /\ \A e \in es : Awaits(c, i, e) => res[c][i] = Waiting
    /\ \A e, f \in es : Awaits(c, i, e) /\ Awaits(c, i, f) => e = f

Pending == queue \cup InPool

\* Finishing entries gives their requests, and no others, a result.
LEMMA FinishSettles ==
  ASSUME NEW es, NEW res, Owed(es, res), NEW S \in SUBSET es, NEW status, status # Waiting
  PROVE  Owed(es \ S, Finish(res, S, status))
<1> DEFINE fin == Finish(res, S, status)
<1>1. DOMAIN fin = DOMAIN res
  BY DEF Finish
<1>2. ASSUME NEW c \in DOMAIN res
      PROVE  /\ DOMAIN fin[c] = DOMAIN res[c]
             /\ \A i \in DOMAIN res[c] :
                  fin[c][i] = IF \E e \in S : Awaits(c, i, e) THEN status ELSE res[c][i]
  BY <1>2 DEF Finish, Awaits
<1> HIDE DEF fin
<1>3. ASSUME NEW c \in DOMAIN res, NEW i \in DOMAIN res[c]
      PROVE  /\ fin[c][i] = Waiting => \E e \in es \ S : Awaits(c, i, e)
             /\ \A e \in es \ S : Awaits(c, i, e) => fin[c][i] = Waiting
             /\ \A e, f \in es \ S : Awaits(c, i, e) /\ Awaits(c, i, f) => e = f
  <2>1. /\ res[c][i] = Waiting => \E e \in es : Awaits(c, i, e)
        /\ \A e \in es : Awaits(c, i, e) => res[c][i] = Waiting
        /\ \A e, f \in es : Awaits(c, i, e) /\ Awaits(c, i, f) => e = f
    BY DEF Owed
  <2>2. fin[c][i] = IF \E e \in S : Awaits(c, i, e) THEN status ELSE res[c][i]
    BY <1>2
  <2> QED
    BY <2>1, <2>2
<1>4. Owed(es \ S, fin)
  BY <1>1, <1>2, <1>3 DEF Owed
<1> QED
  BY <1>4 DEF fin

\* A pass rejects entries with their requests and starts others.
LEMMA PassSettles ==
  ASSUME NEW q, NEW busy, NEW res, scheduleTick(q, busy, res),
         q \cap InPool = {}, Owed(q \cup InPool, res)
  PROVE  Owed(Pending', results')
<1> DEFINE admitted == {e \in q : Feasible(e)}
           late     == q \ admitted
<1>1. PICK started \in Best(admitted, FreeSlots(busy)) :
        /\ queue' = admitted \ started
        /\ running' = running \cup {[entry |-> e, startedAt |-> now] : e \in started}
        /\ results' = Finish(res, late, "deadline-rejected")
  BY DEF scheduleTick
<1>2. started \subseteq admitted /\ admitted \subseteq q
  BY <1>1 DEF Best
<1>3. InPool' = InPool \cup started
  BY <1>1, PoolGrows
<1> HIDE DEF admitted
<1>4. Pending' = (q \cup InPool) \ late
  BY <1>1, <1>2, <1>3 DEF Pending
<1>5. late \in SUBSET (q \cup InPool) /\ "deadline-rejected" # Waiting
  BY DEF Waiting
<1> HIDE DEF late
<1>6. Owed((q \cup InPool) \ late, Finish(res, late, "deadline-rejected"))
  BY <1>5, FinishSettles
<1> QED
  BY <1>1, <1>4, <1>6

\* The entries of a call share its requests out among them.
LEMMA EntriesPartition ==
  ASSUME NEW requests \in Requests, NEW d \in Deadlines, NEW c
  PROVE  /\ \A i \in DOMAIN requests : \E e \in Entries(c, requests, d) : i \in e.indices
         /\ \A e, f \in Entries(c, requests, d) :
              (\E i \in DOMAIN requests : i \in e.indices /\ i \in f.indices) => e = f
<1> DEFINE indices(j) == {i \in DOMAIN requests : requests[i].destination = requests[j].destination}
           made(I) == [call       |-> c,
                       indices    |-> I,
                       priority   |-> Max({requests[i].priority : i \in I}),
                       enqueuedAt |-> now,
                       deadlineAt |-> now + d]
           E == Entries(c, requests, d)
<1>1. E = {made(I) : I \in {indices(j) : j \in DOMAIN requests}}
  BY DEF Entries
<1>2. \A I : made(I).indices = I
  OBVIOUS
<1> HIDE DEF made, E
<1>3. \A j \in DOMAIN requests : made(indices(j)) \in E /\ j \in made(indices(j)).indices
  BY <1>1, <1>2
<1>4. ASSUME NEW e \in E, NEW f \in E,
             NEW i \in DOMAIN requests, i \in e.indices, i \in f.indices
      PROVE  e = f
  <2>1. PICK j \in DOMAIN requests : e = made(indices(j))
    BY <1>1
  <2>2. PICK k \in DOMAIN requests : f = made(indices(k))
    BY <1>1
  <2>3. i \in indices(j) /\ i \in indices(k)
    BY <1>2, <1>4, <2>1, <2>2
  <2>4. indices(j) = indices(k)
    BY <2>3
  <2> QED
    BY <2>1, <2>2, <2>4
<1> QED
  BY <1>3, <1>4 DEF E

\* A new call owes all its requests, and changes nothing about older ones.
LEMMA CallOwes ==
  ASSUME IInv, Owed(Pending, results),
         NEW requests \in Requests, NEW d \in Deadlines, getScores(requests, d)
  PROVE  Owed(Pending', results')
<1> DEFINE c   == Len(results) + 1
           new == Entries(c, requests, d)
           row == [i \in DOMAIN requests |-> Waiting]
           res == Append(results, row)
<1>1. scheduleTick(queue \cup new, inFlight, res)
  BY DEF getScores
<1>2. TypeOK /\ Known /\ OnePlace /\ results \in Seq(Row)
  BY Facts
<1>3. \A e \in new : e.call = c
  BY <1>2, EntriesFresh DEF TypeOK
<1>4. /\ \A i \in DOMAIN requests : \E e \in new : i \in e.indices
      /\ \A e, f \in new : (\E i \in DOMAIN requests : i \in e.indices /\ i \in f.indices) => e = f
  BY EntriesPartition
<1> HIDE DEF new
<1>5. /\ DOMAIN res = 1 .. c /\ DOMAIN results = 1 .. c - 1 /\ c \in Nat
      /\ res[c] = row
      /\ \A k \in 1 .. c - 1 : res[k] = results[k]
  BY <1>2
<1>6. DOMAIN row = DOMAIN requests /\ \A i \in DOMAIN row : row[i] = Waiting
  OBVIOUS
<1>7. \A e \in Pending : e.call \in 1 .. c - 1
  BY <1>2 DEF Known, Pending
<1> HIDE DEF row, res
<1> DEFINE all == (queue \cup new) \cup InPool
<1>8. all = Pending \cup new
  BY DEF Pending
<1> HIDE DEF all
<1>9. ASSUME NEW k \in 1 .. c, NEW i \in DOMAIN res[k]
      PROVE  /\ res[k][i] = Waiting => \E e \in all : Awaits(k, i, e)
             /\ \A e \in all : Awaits(k, i, e) => res[k][i] = Waiting
             /\ \A e, f \in all : Awaits(k, i, e) /\ Awaits(k, i, f) => e = f
  <2>1. CASE k = c
    <3>1. \A e \in Pending : ~Awaits(k, i, e)
      BY <1>5, <1>7, <2>1 DEF Awaits
    <3> QED
      BY <1>3, <1>4, <1>5, <1>6, <1>8, <2>1, <3>1 DEF Awaits
  <2>2. CASE k # c
    <3>1. \A e \in new : ~Awaits(k, i, e)
      BY <1>3, <2>2 DEF Awaits
    <3>2. k \in DOMAIN results /\ res[k] = results[k]
      BY <1>5, <2>2
    <3>3. /\ results[k][i] = Waiting => \E e \in Pending : Awaits(k, i, e)
          /\ \A e \in Pending : Awaits(k, i, e) => results[k][i] = Waiting
          /\ \A e, f \in Pending : Awaits(k, i, e) /\ Awaits(k, i, f) => e = f
      BY <3>2 DEF Owed
    <3> QED
      BY <1>8, <3>1, <3>2, <3>3
  <2> QED
    BY <2>1, <2>2
<1>10. Owed(all, res)
  BY <1>5, <1>9 DEF Owed
<1>11. (queue \cup new) \cap InPool = {}
  <2>1. \A e \in InPool : e.call # c
    BY <1>5, <1>7 DEF Pending
  <2> QED
    BY <1>2, <1>3, <2>1 DEF OnePlace
<1> QED
  BY <1>1, <1>10, <1>11, PassSettles DEF all

\* Every request is waiting for exactly one entry, or has its result for good.
THEOREM AnsweredOnce == Spec => []NothingLost
<1>1. Init => Owed(Pending, results)
  BY DEF Init, Owed
<1>2. IInv /\ Owed(Pending, results) /\ [Next]_vars => Owed(Pending, results)'
  <2> SUFFICES ASSUME IInv, Owed(Pending, results), [Next]_vars
               PROVE  Owed(Pending', results')
    OBVIOUS
  <2>1. ASSUME scheduleTick(queue, inFlight, results)
               \/ \E e \in releasing : scheduleTick(queue, inFlight - 1, results)
        PROVE  Owed(Pending', results')
    BY <2>1, Facts, PassSettles DEF OnePlace, Pending
  <2>2. ASSUME NEW r \in running, Settles(r) PROVE Owed(Pending', results')
    <3>1. /\ running' = running \ {r} /\ queue' = queue
          /\ results' = Finish(results, {r.entry}, "answered")
      BY <2>2 DEF Settles
    <3>2. OnePlace
      BY Facts
    <3>3. Pending' = Pending \ {r.entry}
      BY <3>1, <3>2 DEF Pending, InPool, OnePlace
    <3>4. {r.entry} \in SUBSET Pending /\ "answered" # Waiting
      BY DEF Pending, InPool, Waiting
    <3>5. Owed(Pending \ {r.entry}, Finish(results, {r.entry}, "answered"))
      BY <3>4, FinishSettles
    <3> QED
      BY <3>1, <3>3, <3>5
  <2>3. ASSUME UNCHANGED <<queue, running, results>> PROVE Owed(Pending', results')
    BY <2>3 DEF Pending, InPool
  <2> QED
    BY <2>1, <2>2, <2>3, CallOwes DEF Next, Release, TimerFires, Tick, Done, vars
<1>3. IInv /\ Owed(Pending, results) => NothingLost
  <2> SUFFICES ASSUME IInv, Owed(Pending, results),
                      NEW c \in DOMAIN results, NEW i \in DOMAIN results[c]
               PROVE  Cardinality({e \in queue : Awaits(c, i, e)}
                                    \cup {r \in running : Awaits(c, i, r.entry)})
                        = IF results[c][i] = Waiting THEN 1 ELSE 0
    BY DEF NothingLost, Awaits
  <2> DEFINE W == {e \in queue : Awaits(c, i, e)} \cup {r \in running : Awaits(c, i, r.entry)}
  <2>1. /\ results[c][i] = Waiting => \E e \in Pending : Awaits(c, i, e)
        /\ \A e \in Pending : Awaits(c, i, e) => results[c][i] = Waiting
        /\ \A e, f \in Pending : Awaits(c, i, e) /\ Awaits(c, i, f) => e = f
    BY DEF Owed
  <2>2. OnePlace /\ queue \subseteq Pending /\ \A r \in running : r.entry \in Pending
    BY Facts DEF Pending, InPool
  <2>3. CASE results[c][i] # Waiting
    <3>1. W = {}
      BY <2>1, <2>2, <2>3
    <3> QED
      BY <2>3, <3>1, FS_EmptySet
  <2>4. CASE results[c][i] = Waiting
    <3>1. PICK e \in Pending : Awaits(c, i, e)
      BY <2>1, <2>4
    <3>2. \A f \in Pending : Awaits(c, i, f) => f = e
      BY <2>1, <3>1
    <3>3. \E x : W = {x}
      <4>1. CASE e \in queue
        <5>1. \A r \in running : r.entry # e
          BY <2>2, <4>1 DEF OnePlace, InPool
        <5>2. W = {e}
          BY <2>2, <3>1, <3>2, <4>1, <5>1
        <5> QED
          BY <5>2
      <4>2. CASE e \notin queue
        <5>1. PICK r \in running : r.entry = e
          BY <3>1, <4>2 DEF Pending, InPool
        <5>2. W = {r}
          BY <2>2, <3>1, <3>2, <4>2, <5>1 DEF OnePlace
        <5> QED
          BY <5>2
      <4> QED
        BY <4>1, <4>2
    <3>4. PICK x : W = {x}
      BY <3>3
    <3>5. Cardinality({x}) = 1
      BY FS_Singleton
    <3> HIDE DEF W
    <3>6. Cardinality(W) = 1
      BY <3>4, <3>5
    <3> QED
      BY <2>4, <3>6 DEF W
  <2> QED
    BY <2>3, <2>4
<1> QED
  BY <1>1, <1>2, <1>3, Inductive, PTL DEF Spec

-----------------------------------------------------------------------------
(* Admission and the order of starts.                                      *)

\* Whatever holds of a set once it holds without any one of its elements holds
\* of every finite set.
LEMMA SubsetInduction ==
  ASSUME NEW S, IsFiniteSet(S), NEW Good,
         \A T \in SUBSET S : (\A x \in T : T \ {x} \in Good) => T \in Good
  PROVE  SUBSET S \subseteq Good
<1> DEFINE Bad == (SUBSET S) \ Good
           R == StrictSubsetOrdering(S)
<1> SUFFICES ASSUME Bad # {} PROVE FALSE
  OBVIOUS
<1>1. IsWellFoundedOn(R, SUBSET S)
  <2>1. FiniteSubsetsOf(S) = SUBSET S
    BY FS_FiniteSubsetsOfFinite
  <2>2. IsWellFoundedOn(StrictSubsetOrdering(S), FiniteSubsetsOf(S))
    BY FS_StrictSubsetOrderingWellFounded
  <2> QED
    BY <2>1, <2>2
<1>2. PICK T \in Bad : \A U \in Bad : ~ (<<U, T>> \in R)
  <2> HIDE DEF R
  <2>1. Bad \subseteq SUBSET S
    OBVIOUS
  <2> HIDE DEF Bad
  <2> QED
    BY <1>1, <2>1, WFMin
<1>3. ASSUME NEW x \in T PROVE T \ {x} \in Good
  <2>1. T \ {x} \in SUBSET S /\ T \in SUBSET S /\ T \ {x} # T
    OBVIOUS
  <2>2. <<T \ {x}, T>> \in R
    BY <2>1 DEF StrictSubsetOrdering
  <2> QED
    BY <1>2, <2>1, <2>2
<1> QED
  BY <1>2, <1>3

\* A finite set of integers has a greatest element, and Max is one.
LEMMA MaxIsMember ==
  ASSUME NEW S \in SUBSET Int, IsFiniteSet(S), S # {}
  PROVE  Max(S) \in S
<1> DEFINE Topped == {T \in SUBSET S : T # {} => \E x \in T : \A y \in T : x >= y}
<1>1. ASSUME NEW T \in SUBSET S, \A x \in T : T \ {x} \in Topped
      PROVE  T \in Topped
  <2> SUFFICES ASSUME T # {} PROVE \E x \in T : \A y \in T : x >= y
    OBVIOUS
  <2>1. PICK x \in T : TRUE
    OBVIOUS
  <2>2. CASE T \ {x} = {}
    <3>1. \A y \in T : y = x /\ x \in Int
      BY <2>2
    <3> QED
      BY <2>1, <3>1
  <2>3. CASE T \ {x} # {}
    <3>1. PICK z \in T \ {x} : \A y \in T \ {x} : z >= y
      BY <1>1, <2>3
    <3>2. x \in Int /\ z \in Int /\ \A y \in T : y \in Int
      OBVIOUS
    <3>3. CASE z >= x
      <4>1. \A y \in T : z >= y
        BY <3>1, <3>3
      <4> QED
        BY <4>1
    <3>4. CASE x >= z
      <4>1. \A y \in T : x >= y
        BY <3>1, <3>2, <3>4
      <4> QED
        BY <2>1, <4>1
    <3> QED
      BY <3>2, <3>3, <3>4
  <2> QED
    BY <2>2, <2>3
<1> HIDE DEF Topped
<1>2. SUBSET S \subseteq Topped
  BY <1>1, SubsetInduction
<1>3. \E x \in S : \A y \in S : x >= y
  BY <1>2 DEF Topped
<1> QED
  BY <1>3 DEF Max

\* Entries are compared by integers.
Comparable == \A e \in queue : e.priority \in Int /\ e.enqueuedAt \in Nat

LEMMA EntriesComparable ==
  ASSUME NEW requests \in Requests, NEW d \in Deadlines, NEW c, now \in Nat
  PROVE  \A e \in Entries(c, requests, d) : e.priority \in Int /\ e.enqueuedAt \in Nat
<1> DEFINE indices(j) == {i \in DOMAIN requests : requests[i].destination = requests[j].destination}
           top(j) == Max({requests[i].priority : i \in indices(j)})
           entry(j) == [call       |-> c,
                        indices    |-> indices(j),
                        priority   |-> top(j),
                        enqueuedAt |-> now,
                        deadlineAt |-> now + d]
<1>1. \A j \in DOMAIN requests : requests[j].priority \in Int
  BY InputsAssumption
<1>2. IsFiniteSet(DOMAIN requests)
  <2>1. Len(requests) \in Int /\ DOMAIN requests = 1 .. Len(requests)
    BY InputsAssumption
  <2> QED
    BY <2>1, FS_Interval
<1>3. ASSUME NEW j \in DOMAIN requests
      PROVE  top(j) \in Int
  <2> DEFINE ps == {requests[i].priority : i \in indices(j)}
             f  == [i \in indices(j) |-> requests[i].priority]
  <2>1. IsFiniteSet(indices(j))
    BY <1>2, FS_Subset
  <2>2. f \in Surjection(indices(j), ps)
    BY DEF Surjection
  <2>3. IsFiniteSet(ps)
    <3> HIDE DEF f, ps
    <3> QED
      BY <2>1, <2>2, FS_Surjection
  <2>4. ps \in SUBSET Int /\ ps # {}
    BY <1>1
  <2> HIDE DEF ps
  <2>5. Max(ps) \in Int
    BY <2>3, <2>4, MaxIsMember
  <2> QED
    BY <2>5 DEF ps
<1>4. Entries(c, requests, d) = {entry(j) : j \in DOMAIN requests}
  BY DEF Entries
<1> HIDE DEF top
<1>5. \A j \in DOMAIN requests : entry(j).priority = top(j) /\ entry(j).enqueuedAt = now
  OBVIOUS
<1> HIDE DEF entry
<1> QED
  BY <1>3, <1>4, <1>5

\* The chance of an entry is a natural number out of a positive one.
LEMMA Chances ==
  ASSUME TypeOK
  PROVE  /\ Resolution \in Nat \ {0} /\ Len(samples) \in Nat
         /\ \A v \in Int : cdf(v) \in Nat
         /\ IsFiniteSet(DOMAIN samples) /\ Cardinality(DOMAIN samples) = Len(samples)
<1>1. samples \in Seq(Nat) /\ Len(samples) \in Nat /\ DOMAIN samples = 1 .. Len(samples)
  BY DEF TypeOK
<1>2. IsFiniteSet(DOMAIN samples) /\ Cardinality(DOMAIN samples) = Len(samples)
  <2> DEFINE n == Len(samples)
  <2>1. IsFiniteSet(1 .. n) /\ Cardinality(1 .. n) = IF 1 > n THEN 0 ELSE n - 1 + 1
    <3> HIDE DEF n
    <3>1. n \in Int
      BY <1>1 DEF n
    <3> QED
      BY <3>1, FS_Interval
  <2> QED
    BY <1>1, <2>1
<1>3. \A v \in Int : AtMost(v) \in Nat
  BY <1>2, FS_Subset, FS_CardinalityType DEF AtMost
<1>4. \A v \in Int : cdf(v) \in Nat
  BY <1>3 DEF cdf
<1>5. Resolution \in Nat \ {0}
  BY <1>1, OptionsAssumption DEF Resolution, Cold
<1> QED
  BY <1>1, <1>2, <1>4, <1>5

\* The estimator's admission rule, said in terms of the samples that would be
\* too slow.
LEMMA FeasibleIsLikely ==
  ASSUME TypeOK, NEW e, e.deadlineAt \in Nat
  PROVE  Feasible(e) <=> Likely(e)
<1> DEFINE left == e.deadlineAt - now
<1>1. /\ now \in Nat /\ left \in Int /\ TargetConfidence \in 1 .. 100
      /\ now < e.deadlineAt <=> left > 0
  BY OptionsAssumption DEF TypeOK
<1>2. CASE Cold
  <2>1. Resolution = 100 /\ cdf(left) \in Nat
    BY <1>1, <1>2, Chances DEF Resolution
  <2> HIDE DEF left
  <2>2. cdf(left) * 100 >= TargetConfidence * 100 <=> cdf(left) >= TargetConfidence
    BY <1>1, <2>1
  <2> QED
    BY <1>1, <1>2, <2>1, <2>2 DEF Feasible, Likely, left
<1>3. CASE ~Cold /\ left > 0
  <2> DEFINE late   == {k \in DOMAIN samples : now + samples[k] > e.deadlineAt}
             inTime == {k \in DOMAIN samples : samples[k] <= left}
             n      == Len(samples)
  <2>1. /\ IsFiniteSet(DOMAIN samples) /\ Cardinality(DOMAIN samples) = n /\ n \in Nat
        /\ \A k \in DOMAIN samples : samples[k] \in Nat
    <3>1. \A k \in DOMAIN samples : samples[k] \in Nat
      BY DEF TypeOK
    <3> QED
      BY <3>1, Chances
  <2>2. late = DOMAIN samples \ inTime /\ inTime \in SUBSET DOMAIN samples
        /\ DOMAIN samples \cap inTime = inTime
    BY <1>1, <2>1
  <2>3. cdf(left) = Cardinality(inTime) /\ Resolution = n
    BY <1>1, <1>3 DEF cdf, AtMost, Resolution
  <2> HIDE DEF late, inTime, n
  <2>4. Cardinality(late) = n - Cardinality(inTime) /\ Cardinality(inTime) \in Nat
    <3>1. Cardinality(DOMAIN samples \ inTime)
            = Cardinality(DOMAIN samples) - Cardinality(DOMAIN samples \cap inTime)
      BY <2>1, FS_Difference
    <3>2. Cardinality(inTime) \in Nat
      BY <2>1, <2>2, FS_Subset, FS_CardinalityType
    <3> QED
      BY <2>1, <2>2, <3>1, <3>2
  <2>5. 100 * Cardinality(late) <= (100 - TargetConfidence) * n
          <=> Cardinality(inTime) * 100 >= TargetConfidence * n
    <3> DEFINE a == Cardinality(inTime)
               t == TargetConfidence * n
    <3>1. a \in Int /\ n \in Int /\ t \in Int
      BY <1>1, <2>1, <2>4
    <3>2. (100 - TargetConfidence) * n = 100 * n - t
      BY <1>1, <2>1
    <3> HIDE DEF a, t
    <3>3. 100 * (n - a) <= 100 * n - t <=> a * 100 >= t
      BY <3>1
    <3> QED
      BY <2>4, <3>2, <3>3 DEF a, t
  <2> QED
    BY <1>1, <1>3, <2>3, <2>5 DEF Feasible, Likely, late, n
<1>4. CASE left <= 0
  BY <1>1, <1>4 DEF Feasible, Likely
<1> QED
  BY <1>1, <1>2, <1>3, <1>4

\* An entry behind in aged priority and in its chance has the lower score.
LEMMA ScoreFollows ==
  ASSUME TypeOK, PriorityWeight > 0,
         NEW e, NEW f, e.deadlineAt \in Nat, f.deadlineAt \in Nat,
         AgedPriority(e) \in Int, AgedPriority(f) \in Int,
         AgedPriority(e) < AgedPriority(f),
         cdf(e.deadlineAt - now) <= cdf(f.deadlineAt - now)
  PROVE  ~ Preferred(e, f)
<1> DEFINE a == AgedPriority(e)
           b == AgedPriority(f)
           p == cdf(e.deadlineAt - now)
           q == cdf(f.deadlineAt - now)
           w == PriorityWeight * Resolution
           v == FeasibilityWeight * PriorityNormalization
<1>1. Resolution \in Nat \ {0} /\ p \in Nat /\ q \in Nat
  <2>1. e.deadlineAt - now \in Int /\ f.deadlineAt - now \in Int
    BY DEF TypeOK
  <2>2. Resolution \in Nat \ {0} /\ \A x \in Int : cdf(x) \in Nat
    BY Chances
  <2> QED
    BY <2>1, <2>2
<1>2. w \in Nat \ {0} /\ v \in Nat
  BY <1>1, OptionsAssumption
<1>3. a \in Int /\ b \in Int /\ a < b /\ p <= q
  OBVIOUS
<1>4. combinedScore(e) = w * a + v * p /\ combinedScore(f) = w * b + v * q
  BY DEF combinedScore
<1> HIDE DEF a, b, p, q, w, v
<1>5. w * a < w * b /\ v * p <= v * q
  <2>1. w * (b - a) >= 1
    BY <1>2, <1>3
  <2>2. v * (q - p) >= 0
    BY <1>1, <1>2, <1>3
  <2>3. w * (b - a) = w * b - w * a /\ v * (q - p) = v * q - v * p
    BY <1>1, <1>2, <1>3
  <2>4. {w * a, w * b, v * p, v * q} \subseteq Int
    BY <1>1, <1>2, <1>3
  <2> QED
    BY <2>1, <2>2, <2>3, <2>4
<1>6. w * a \in Int /\ w * b \in Int /\ v * p \in Int /\ v * q \in Int
  BY <1>1, <1>2, <1>3
<1>7. combinedScore(e) < combinedScore(f) /\ combinedScore(e) \in Int /\ combinedScore(f) \in Int
  BY <1>4, <1>5, <1>6
<1> QED
  BY <1>7 DEF Preferred

\* What FairAdmission asks of a step.
Fair ==
  /\ \A e \in Started : Likely(e)
  /\ \A e \in queue \ (queue' \cup Started) : ~Likely(e)
  /\ \A e \in Started, f \in queue' :
       ~ /\ PriorityWeight > 0
         /\ AgedPriority(e) < AgedPriority(f)
         /\ cdf(e.deadlineAt - now) <= cdf(f.deadlineAt - now)

\* A pass over entries that are queued, or new, is fair.
LEMMA PassIsFair ==
  ASSUME TypeOK, NEW q, NEW busy, NEW res, scheduleTick(q, busy, res),
         queue \subseteq q, q \cap InPool = {},
         \A e \in q : e.deadlineAt \in Nat /\ e.priority \in Int /\ e.enqueuedAt \in Nat
  PROVE  Fair /\ queue' \subseteq q
<1> DEFINE admitted == {e \in q : Feasible(e)}
<1>1. PICK started \in Best(admitted, FreeSlots(busy)) :
        /\ queue' = admitted \ started
        /\ running' = running \cup {[entry |-> e, startedAt |-> now] : e \in started}
  BY DEF scheduleTick
<1>2. /\ started \subseteq admitted
      /\ \A e \in started, f \in admitted \ started : Preferred(e, f)
  BY DEF Best
<1>3. Started = started
  <2>1. ASSUME NEW e \in started
        PROVE  [entry |-> e, startedAt |-> now] \in running' \ running
    BY <1>1, <1>2 DEF InPool
  <2>2. started \subseteq Started
    <3> SUFFICES ASSUME NEW e \in started PROVE e \in Started
      OBVIOUS
    <3>1. [entry |-> e, startedAt |-> now].entry = e
      OBVIOUS
    <3> QED
      BY <2>1, <3>1 DEF Started
  <2>3. Started \subseteq started
    BY <1>1 DEF Started
  <2> QED
    BY <2>2, <2>3
<1>4. \A e \in q : Feasible(e) <=> Likely(e)
  BY FeasibleIsLikely
<1>5. \A e \in Started : Likely(e)
  BY <1>2, <1>3, <1>4
<1>6. \A e \in queue \ (queue' \cup Started) : ~Likely(e)
  BY <1>1, <1>3, <1>4
<1>7. ASSUME NEW e \in Started, NEW f \in queue', PriorityWeight > 0,
             AgedPriority(e) < AgedPriority(f),
             cdf(e.deadlineAt - now) <= cdf(f.deadlineAt - now)
      PROVE  FALSE
  <2>1. e \in q /\ f \in q /\ Preferred(e, f)
    BY <1>1, <1>2, <1>3
  <2>2. \A x \in q : AgedPriority(x) \in Int
    <3> SUFFICES ASSUME NEW x \in q PROVE AgedPriority(x) \in Int
      OBVIOUS
    <3>1. AgingRate \in Nat /\ now \in Nat /\ x.priority \in Int /\ x.enqueuedAt \in Nat
      BY OptionsAssumption DEF TypeOK
    <3>2. AgingRate * (now - x.enqueuedAt) \in Int
      BY <3>1
    <3> QED
      BY <3>1, <3>2 DEF AgedPriority
  <2> QED
    BY <1>7, <2>1, <2>2, ScoreFollows
<1>8. queue' \subseteq q
  BY <1>1
<1> QED
  BY <1>5, <1>6, <1>7, <1>8 DEF Fair

\* Every step is fair, and keeps the queue comparable.
LEMMA StepIsFair ==
  ASSUME IInv, Comparable, Next
  PROVE  Fair /\ Comparable'
<1>0. /\ TypeOK /\ queue \cap InPool = {} /\ now \in Nat
      /\ \A e \in queue : e.deadlineAt \in Nat /\ e.priority \in Int /\ e.enqueuedAt \in Nat
      /\ \A e \in queue \cup InPool : e.call \in 1 .. Len(results)
      /\ Len(results) \in Nat
  <2>1. Len(results) \in Nat
    BY Facts
  <2> QED
    BY <2>1 DEF IInv, TypeOK, OnePlace, Comparable, Known
<1>1. ASSUME NEW requests \in Requests, NEW d \in Deadlines, getScores(requests, d)
      PROVE  Fair /\ Comparable'
  <2> DEFINE c   == Len(results) + 1
             new == Entries(c, requests, d)
             q   == queue \cup new
  <2>1. \E res : scheduleTick(q, inFlight, res)
    BY <1>1 DEF getScores
  <2>2. \A e \in new : /\ e.call = c /\ e.deadlineAt \in Nat
                       /\ e.priority \in Int /\ e.enqueuedAt \in Nat
    BY <1>0, EntriesFresh, EntriesComparable
  <2>3. q \cap InPool = {}
    <3>1. c \notin 1 .. Len(results)
      BY <1>0
    <3> HIDE DEF new, c
    <3> QED
      BY <1>0, <2>2, <3>1
  <2> HIDE DEF new, c
  <2>4. Fair /\ queue' \subseteq q
    BY <1>0, <2>1, <2>2, <2>3, PassIsFair
  <2> QED
    BY <1>0, <2>2, <2>4 DEF Comparable
<1>2. ASSUME NEW busy, NEW res, scheduleTick(queue, busy, res)
      PROVE  Fair /\ Comparable'
  <2>1. Fair /\ queue' \subseteq queue
    BY <1>0, <1>2, PassIsFair
  <2> QED
    BY <1>0, <2>1 DEF Comparable
<1>3. ASSUME running' \subseteq running, queue' = queue
      PROVE  Fair /\ Comparable'
  <2>1. Started = {}
    BY <1>3 DEF Started
  <2> QED
    BY <1>3, <2>1 DEF Fair, Comparable
<1>4. ASSUME NEW r \in running, Settles(r) PROVE Fair /\ Comparable'
  BY <1>3, <1>4 DEF Settles
<1>5. ASSUME NEW e \in releasing, Release(e) PROVE Fair /\ Comparable'
  BY <1>2, <1>5 DEF Release
<1>6. CASE TimerFires
  BY <1>2, <1>6 DEF TimerFires
<1>7. CASE Tick
  BY <1>3, <1>7 DEF Tick
<1>8. CASE Done
  BY <1>3, <1>8 DEF Done, vars
<1> QED
  BY <1>1, <1>4, <1>5, <1>6, <1>7, <1>8 DEF Next

\* A pass starts only entries that are likely enough to meet their deadline,
\* rejects only those that are not, and never prefers one that is behind in
\* aged priority and in its chance.
THEOREM Fairness == Spec => FairAdmission
<1>1. Init => Comparable
  BY DEF Init, Comparable
<1>2. IInv /\ Comparable /\ [Next]_vars => Comparable'
  BY StepIsFair DEF vars, Comparable
<1>3. IInv /\ Comparable /\ [Next]_vars => [Fair]_vars
  BY StepIsFair
<1>4. FairAdmission <=> [][Fair]_vars
  <2>1. [Fair]_vars <=>
          [/\ \A e \in Started : Likely(e)
           /\ \A e \in queue \ (queue' \cup Started) : ~Likely(e)
           /\ \A e \in Started, f \in queue' :
                ~ /\ PriorityWeight > 0
                  /\ AgedPriority(e) < AgedPriority(f)
                  /\ cdf(e.deadlineAt - now) <= cdf(f.deadlineAt - now)]_vars
    BY DEF Fair
  <2> QED
    BY <2>1, PTL DEF FairAdmission
<1> QED
  BY <1>1, <1>2, <1>3, <1>4, Inductive, PTL DEF Spec

=============================================================================
