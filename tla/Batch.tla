--------------------------------- MODULE Batch ---------------------------------
(***************************************************************************)
(* BatchRiskOracleAdapter (src/src/BatchRiskOracle.ts): getScores calls    *)
(* that share a queue, a bounded pool and an estimate of the latency of    *)
(* the wrapped oracle.  A scheduling pass rejects the entries that are     *)
(* not likely enough to meet their deadline, starts the best of the others *)
(* in the free slots and sets a timer for the rest.                        *)
(*                                                                         *)
(* Time is in milliseconds, probabilities are percentages or counts of     *)
(* samples, and a queue entry is ordered by its call and first occurrence. *)
(***************************************************************************)
EXTENDS Integers, FiniteSets, Sequences, Functions, FiniteSetsExt

CONSTANTS
  Requests,               \* the request arrays, of [destination, priority]
  Deadlines,              \* the deadlineMs of the calls
  Histories,              \* the latencies recorded before the calls
  MaxConcurrency,
  TargetConfidence,       \* this.targetConfidence, in percent
  AgingRate,              \* this.agingRatePerMs
  PriorityNormalization,
  PriorityWeight,
  FeasibilityWeight,
  Capacity,               \* of the LatencyEstimator, at least 8
  MinSamples,             \* at least 1
  InitialEstimateMs,
  MAX_POLL_MS,
  MaxCalls,               \* bounds the getScores calls
  MaxTime                 \* bounds the clock

ASSUME OptionsAssumption ==
  /\ Deadlines \subseteq Nat
  /\ MaxConcurrency \in Nat \ {0}
  /\ TargetConfidence \in 1 .. 100
  /\ {AgingRate, PriorityWeight, FeasibilityWeight} \subseteq Nat
  /\ PriorityNormalization \in Nat \ {0}
  /\ Capacity \in Nat /\ Capacity >= 8
  /\ MinSamples \in Nat \ {0}
  /\ InitialEstimateMs \in Nat
  /\ MAX_POLL_MS \in Nat \ {0}
  /\ {MaxCalls, MaxTime} \subseteq Nat
ASSUME InputsAssumption ==
  /\ \A r \in Requests : /\ Len(r) \in Nat \ {0} /\ DOMAIN r = 1 .. Len(r)
                          /\ \A i \in DOMAIN r : r[i].priority \in Int
  /\ \A h \in Histories : h \in Seq(Nat) /\ Len(h) <= Capacity

VARIABLES
  now,        \* Date.now()
  queue,      \* this.queue: the set of its entries, each with the call,
              \* the indices it answers, priority, enqueuedAt, deadlineAt
  running,    \* the calls of the wrapped oracle that have not settled, each
              \* with its entry and startedAt
  releasing,  \* the entries whose finally callback is still to run
  inFlight,   \* this.inFlight
  timer,      \* when this.pendingTimer is due, 0 for null
  samples,    \* the ring buffer of this.estimator, oldest first
  results     \* the results of each getScores call so far

vars == <<now, queue, running, releasing, inFlight, timer, samples, results>>

NoTimer == 0
Waiting == "waiting"

\* "answered" is fulfilled with a score or rejected with the oracle's error.
Status == {Waiting, "answered", "deadline-rejected"}

TypeOK ==
  /\ now \in Nat /\ timer \in Nat /\ inFlight \in Nat
  /\ \A e \in queue : e.deadlineAt \in Nat
  /\ \A r \in running : r.startedAt \in Nat /\ r.startedAt <= now
  /\ samples \in Seq(Nat)

Init ==
  /\ now = 0
  /\ queue = {} /\ running = {} /\ releasing = {}
  /\ inFlight = 0
  /\ timer = NoTimer
  /\ samples \in Histories
  /\ results = <<>>

-----------------------------------------------------------------------------
(* LatencyEstimator                                                        *)

Cold == Len(samples) < MinSamples
Resolution == IF Cold THEN 100 ELSE Len(samples)

Recorded(latency) ==
  LET all == Append(samples, latency)
  IN IF Len(all) > Capacity THEN Tail(all) ELSE all

AtMost(value) == Cardinality({k \in DOMAIN samples : samples[k] <= value})

\* P(latency <= value), in parts of Resolution
cdf(value) ==
  IF value <= 0 THEN 0
  ELSE IF ~Cold THEN AtMost(value)
  ELSE IF 2 * value >= 3 * InitialEstimateMs THEN 95
  ELSE IF value >= InitialEstimateMs THEN 50 ELSE 20

\* The samples at position k, from 0, of the sorted samples
AtRank(k) == {v \in Range(samples) : AtMost(v - 1) <= k /\ k < AtMost(v)}

CeilDiv(a, b) == (a + b - 1) \div b

\* quantile(TargetConfidence), rounded up to the timer's whole milliseconds
quantile ==
  IF Cold THEN {CeilDiv(InitialEstimateMs * (50 + TargetConfidence), 100)}
  ELSE LET rank   == TargetConfidence * (Len(samples) - 1)
           weight == rank % 100
       IN {CeilDiv(lower * (100 - weight) + upper * weight, 100) :
             lower \in AtRank(rank \div 100), upper \in AtRank(CeilDiv(rank, 100))}

-----------------------------------------------------------------------------
(* A scheduling pass                                                       *)

Feasible(e) ==
  /\ e.deadlineAt > now
  /\ cdf(e.deadlineAt - now) * 100 >= TargetConfidence * Resolution

AgedPriority(e) == e.priority + AgingRate * (now - e.enqueuedAt)

\* combinedScore, scaled by PriorityNormalization * Resolution; and a
\* mutant without aging.
UnagedScore(e) ==
  PriorityWeight * Resolution * e.priority
    + FeasibilityWeight * PriorityNormalization * cdf(e.deadlineAt - now)
combinedScore(e) ==
  PriorityWeight * Resolution * AgedPriority(e)
    + FeasibilityWeight * PriorityNormalization * cdf(e.deadlineAt - now)

\* e was pushed to the queue before f.
Before(e, f) == \/ e.call < f.call
                \/ e.call = f.call /\ Min(e.indices) < Min(f.indices)

Preferred(e, f) == \/ combinedScore(e) > combinedScore(f)
                   \/ combinedScore(e) = combinedScore(f) /\ Before(e, f)

\* The slots a pass may fill; a mutant takes one too many.
OneSlotMore(busy) == MaxConcurrency + 1 - busy
FreeSlots(busy)   == MaxConcurrency - busy

\* What the dispatch loop starts out of the candidates: the best of them.
Best(candidates, n) ==
  {S \in SUBSET candidates : /\ Cardinality(S) = Min({n, Cardinality(candidates)})
                             /\ \A e \in S, f \in candidates \ S : Preferred(e, f)}

\* The least of the delays until an entry of q turns infeasible; setTimeout
\* takes 0 for 1.
Soonest(q, bound) ==
  LET delays == {MAX_POLL_MS} \cup {Max({1, e.deadlineAt - now - bound}) : e \in q}
  IN {delay \in delays : \A other \in delays : delay <= other}

\* When the pass that leaves q queued is to be repeated; mutants forget the
\* timer or look at no deadline.
NoWakeUp(q)   == {NoTimer}
PollWakeUp(q) == IF q = {} THEN {NoTimer} ELSE {now + MAX_POLL_MS}
WakeUp(q) ==
  IF q = {} THEN {NoTimer}
  ELSE {now + delay : delay \in UNION {Soonest(q, bound) : bound \in quantile}}

\* finish, for the entries of S; a mutant answers the first occurrence only.
FinishFirst(res, S, status) ==
  [c \in DOMAIN res |-> [i \in DOMAIN res[c] |->
     IF \E e \in S : e.call = c /\ i = Min(e.indices) THEN status ELSE res[c][i]]]
Finish(res, S, status) ==
  [c \in DOMAIN res |-> [i \in DOMAIN res[c] |->
     IF \E e \in S : e.call = c /\ i \in e.indices THEN status ELSE res[c][i]]]

\* scheduleTick on the queue q with busy slots taken and the results res.
scheduleTick(q, busy, res) ==
  LET admitted == {e \in q : Feasible(e)}
  IN \E started \in Best(admitted, FreeSlots(busy)) :
       /\ queue' = admitted \ started
       /\ running' = running \cup {[entry |-> e, startedAt |-> now] : e \in started}
       /\ inFlight' = busy + Cardinality(started)
       /\ results' = Finish(res, q \ admitted, "deadline-rejected")
       /\ timer' \in WakeUp(admitted \ started)

-----------------------------------------------------------------------------
\* The entries getScores queues, one for each distinct destination.
Entries(c, requests, deadlineMs) ==
  {[call       |-> c,
    indices    |-> indices,
    priority   |-> Max({requests[i].priority : i \in indices}),
    enqueuedAt |-> now,
    deadlineAt |-> now + deadlineMs] :
     indices \in {{i \in DOMAIN requests : requests[i].destination = requests[j].destination} :
                    j \in DOMAIN requests}}

getScores(requests, deadlineMs) ==
  LET c == Len(results) + 1
  IN /\ c <= MaxCalls
     /\ now + deadlineMs <= MaxTime
     /\ scheduleTick(queue \cup Entries(c, requests, deadlineMs), inFlight,
                     Append(results, [i \in DOMAIN requests |-> Waiting]))
     /\ UNCHANGED <<now, releasing, samples>>

\* The wrapped oracle answers or fails; its finally callback runs in a later
\* microtask, other answers may come in between.
Settles(r) ==
  /\ r \in running
  /\ running' = running \ {r}
  /\ releasing' = releasing \cup {r.entry}
  /\ samples' = Recorded(now - r.startedAt)
  /\ results' = Finish(results, {r.entry}, "answered")
  /\ UNCHANGED <<now, queue, inFlight, timer>>

Release(e) ==
  /\ e \in releasing
  /\ releasing' = releasing \ {e}
  /\ scheduleTick(queue, inFlight - 1, results)
  /\ UNCHANGED <<now, samples>>

\* Timers run after all microtasks.
TimerFires ==
  /\ timer # NoTimer /\ now >= timer
  /\ releasing = {}
  /\ scheduleTick(queue, inFlight, results)
  /\ UNCHANGED <<now, releasing, samples>>

\* The event loop is never late for a timer.
Tick ==
  /\ now < MaxTime
  /\ timer = NoTimer \/ now < timer
  /\ releasing = {}
  /\ now' = now + 1
  /\ UNCHANGED <<queue, running, releasing, inFlight, timer, samples, results>>

Done ==
  /\ now = MaxTime
  /\ queue = {} /\ running = {} /\ releasing = {}
  /\ UNCHANGED vars

Next ==
  \/ \E requests \in Requests, deadlineMs \in Deadlines : getScores(requests, deadlineMs)
  \/ \E r \in running : Settles(r)
  \/ \E e \in releasing : Release(e)
  \/ TimerFires
  \/ Tick
  \/ Done

Spec == Init /\ [][Next]_vars

\* Time passes, timers fire and microtasks run; nothing is assumed of the
\* wrapped oracle.
FairSpec == /\ Spec
            /\ WF_vars(Tick)
            /\ WF_vars(TimerFires)
            /\ WF_vars(\E e \in releasing : Release(e))

-----------------------------------------------------------------------------
(* Properties                                                              *)

\* The pool neither leaks a slot nor runs more than MaxConcurrency calls of
\* the wrapped oracle, whatever passes run between an answer and its finally.
SlotsAccounted ==
  /\ inFlight = Cardinality(running) + Cardinality(releasing)
  /\ inFlight <= MaxConcurrency

\* No entry waits next to a free slot, and none without a timer that will
\* look at it again before its deadline.
QueueWatched ==
  \A e \in queue : /\ inFlight = MaxConcurrency
                   /\ now <= timer
                   /\ timer <= e.deadlineAt

\* Every request of a call is waiting for exactly one entry that is queued or
\* running, or has its result: none is dropped, none is answered twice.
NothingLost ==
  \A c \in DOMAIN results : \A i \in DOMAIN results[c] :
    LET waitsFor(e) == e.call = c /\ i \in e.indices
    IN Cardinality({e \in queue : waitsFor(e)} \cup {r \in running : waitsFor(r.entry)})
         = IF results[c][i] = Waiting THEN 1 ELSE 0

Started == {r.entry : r \in running' \ running}

\* Enough of the latest latencies, or of the cold-start guess, fit in what is
\* left of the time of e.
Likely(e) ==
  /\ now < e.deadlineAt
  /\ IF Cold THEN cdf(e.deadlineAt - now) >= TargetConfidence
     ELSE LET late == {k \in DOMAIN samples : now + samples[k] > e.deadlineAt}
          IN 100 * Cardinality(late) <= (100 - TargetConfidence) * Len(samples)

\* However long an entry has waited, and whatever has been learnt since: it is
\* started only while enough of the latest latencies would meet its deadline,
\* rejected only when too few would, and, if priorities have a weight at all,
\* never passed over by one that has both the lower aged priority and the lesser
\* chance to meet its deadline.
FairAdmission ==
  [][/\ \A e \in Started : Likely(e)
     /\ \A e \in queue \ (queue' \cup Started) : ~Likely(e)
     /\ \A e \in Started, f \in queue' :
          ~ /\ PriorityWeight > 0
            /\ AgedPriority(e) < AgedPriority(f)
            /\ cdf(e.deadlineAt - now) <= cdf(f.deadlineAt - now)]_vars

\* An entry leaves the queue though the wrapped oracle never answers again.
NoneQueuedForever ==
  \A c \in 1 .. MaxCalls :
    (\E e \in queue : e.call = c) ~> ~(\E e \in queue : e.call = c)

\* BatchRiskOracle.ts:215-221: an entry that has aged past the priorities in
\* use wins against every freshly arrived competitor.
AgedEntryWins ==
  [][\A e \in Started, f \in queue' :
       ~ /\ e.enqueuedAt = now /\ e.priority <= PriorityNormalization
         /\ AgedPriority(f) > PriorityNormalization]_vars

=============================================================================
