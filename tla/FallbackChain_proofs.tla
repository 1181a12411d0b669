-------------------------- MODULE FallbackChain_proofs --------------------------
(***************************************************************************)
(* FallbackOracle over a breaker and a timed tier, for any calls and any   *)
(* configuration of the breaker: who is told of a cancellation, what may   *)
(* start after one, what a failure and a score mean, what is released, and *)
(* that the breaker does as a tier what it does by itself.                 *)
(***************************************************************************)
EXTENDS FallbackChain, TLAPS

\* What the tiers know of a call's signal.
Signals ==
  \A c \in Call :
    /\ answer[c] = "cancelled" => c \in signalled
    /\ timed[c] = "cancelled" => c \in signalled
    /\ inner[c] = "cancelled" => timed[c] # "none"
    /\ Pending(c) /\ Tried(c) /\ Current(c) = BreakerTier /\ c \in signalled /\ pc[c] # "done"
         => c \in aborted

\* How far the loop of a call has come: the tiers before the one it awaits
\* have failed it, and withTimeout has not been asked before its turn.
Route ==
  \A c \in Call :
    /\ c \in listening => inner[c] # "none"
    /\ order[c] = <<>> <=> ~ Tried(c)
    /\ ~ Tried(c) => /\ result[c] \in {"pending", "cancelled"}
                     /\ inner[c] = "none" /\ timed[c] = "none"
                     /\ \A t \in Tier : outcome[c][t] = "not-reached"
    /\ Pending(c) => \A i \in DOMAIN order[c] :
         outcome[c][order[c][i]] = IF i < attempt[c] THEN "failure" ELSE "not-reached"
    /\ attempt[c] = 1 /\ Current(c) = BreakerTier => inner[c] = "none" /\ timed[c] = "none"

IInv == TypeOK /\ Signals /\ Route /\ TimedReleased /\ CancelledBySignal /\ ChainExhausted

-----------------------------------------------------------------------------
(* The breaker as a tier: what a step of it does to a call.                *)

LEMMA TwoTiers == BreakerTier \in {1, 2} /\ TimedTier = 3 - BreakerTier /\ Tier = {1, 2}
BY ChainAssumption DEF Tier, TimedTier

\* A call that enters getScore touches no other, and gets to the oracle only
\* if its signal has not been aborted.
LEMMA BreakerEntered ==
  ASSUME B!TypeOK, NEW c \in Call, B!Run(c)
  PROVE  /\ B!TypeOK'
         /\ pc[c] = "ready"
         /\ UNCHANGED <<aborted, cancellable>>
         /\ \A d \in Call \ {c} : pc'[d] = pc[d] /\ answer'[d] = answer[d]
         /\ answer'[c] = "cancelled" => c \in aborted \/ answer[c] = "cancelled"
         /\ B!InnerCalls' \subseteq B!InnerCalls \cup {c}
         /\ c \in aborted => B!InnerCalls' \subseteq B!InnerCalls
<1> USE ChainAssumption DEF B!TypeOK, B!InnerCalls, B!LiveProbes, B!Enter, B!Finish, B!HandleFallback,
        B!Answer, B!Failure, B!CircuitBreakerState, B!breaker, B!request
<1>1. CASE B!EnterAborted(c)
  BY <1>1 DEF B!EnterAborted
<1>2. CASE B!FailFast(c)
  BY <1>2 DEF B!FailFast
<1>3. CASE B!ClaimProbe(c)
  BY <1>3 DEF B!ClaimProbe
<1>4. ASSUME NEW o \in {"infra", "logical"}, B!ClaimProbeThrows(c, o)
      PROVE  /\ B!TypeOK'
             /\ pc[c] = "ready" /\ c \notin aborted
             /\ UNCHANGED <<aborted, cancellable>>
             /\ pc' = [pc EXCEPT ![c] = "done"]
             /\ answer' = [answer EXCEPT ![c] = "error"]
             /\ B!InnerCalls' \subseteq B!InnerCalls
  <2>1. /\ failures' \in Nat /\ nextAttempt' \in Nat /\ state' \in B!CircuitBreakerState
    BY <1>4 DEF B!ClaimProbeThrows, B!RecordFailure, B!Reset, B!Trips, B!CooldownEnd
  <2> QED
    BY <1>4, <2>1 DEF B!ClaimProbeThrows
<1>5. CASE B!AwaitProbe(c)
  BY <1>5 DEF B!AwaitProbe
<1>6. CASE B!CallInner(c)
  BY <1>6 DEF B!CallInner
<1> QED
  BY <1>1, <1>2, <1>3, <1>4, <1>5, <1>6 DEF B!Run

\* Whatever settles in the breaker, nobody is told of a cancellation, no call
\* is reopened and none gets to the oracle.
LEMMA BreakerSettled ==
  ASSUME B!TypeOK, NEW c \in Call, B!Settle(c)
  PROVE  /\ B!TypeOK'
         /\ UNCHANGED <<aborted, cancellable>>
         /\ \A d \in Call : /\ pc[d] = "done" => pc'[d] = "done"
                            /\ answer'[d] = "cancelled" => answer[d] = "cancelled"
         /\ B!InnerCalls' \subseteq B!InnerCalls
<1> USE ChainAssumption DEF B!TypeOK, B!InnerCalls, B!LiveProbes, B!Finish, B!HandleFallback,
        B!Answer, B!Failure, B!CircuitBreakerState, B!breaker, B!request
<1> DEFINE Kept == /\ UNCHANGED <<aborted, cancellable>>
                   /\ \A d \in Call : /\ pc[d] = "done" => pc'[d] = "done"
                                      /\ answer'[d] = "cancelled" => answer[d] = "cancelled"
                   /\ B!InnerCalls' \subseteq B!InnerCalls
<1>1. ASSUME NEW a \in B!Answer \ {"cancelled"}, B!SettleProbe(c, a)
      PROVE  /\ probe' \in [Call -> {"none", "inner", "fallback", "settled"}]
             /\ pc' \in [Call -> {"ready", "inner", "probe", "wait", "racedFallback", "fallback", "done"}]
             /\ awaits' \in [Call -> Call \cup {None}]
             /\ answer' \in [Call -> B!Answer]
             /\ \A d \in Call : /\ pc[d] = "done" => pc'[d] = "done"
                                /\ answer'[d] = "cancelled" => answer[d] = "cancelled"
             /\ B!InnerCalls' \subseteq B!InnerCalls
  BY <1>1 DEF B!SettleProbe, B!Woken, B!WaitingFor
<1>2. \A d \in Call : dest[d] = Destination /\ dest[d] \in B!Answer \ {"cancelled"}
  BY DEF Destination
<1>3. B!RecordFailure(state) \/ B!Reset \/ UNCHANGED <<state, failures, nextAttempt>> =>
        failures' \in Nat /\ nextAttempt' \in Nat /\ state' \in B!CircuitBreakerState
  BY DEF B!RecordFailure, B!Reset, B!Trips, B!CooldownEnd
<1>4. ASSUME NEW o \in B!Outcome, B!InnerSettles(c, o)
      PROVE  B!TypeOK' /\ Kept
  BY <1>2, <1>3, <1>4 DEF B!InnerSettles
<1>5. ASSUME NEW o \in B!Outcome, B!ProbeSettles(c, o)
      PROVE  B!TypeOK' /\ Kept
  <2>1. B!SettleProbe(c, IF o = "score" THEN dest[c] ELSE "error")
    BY <1>5 DEF B!ProbeSettles
  <2>2. (IF o = "score" THEN dest[c] ELSE "error") \in B!Answer \ {"cancelled"}
    BY <1>2
  <2> QED
    BY <1>1, <1>3, <1>5, <2>1, <2>2 DEF B!ProbeSettles
<1>6. ASSUME NEW a \in {"fallback", "error"}, B!ProbeFallbackSettles(c, a)
      PROVE  B!TypeOK' /\ Kept
  BY <1>1, <1>6 DEF B!ProbeFallbackSettles
<1>7. ASSUME NEW a \in {"fallback", "error"}, B!FallbackSettles(c, a)
      PROVE  B!TypeOK' /\ Kept
  BY <1>7 DEF B!FallbackSettles
<1> QED
  BY <1>4, <1>5, <1>6, <1>7 DEF B!Settle

\* An abort reaches the caller's own call only.
LEMMA BreakerAborted ==
  ASSUME B!TypeOK, NEW c \in Call, B!Abort(c)
  PROVE  /\ B!TypeOK'
         /\ aborted' = aborted \cup {c} /\ cancellable' = cancellable
         /\ \A d \in Call : /\ pc[d] = "done" => pc'[d] = "done"
                            /\ answer'[d] = "cancelled" => answer[d] = "cancelled" \/ d = c
         /\ B!InnerCalls' \subseteq B!InnerCalls
BY DEF B!Abort, B!Abortable, B!Detach, B!TypeOK, B!InnerCalls, B!LiveProbes, B!Finish,
       B!Answer, B!Failure, B!CircuitBreakerState, B!breaker, B!request

-----------------------------------------------------------------------------
\* A tier that is tried, the breaker or withTimeout, by a call nobody aborted
\* or re-entering after a probe.
LEMMA Tries ==
  ASSUME TypeOK, NEW c \in Call, NEW t \in Tier, TryTier(c, t)
  PROVE  /\ B!TypeOK'
         /\ learns' \in [Call -> BOOLEAN]
         /\ UNCHANGED <<aborted, cancellable, timed>>
         /\ \A d \in Call \ {c} : /\ pc'[d] = pc[d] /\ answer'[d] = answer[d]
                                  /\ inner'[d] = inner[d]
                                  /\ d \in armed' <=> d \in armed
                                  /\ d \in listening' <=> d \in listening
         /\ inner' \in [Call -> {"none", "running", "score", "error", "cancelled"}]
         /\ armed' \subseteq Call /\ listening' \subseteq cancellable
         /\ t = BreakerTier => /\ UNCHANGED <<inner, armed, listening>>
                               /\ answer'[c] = "cancelled" => c \in aborted \/ answer[c] = "cancelled"
         /\ t = TimedTier => /\ UNCHANGED <<pc, answer>>
                             /\ inner'[c] = "running"
         /\ AtWork' \subseteq AtWork \cup {<<c, BreakerTier>>, <<c, TimedTier>>}
<1>1. learns' \in [Call -> BOOLEAN]
  BY DEF TryTier, TypeOK
<1>2. CASE t = BreakerTier
  <2>1. B!Run(c) /\ UNCHANGED timeout
    BY <1>2 DEF TryTier
  <2> QED
    BY <1>1, <1>2, <2>1, TwoTiers, BreakerEntered DEF TypeOK, timeout, AtWork
<1>3. CASE t = TimedTier
  <2>1. StartTimed(c) /\ UNCHANGED breaker
    BY <1>3, TwoTiers DEF TryTier
  <2>2. B!TypeOK' /\ B!InnerCalls' = B!InnerCalls
    BY <2>1 DEF TypeOK, B!TypeOK, breaker, B!InnerCalls, B!LiveProbes
  <2> QED
    BY <1>1, <1>3, <2>1, <2>2, TwoTiers DEF StartTimed, OwnTimer, TypeOK, breaker, AtWork
<1> QED
  BY <1>2, <1>3, TwoTiers

Ranking == {<<1, 2>>, <<2, 1>>}

LEMMA Orders ==
  ASSUME NEW r \in Ranking
  PROVE  /\ r # <<>> /\ Len(r) = 2 /\ DOMAIN r = {1, 2}
         /\ r[1] \in Tier /\ r[2] \in Tier /\ r[1] # r[2] /\ Tier = {r[1], r[2]}
BY DEF Tier, Ranking

\* What is known of a call that awaits a tier.
LEMMA Awaiting ==
  ASSUME IInv, NEW c \in Call, Tried(c)
  PROVE  /\ order[c] \in Ranking
         /\ attempt[c] \in {1, 2} /\ Current(c) \in Tier
         /\ Last(c) <=> attempt[c] = 2
<1>1. order[c] \in Ranking /\ attempt[c] \in 1 .. Len(order[c])
  BY DEF IInv, TypeOK, Route, Tried, Ranking
<1>2. Len(order[c]) = 2 /\ order[c][1] \in Tier /\ order[c][2] \in Tier
  BY <1>1, Orders
<1>3. attempt[c] \in {1, 2}
  BY <1>1, <1>2
<1> QED
  BY <1>1, <1>2, <1>3 DEF Current, Last

-----------------------------------------------------------------------------
\* Nothing of a call but its return changes.
LEMMA ReturnStep ==
  ASSUME IInv, NEW c \in Call, Pending(c),
         NEW r \in {"score", "error", "cancelled"}, Return(c, r),
         r # "cancelled" => Tried(c),
         r = "cancelled" => c \in signalled,
         outcome' \in [Call -> [Tier -> {"not-reached", "failure", "success"}]],
         \A d \in Call \ {c} : outcome'[d] = outcome[d],
         ~ Tried(c) => outcome' = outcome,
         r = "error" => /\ Last(c)
                        /\ outcome'[c] = [outcome[c] EXCEPT ![Current(c)] = "failure"],
         r = "score" => outcome'[c] = [outcome[c] EXCEPT ![Current(c)] = "success"],
         pulls' \in [Tier -> Nat], successes' \in [Tier -> Nat],
         \A t \in Tier : successes'[t] <= pulls'[t],
         UNCHANGED <<breaker, timeout, order, attempt, learns, signalled>>
  PROVE  IInv'
<1>1. result' = [result EXCEPT ![c] = r] /\ result[c] = "pending"
  BY DEF Return, Pending
<1>2. TypeOK'
  BY <1>1 DEF IInv, TypeOK, breaker, timeout, B!TypeOK
<1>3. Signals' /\ TimedReleased'
  BY <1>1 DEF IInv, TypeOK, Signals, TimedReleased, breaker, timeout, Pending, Tried, Current
<1>4. CancelledBySignal'
  BY <1>1 DEF IInv, TypeOK, CancelledBySignal
<1>5. Route'
  BY <1>1 DEF IInv, TypeOK, Route, breaker, timeout, Pending, Tried, Current
<1>6. ChainExhausted'
  <2> SUFFICES ASSUME NEW d \in Call
               PROVE  /\ result'[d] = "error" => \A t \in Tier : outcome'[d][t] = "failure"
                      /\ result'[d] = "score" =>
                           \A i \in DOMAIN order[d] :
                             outcome'[d][order[d][i]] = IF i < attempt[d] THEN "failure"
                                                        ELSE IF i = attempt[d] THEN "success"
                                                        ELSE "not-reached"
    BY DEF ChainExhausted
  <2>1. CASE d # c
    BY <1>1, <2>1 DEF IInv, TypeOK, ChainExhausted
  <2>2. CASE d = c /\ r # "cancelled"
    <3>1. /\ order[c] \in Ranking
          /\ attempt[c] \in {1, 2}
          /\ Last(c) => attempt[c] = 2
      BY <2>2, Awaiting
    <3>2. /\ DOMAIN order[c] = {1, 2} /\ order[c][1] # order[c][2]
          /\ Tier = {order[c][1], order[c][2]}
      BY <3>1, Orders
    <3>3. \A i \in {1, 2} :
            outcome[c][order[c][i]] = IF i < attempt[c] THEN "failure" ELSE "not-reached"
      BY <3>2 DEF IInv, Route
    <3>4. outcome[c] \in [Tier -> {"not-reached", "failure", "success"}]
      BY DEF IInv, TypeOK
    <3>5. result'[c] = r
      BY <1>1 DEF IInv, TypeOK
    <3> QED
      BY <2>2, <3>1, <3>2, <3>3, <3>4, <3>5 DEF Current
  <2>3. CASE d = c /\ r = "cancelled"
    BY <1>1, <2>3 DEF IInv, TypeOK
  <2> QED
    BY <2>1, <2>2, <2>3
<1> QED
  BY <1>2, <1>3, <1>4, <1>5, <1>6 DEF IInv

\* An observation keeps the beliefs in their types.
LEMMA Learnt ==
  ASSUME IInv, NEW c \in Call, Tried(c), NEW v \in {"failure", "success"}, Learn(c, v)
  PROVE  /\ outcome' \in [Call -> [Tier -> {"not-reached", "failure", "success"}]]
         /\ \A d \in Call \ {c} : outcome'[d] = outcome[d]
         /\ outcome'[c] = [outcome[c] EXCEPT ![Current(c)] = v]
         /\ pulls' \in [Tier -> Nat] /\ successes' \in [Tier -> Nat]
         /\ \A t \in Tier : successes'[t] <= pulls'[t]
<1>1. Current(c) \in Tier /\ Pull \in Nat
  BY Awaiting, ChainAssumption
<1>2. outcome' = [outcome EXCEPT ![c][Current(c)] = v]
  BY DEF Learn
<1>3. /\ outcome \in [Call -> [Tier -> {"not-reached", "failure", "success"}]]
      /\ pulls \in [Tier -> Nat] /\ successes \in [Tier -> Nat]
      /\ \A t \in Tier : successes[t] <= pulls[t]
  BY DEF IInv, TypeOK
<1>4. /\ pulls' \in [Tier -> Nat] /\ successes' \in [Tier -> Nat]
      /\ \A t \in Tier : successes'[t] <= pulls'[t]
  BY <1>1, <1>3 DEF Learn, beliefs
<1> QED
  BY <1>1, <1>2, <1>3, <1>4

LEMMA ContinueStep ==
  ASSUME IInv, NEW c \in Call,
         BeginCancelled(c) \/ TierAnswers(c) \/ TierCancelled(c) \/ LastTierFails(c)
  PROVE  IInv'
<1>1. /\ outcome \in [Call -> [Tier -> {"not-reached", "failure", "success"}]]
      /\ pulls \in [Tier -> Nat] /\ successes \in [Tier -> Nat]
      /\ \A t \in Tier : successes[t] <= pulls[t]
  BY DEF IInv, TypeOK
<1>2. CASE BeginCancelled(c)
  BY <1>1, <1>2, ReturnStep DEF BeginCancelled, beliefs
<1>3. CASE TierAnswers(c)
  <2>1. /\ Pending(c) /\ Tried(c) /\ Learn(c, "success") /\ Return(c, "score")
        /\ UNCHANGED <<breaker, timeout, order, attempt, learns, signalled>>
    BY <1>3 DEF TierAnswers, Settled
  <2> QED
    BY <2>1, Learnt, ReturnStep
<1>4. CASE TierCancelled(c)
  <2>1. /\ Pending(c) /\ Tried(c) /\ Verdict(c) = "cancelled" /\ Return(c, "cancelled")
        /\ UNCHANGED <<breaker, timeout, order, attempt, learns, signalled>>
        /\ UNCHANGED <<beliefs, outcome>>
    BY <1>4 DEF TierCancelled, Settled, BlameNobody
  <2>2. c \in signalled
    BY <2>1, TwoTiers, Awaiting DEF Verdict, IInv, Signals
  <2> QED
    BY <1>1, <2>1, <2>2, ReturnStep DEF beliefs
<1>5. CASE LastTierFails(c)
  <2>1. /\ Pending(c) /\ Tried(c) /\ Last(c) /\ Learn(c, "failure") /\ Return(c, "error")
        /\ UNCHANGED <<breaker, timeout, order, attempt, learns, signalled>>
    BY <1>5 DEF LastTierFails, Settled
  <2> QED
    BY <2>1, Learnt, ReturnStep
<1> QED
  BY <1>2, <1>3, <1>4, <1>5

-----------------------------------------------------------------------------
\* Call c turns to the k-th tier of its ranking r.
Turns(c, r, k) == /\ order' = [order EXCEPT ![c] = r]
                  /\ attempt' = [attempt EXCEPT ![c] = k]

\* A call does so only while nobody has aborted it.
LEMMA AttemptStep ==
  ASSUME IInv, NEW c \in Call, Pending(c), c \notin signalled,
         NEW r \in Ranking, NEW k \in {1, 2}, TryTier(c, r[k]),
         Turns(c, r, k),
         k = 1 \/ r[k] = TimedTier => inner[c] = "none" /\ timed[c] = "none",
         outcome' \in [Call -> [Tier -> {"not-reached", "failure", "success"}]],
         \A d \in Call \ {c} : outcome'[d] = outcome[d],
         \A i \in {1, 2} : outcome'[c][r[i]] = IF i < k THEN "failure" ELSE "not-reached",
         pulls' \in [Tier -> Nat], successes' \in [Tier -> Nat],
         \A t \in Tier : successes'[t] <= pulls'[t],
         UNCHANGED <<result, signalled>>
  PROVE  IInv'
<1>1. /\ r # <<>> /\ Len(r) = 2 /\ DOMAIN r = {1, 2}
      /\ r[k] \in Tier /\ (r[k] = TimedTier <=> r[k] # BreakerTier)
  BY Orders, TwoTiers
<1>2. TypeOK /\ Signals /\ Route /\ TimedReleased /\ CancelledBySignal /\ ChainExhausted
  BY DEF IInv
<1> DEFINE t == r[k]
<1>3. /\ B!TypeOK'
      /\ learns' \in [Call -> BOOLEAN]
      /\ UNCHANGED <<aborted, cancellable, timed>>
      /\ \A d \in Call \ {c} : /\ pc'[d] = pc[d] /\ answer'[d] = answer[d]
                               /\ inner'[d] = inner[d]
                               /\ d \in armed' <=> d \in armed
                               /\ d \in listening' <=> d \in listening
      /\ inner' \in [Call -> {"none", "running", "score", "error", "cancelled"}]
      /\ armed' \subseteq Call /\ listening' \subseteq cancellable
      /\ t = BreakerTier => /\ UNCHANGED <<inner, armed, listening>>
                            /\ answer'[c] = "cancelled" => c \in aborted \/ answer[c] = "cancelled"
      /\ t = TimedTier => UNCHANGED <<pc, answer>> /\ inner'[c] = "running"
  BY <1>1, <1>2, Tries
<1> HIDE DEF t
<1>4. /\ order'[c] = r /\ attempt'[c] = k
      /\ \A d \in Call \ {c} : order'[d] = order[d] /\ attempt'[d] = attempt[d]
  BY <1>2 DEF TypeOK, Turns
<1>5. attempt' \in [Call -> Nat] /\ \A d \in Call : attempt'[d] <= Len(order'[d])
  <2>1. attempt' \in [Call -> Nat]
    BY <1>2 DEF TypeOK, Turns
  <2>2. attempt'[c] <= Len(order'[c])
    <3>1. attempt'[c] = k /\ order'[c] = r
      BY <1>4
    <3>2. Len(order'[c]) = 2 /\ k <= 2
      BY <1>1, <3>1
    <3> QED
      BY <3>1, <3>2
  <2>3. \A d \in Call \ {c} : attempt'[d] <= Len(order'[d])
    BY <1>2, <1>4 DEF TypeOK
  <2> QED
    BY <2>1, <2>2, <2>3
<1>6. TypeOK'
  <2>1. order' \in [Call -> {<<>>, <<1, 2>>, <<2, 1>>}]
    BY <1>2 DEF TypeOK, Turns, Ranking
  <2> QED
    BY <1>2, <1>3, <1>5, <2>1 DEF TypeOK
<1>7. Signals'
  <2> SUFFICES ASSUME NEW d \in Call
               PROVE  /\ answer'[d] = "cancelled" => d \in signalled
                      /\ timed'[d] = "cancelled" => d \in signalled
                      /\ inner'[d] = "cancelled" => timed'[d] # "none"
                      /\ Pending(d)' /\ Tried(d)' /\ Current(d)' = BreakerTier
                         /\ d \in signalled /\ pc'[d] # "done" => d \in aborted'
    BY DEF Signals
  <2>1. CASE d = c
    <3>1. /\ answer[c] = "cancelled" \/ c \in aborted => c \in signalled
          /\ timed[c] = "cancelled" => c \in signalled
          /\ inner[c] = "cancelled" => timed[c] # "none"
      BY <1>2 DEF Signals, TypeOK
    <3>2. t = BreakerTier \/ t = TimedTier
      BY <1>1 DEF t
    <3> QED
      BY <1>3, <2>1, <3>1, <3>2
  <2>2. CASE d # c
    BY <1>2, <1>3, <1>4, <2>2 DEF Signals, Pending, Tried, Current
  <2> QED
    BY <2>1, <2>2
<1>8. TimedReleased'
  BY <1>1, <1>2, <1>3 DEF TimedReleased, TypeOK, t
<1>9. Route'
  <2> SUFFICES ASSUME NEW d \in Call
               PROVE  /\ d \in listening' => inner'[d] # "none"
                      /\ order'[d] = <<>> <=> ~ Tried(d)'
                      /\ ~ Tried(d)' => /\ result'[d] \in {"pending", "cancelled"}
                                        /\ inner'[d] = "none" /\ timed'[d] = "none"
                                        /\ \A u \in Tier : outcome'[d][u] = "not-reached"
                      /\ Pending(d)' => \A i \in DOMAIN order'[d] :
                           outcome'[d][order'[d][i]] = IF i < attempt'[d] THEN "failure" ELSE "not-reached"
                      /\ attempt'[d] = 1 /\ Current(d)' = BreakerTier
                           => inner'[d] = "none" /\ timed'[d] = "none"
    BY DEF Route
  <2>1. CASE d = c
    <3>1. Tried(c)' /\ Current(c)' = r[k]
      BY <1>4 DEF Tried, Current
    <3>2. k = 1 /\ r[k] = BreakerTier => inner'[c] = "none" /\ timed'[c] = "none"
      BY <1>3 DEF t
    <3>3. order'[c] # <<>> /\ \A i \in DOMAIN order'[c] :
            outcome'[c][order'[c][i]] = IF i < attempt'[c] THEN "failure" ELSE "not-reached"
      <4>1. order'[c] = r /\ attempt'[c] = k
        BY <1>4
      <4> QED
        BY <1>1, <4>1
    <3>4. attempt'[c] = k
      BY <1>4
    <3>5. c \in listening' => inner'[c] # "none"
      BY <1>1, <1>2, <1>3 DEF t, Route
    <3> QED
      BY <2>1, <3>1, <3>2, <3>3, <3>4, <3>5
  <2>2. CASE d # c
    <3>1. /\ order'[d] = order[d] /\ attempt'[d] = attempt[d] /\ result'[d] = result[d]
          /\ inner'[d] = inner[d] /\ timed'[d] = timed[d] /\ outcome'[d] = outcome[d]
          /\ d \in listening' <=> d \in listening
      BY <1>3, <1>4, <2>2
    <3>2. /\ d \in listening => inner[d] # "none"
          /\ order[d] = <<>> <=> ~ Tried(d)
          /\ ~ Tried(d) => /\ result[d] \in {"pending", "cancelled"}
                           /\ inner[d] = "none" /\ timed[d] = "none"
                           /\ \A u \in Tier : outcome[d][u] = "not-reached"
          /\ Pending(d) => \A i \in DOMAIN order[d] :
               outcome[d][order[d][i]] = IF i < attempt[d] THEN "failure" ELSE "not-reached"
          /\ attempt[d] = 1 /\ Current(d) = BreakerTier => inner[d] = "none" /\ timed[d] = "none"
      BY <1>2 DEF Route
    <3>3. (Tried(d)' <=> Tried(d)) /\ (Pending(d)' <=> Pending(d)) /\ Current(d)' = Current(d)
      BY <3>1 DEF Tried, Pending, Current
    <3> QED
      BY <3>1, <3>2, <3>3
  <2> QED
    BY <2>1, <2>2
<1>10. CancelledBySignal' /\ ChainExhausted'
  BY <1>2, <1>4 DEF CancelledBySignal, ChainExhausted, Pending
<1> QED
  BY <1>6, <1>7, <1>8, <1>9, <1>10 DEF IInv

LEMMA BeginStep ==
  ASSUME IInv, NEW c \in Call, Begin(c)
  PROVE  IInv'
<1>1. PICK r \in Rankings(pulls', successes') : Turns(c, r, 1) /\ TryTier(c, r[1])
  BY DEF Begin, Turns
<1>2. r \in Ranking
  BY DEF Rankings, Ranking
<1>3. /\ Pending(c) /\ ~ Tried(c) /\ c \notin signalled
      /\ pulls' = Decayed(pulls) /\ successes' = Decayed(successes)
      /\ UNCHANGED <<outcome, result, signalled>>
  BY DEF Begin
<1>4. /\ \A n, m \in Nat : n <= m => n \div 2 \in Nat /\ n \div 2 <= m \div 2
  OBVIOUS
<1>5. /\ pulls' \in [Tier -> Nat] /\ successes' \in [Tier -> Nat]
      /\ \A t \in Tier : successes'[t] <= pulls'[t]
  BY <1>3, <1>4 DEF Decayed, IInv, TypeOK
<1>6. /\ inner[c] = "none" /\ timed[c] = "none"
      /\ \A i \in {1, 2} : outcome[c][r[i]] = "not-reached"
      /\ outcome \in [Call -> [Tier -> {"not-reached", "failure", "success"}]]
  BY <1>2, <1>3, Orders DEF IInv, Route, TypeOK
<1> QED
  BY <1>1, <1>2, <1>3, <1>5, <1>6, AttemptStep

LEMMA FallThroughStep ==
  ASSUME IInv, NEW c \in Call, FallThrough(c)
  PROVE  IInv'
<1>1. /\ Pending(c) /\ Tried(c) /\ ~ Last(c) /\ Learn(c, "failure")
      /\ UNCHANGED <<order, signalled>>
  BY DEF FallThrough, Settled
<1>2. /\ outcome' \in [Call -> [Tier -> {"not-reached", "failure", "success"}]]
      /\ \A d \in Call \ {c} : outcome'[d] = outcome[d]
      /\ outcome'[c] = [outcome[c] EXCEPT ![Current(c)] = "failure"]
      /\ pulls' \in [Tier -> Nat] /\ successes' \in [Tier -> Nat]
      /\ \A t \in Tier : successes'[t] <= pulls'[t]
  BY <1>1, Learnt
<1>3. CASE c \in signalled
  <2>1. Return(c, "cancelled") /\ UNCHANGED <<breaker, timeout, attempt, learns>>
    BY <1>3 DEF FallThrough, Leaves
  <2> QED
    BY <1>1, <1>2, <1>3, <2>1, ReturnStep
<1>4. CASE c \notin signalled
  <2>1. /\ attempt' = [attempt EXCEPT ![c] = @ + 1]
        /\ TryTier(c, order[c][attempt[c] + 1])
        /\ UNCHANGED result
    BY <1>4 DEF FallThrough, Leaves
  <2>2. order[c] \in Ranking /\ attempt[c] = 1
    BY <1>1, Awaiting
  <2>3. /\ order[c][1] \in Tier /\ order[c][2] \in Tier /\ order[c][1] # order[c][2]
        /\ DOMAIN order[c] = {1, 2}
    BY <2>2, Orders
  <2>4. Turns(c, order[c], 2)
    BY <1>1, <2>1, <2>2 DEF IInv, TypeOK, Turns
  <2>5. order[c][2] = TimedTier => inner[c] = "none" /\ timed[c] = "none"
    BY <2>2, <2>3, TwoTiers DEF IInv, Route, Current
  <2>6. \A i \in {1, 2} : outcome'[c][order[c][i]] = IF i < 2 THEN "failure" ELSE "not-reached"
    <3>1. outcome[c] \in [Tier -> {"not-reached", "failure", "success"}]
      BY DEF IInv, TypeOK
    <3>2. outcome[c][order[c][2]] = "not-reached"
      BY <1>1, <2>2, <2>3 DEF IInv, Route
    <3> QED
      BY <1>2, <2>2, <2>3, <3>1, <3>2 DEF Current
  <2>7. TryTier(c, order[c][2]) /\ Pending(c) /\ UNCHANGED <<result, signalled>>
    BY <1>1, <2>1, <2>2
  <2>8. 2 \in {1, 2} /\ (2 = 1 \/ order[c][2] = TimedTier => inner[c] = "none" /\ timed[c] = "none")
    BY <2>5
  <2>9. /\ outcome' \in [Call -> [Tier -> {"not-reached", "failure", "success"}]]
        /\ \A d \in Call \ {c} : outcome'[d] = outcome[d]
        /\ pulls' \in [Tier -> Nat] /\ successes' \in [Tier -> Nat]
        /\ \A t \in Tier : successes'[t] <= pulls'[t]
    BY <1>2
  <2> DEFINE r == order[c]
  <2> HIDE DEF r
  <2>10. r \in Ranking /\ Turns(c, r, 2) /\ TryTier(c, r[2])
         /\ (2 = 1 \/ r[2] = TimedTier => inner[c] = "none" /\ timed[c] = "none")
         /\ \A i \in {1, 2} : outcome'[c][r[i]] = IF i < 2 THEN "failure" ELSE "not-reached"
    BY <2>2, <2>4, <2>6, <2>7, <2>8 DEF r
  <2> QED
    BY <1>4, <2>7, <2>8, <2>9, <2>10, AttemptStep
<1> QED
  BY <1>3, <1>4

-----------------------------------------------------------------------------
\* Whatever goes on in the tiers while the loops of the calls wait.
Waits == UNCHANGED <<beliefs, route>>

LEMMA LoopWaits ==
  ASSUME IInv, Waits, B!TypeOK', Signals', TimedReleased', cancellable' = cancellable,
         aborted' \subseteq signalled', signalled \subseteq signalled', signalled' \subseteq cancellable,
         timeout' = timeout \/ \E c \in Call : /\ inner[c] # "none"
                                               /\ \A d \in Call \ {c} : inner'[d] = inner[d]
                                               /\ \A d \in Call \ {c} : timed'[d] = timed[d]
                                               /\ inner'[c] # "none",
         inner' \in [Call -> {"none", "running", "score", "error", "cancelled"}],
         timed' \in [Call -> {"none", "score", "error", "timeout", "cancelled"}],
         armed' \subseteq armed, listening' \subseteq listening
  PROVE  IInv'
<1>1. UNCHANGED <<pulls, successes, order, attempt, learns, outcome, result>>
  BY DEF Waits, beliefs, route
<1>2. TypeOK'
  BY <1>1 DEF IInv, TypeOK
<1>3. Route'
  BY <1>1 DEF IInv, Route, timeout, Pending, Tried, Current
<1>4. CancelledBySignal' /\ ChainExhausted'
  BY <1>1 DEF IInv, CancelledBySignal, ChainExhausted
<1> QED
  BY <1>2, <1>3, <1>4 DEF IInv

LEMMA ReenterStep ==
  ASSUME IInv, NEW c \in Call, Reenter(c)
  PROVE  IInv'
<1>1. B!Run(c) /\ Waits /\ UNCHANGED <<timeout, signalled>>
  BY DEF Reenter, Waits
<1>2. /\ B!TypeOK' /\ pc[c] = "ready" /\ UNCHANGED <<aborted, cancellable>>
      /\ \A d \in Call \ {c} : pc'[d] = pc[d] /\ answer'[d] = answer[d]
      /\ answer'[c] = "cancelled" => c \in aborted \/ answer[c] = "cancelled"
  BY <1>1, BreakerEntered DEF IInv, TypeOK
<1>3. Signals' /\ TimedReleased'
  BY <1>1, <1>2 DEF IInv, TypeOK, Signals, TimedReleased, timeout, Waits, route, Pending, Tried, Current
<1> QED
  BY <1>1, <1>2, <1>3, LoopWaits DEF IInv, TypeOK, timeout

LEMMA BreakerStep ==
  ASSUME IInv, NEW c \in Call, BreakerSettles(c)
  PROVE  IInv'
<1>1. B!Settle(c) /\ Waits /\ UNCHANGED <<timeout, signalled>>
  BY DEF BreakerSettles, Waits
<1>2. /\ B!TypeOK' /\ UNCHANGED <<aborted, cancellable>>
      /\ \A d \in Call : /\ pc[d] = "done" => pc'[d] = "done"
                         /\ answer'[d] = "cancelled" => answer[d] = "cancelled"
  BY <1>1, BreakerSettled DEF IInv, TypeOK
<1>3. Signals' /\ TimedReleased'
  BY <1>1, <1>2 DEF IInv, TypeOK, Signals, TimedReleased, timeout, Waits, route, Pending, Tried, Current
<1> QED
  BY <1>1, <1>2, <1>3, LoopWaits DEF IInv, TypeOK, timeout

\* The withTimeout attempt of call c moves, and no other.
Moves(c) ==
  /\ inner[c] # "none" /\ inner'[c] # "none"
  /\ \A d \in Call \ {c} : inner'[d] = inner[d] /\ timed'[d] = timed[d]
  /\ inner' \in [Call -> {"none", "running", "score", "error", "cancelled"}]
  /\ timed' \in [Call -> {"none", "score", "error", "timeout", "cancelled"}]
  /\ armed' \subseteq armed /\ listening' \subseteq listening
  /\ timed'[c] # "none" => /\ c \notin armed' \cup listening'
                           /\ Stoppable => inner'[c] # "running"
  /\ timed'[c] = "cancelled" => c \in signalled'
  /\ inner'[c] = "cancelled" => timed'[c] # "none"

LEMMA MovesStep ==
  ASSUME IInv, NEW c \in Call, Moves(c), Waits, UNCHANGED breaker,
         signalled \subseteq signalled', signalled' \subseteq cancellable,
         \A d \in signalled' \ signalled : ~ (Tried(d) /\ Current(d) = BreakerTier /\ pc[d] # "done")
  PROVE  IInv'
<1>1. B!TypeOK' /\ UNCHANGED <<aborted, cancellable, pc, answer>>
  BY DEF IInv, TypeOK, B!TypeOK, breaker
<1>2. TimedReleased'
  BY DEF Moves, IInv, TypeOK, TimedReleased
<1>3. Signals'
  <2> SUFFICES ASSUME NEW d \in Call
               PROVE  /\ answer[d] = "cancelled" => d \in signalled'
                      /\ timed'[d] = "cancelled" => d \in signalled'
                      /\ inner'[d] = "cancelled" => timed'[d] # "none"
                      /\ Pending(d)' /\ Tried(d)' /\ Current(d)' = BreakerTier
                         /\ d \in signalled' /\ pc[d] # "done" => d \in aborted
    BY <1>1 DEF Signals
  <2>1. (Pending(d)' <=> Pending(d)) /\ (Tried(d)' <=> Tried(d)) /\ Current(d)' = Current(d)
    BY DEF Waits, route, Pending, Tried, Current
  <2>2. /\ answer[d] = "cancelled" => d \in signalled
        /\ timed[d] = "cancelled" => d \in signalled
        /\ inner[d] = "cancelled" => timed[d] # "none"
        /\ Pending(d) /\ Tried(d) /\ Current(d) = BreakerTier /\ d \in signalled /\ pc[d] # "done"
             => d \in aborted
    BY DEF IInv, Signals
  <2> QED
    BY <2>1, <2>2 DEF Moves
<1>4. aborted' \subseteq signalled' /\ signalled' \subseteq cancellable' /\ cancellable' = cancellable
  BY <1>1 DEF IInv, TypeOK
<1>5. /\ \E d \in Call : /\ inner[d] # "none" /\ inner'[d] # "none"
                         /\ \A e \in Call \ {d} : inner'[e] = inner[e]
                         /\ \A e \in Call \ {d} : timed'[e] = timed[e]
      /\ inner' \in [Call -> {"none", "running", "score", "error", "cancelled"}]
      /\ timed' \in [Call -> {"none", "score", "error", "timeout", "cancelled"}]
      /\ armed' \subseteq armed /\ listening' \subseteq listening
  BY DEF Moves
<1> QED
  BY <1>1, <1>2, <1>3, <1>4, <1>5, LoopWaits

\* What is known of the attempt behind withTimeout.
LEMMA Timed ==
  ASSUME IInv, NEW c \in Call
  PROVE  /\ inner \in [Call -> {"none", "running", "score", "error", "cancelled"}]
         /\ timed \in [Call -> {"none", "score", "error", "timeout", "cancelled"}]
         /\ timed[c] = "cancelled" => c \in signalled
         /\ inner[c] = "cancelled" => timed[c] # "none"
         /\ timed[c] # "none" => /\ c \notin armed \cup listening
                                 /\ Stoppable => inner[c] # "running"
         /\ c \in listening => inner[c] # "none"
BY DEF IInv, TypeOK, Signals, TimedReleased, Route

\* An attempt that is ended by its timer or its signal.
LEMMA Stops ==
  ASSUME IInv, NEW c \in Call, NEW how \in {"timeout", "cancelled"},
         Settle(c, how), StopInner(c), inner[c] # "none", how = "cancelled" => c \in signalled'
  PROVE  Moves(c)
<1>1. /\ timed' = [timed EXCEPT ![c] = how]
      /\ armed' = armed \ {c} /\ listening' = listening \ {c}
  BY DEF Settle
<1>2. /\ timed'[c] = how /\ \A d \in Call \ {c} : timed'[d] = timed[d]
      /\ timed' \in [Call -> {"none", "score", "error", "timeout", "cancelled"}]
  BY <1>1, Timed
<1>3. /\ inner' \in [Call -> {"none", "running", "score", "error", "cancelled"}]
      /\ inner'[c] # "none" /\ \A d \in Call \ {c} : inner'[d] = inner[d]
      /\ Stoppable => inner'[c] # "running"
  <2>1. CASE Stoppable /\ inner[c] = "running"
    BY <2>1, Timed DEF StopInner
  <2>2. CASE ~ (Stoppable /\ inner[c] = "running")
    BY <2>2, Timed DEF StopInner
  <2> QED
    BY <2>1, <2>2
<1> QED
  BY <1>1, <1>2, <1>3 DEF Moves

LEMMA TimedStep ==
  ASSUME IInv, NEW c \in Call, TimedSettles(c)
  PROVE  IInv'
<1>1. Waits /\ UNCHANGED <<breaker, signalled>>
  BY DEF TimedSettles, Waits
<1>2. ASSUME NEW how \in {"score", "error"}, InnerSettles(c, how) PROVE Moves(c)
  <2>1. /\ inner[c] = "running" /\ inner' = [inner EXCEPT ![c] = how]
        /\ UNCHANGED <<armed, listening, timed>>
    BY <1>2 DEF InnerSettles
  <2>2. /\ inner'[c] = how /\ \A d \in Call \ {c} : inner'[d] = inner[d]
        /\ inner' \in [Call -> {"none", "running", "score", "error", "cancelled"}]
    BY <2>1, Timed
  <2>3. timed' = timed /\ timed[c] = "cancelled" => c \in signalled'
    BY <1>1, Timed
  <2> QED
    BY <2>1, <2>2, <2>3, Timed DEF Moves
<1>3. ASSUME InnerReaction(c) PROVE Moves(c)
  <2>1. /\ inner[c] \notin {"none", "running"} /\ timed[c] = "none"
        /\ timed' = [timed EXCEPT ![c] = inner[c]]
        /\ armed' = armed \ {c} /\ listening' = listening \ {c}
        /\ inner' = inner
    BY <1>3 DEF InnerReaction, Settle
  <2>2. inner[c] \in {"score", "error"}
    BY <2>1, Timed
  <2>3. /\ timed'[c] = inner[c] /\ \A d \in Call \ {c} : timed'[d] = timed[d]
        /\ timed' \in [Call -> {"none", "score", "error", "timeout", "cancelled"}]
    BY <2>1, <2>2, Timed
  <2> QED
    BY <2>1, <2>2, <2>3, Timed DEF Moves
<1>4. ASSUME TimerFires(c) PROVE Moves(c)
  <2>1. inner[c] = "running" /\ Settle(c, "timeout") /\ StopInner(c)
    BY <1>4 DEF TimerFires, TimerOutcome
  <2> QED
    BY <2>1, Stops
<1>5. Moves(c)
  BY <1>2, <1>3, <1>4 DEF TimedSettles
<1>6. signalled' \subseteq cancellable
  BY <1>1 DEF IInv, TypeOK
<1> QED
  BY <1>1, <1>5, <1>6, MovesStep

LEMMA AbortStep ==
  ASSUME IInv, NEW c \in Call, Abort(c)
  PROVE  IInv'
<1>1. Waits /\ signalled' = signalled \cup {c} /\ c \in cancellable
  BY DEF Abort, Waits
<1>2. aborted \subseteq signalled /\ signalled' \subseteq cancellable
  BY <1>1 DEF IInv, TypeOK
<1>3. CASE B!Abort(c) /\ UNCHANGED timeout
  <2>1. /\ B!TypeOK' /\ aborted' = aborted \cup {c} /\ cancellable' = cancellable
        /\ \A d \in Call : /\ pc[d] = "done" => pc'[d] = "done"
                           /\ answer'[d] = "cancelled" => answer[d] = "cancelled" \/ d = c
    BY <1>3, BreakerAborted DEF IInv, TypeOK
  <2>2. TimedReleased'
    BY <1>3 DEF IInv, TimedReleased, timeout
  <2>3. Signals'
    <3> SUFFICES ASSUME NEW d \in Call
                 PROVE  /\ answer'[d] = "cancelled" => d \in signalled'
                        /\ timed'[d] = "cancelled" => d \in signalled'
                        /\ inner'[d] = "cancelled" => timed'[d] # "none"
                        /\ Pending(d)' /\ Tried(d)' /\ Current(d)' = BreakerTier
                           /\ d \in signalled' /\ pc'[d] # "done" => d \in aborted'
      BY DEF Signals
    <3>1. (Pending(d)' <=> Pending(d)) /\ (Tried(d)' <=> Tried(d)) /\ Current(d)' = Current(d)
      BY <1>1 DEF Waits, route, Pending, Tried, Current
    <3>2. /\ answer[d] = "cancelled" => d \in signalled
          /\ timed[d] = "cancelled" => d \in signalled
          /\ inner[d] = "cancelled" => timed[d] # "none"
          /\ Pending(d) /\ Tried(d) /\ Current(d) = BreakerTier /\ d \in signalled /\ pc[d] # "done"
               => d \in aborted
      BY DEF IInv, Signals
    <3>3. timed' = timed /\ inner' = inner
      BY <1>3 DEF timeout
    <3>4. /\ pc[d] = "done" => pc'[d] = "done"
          /\ answer'[d] = "cancelled" => answer[d] = "cancelled" \/ d = c
      BY <2>1
    <3> QED
      BY <1>1, <2>1, <3>1, <3>2, <3>3, <3>4
  <2>4. aborted' \subseteq signalled' /\ signalled \subseteq signalled' /\ signalled' \subseteq cancellable'
    BY <1>1, <1>2, <2>1
  <2> QED
    BY <1>1, <1>3, <2>1, <2>2, <2>3, <2>4, LoopWaits DEF IInv, TypeOK, timeout
<1>4. ASSUME UNCHANGED breaker, ~ (Tried(c) /\ Current(c) = BreakerTier /\ pc[c] # "done"),
             c \in listening, Settle(c, "cancelled"), StopInner(c)
      PROVE  IInv'
  <2>1. Moves(c)
    BY <1>1, <1>4, Timed, Stops
  <2> QED
    BY <1>1, <1>2, <1>4, <2>1, MovesStep
<1>5. ASSUME UNCHANGED <<breaker, timeout>>, ~ (Tried(c) /\ Current(c) = BreakerTier /\ pc[c] # "done")
      PROVE  IInv'
  <2>1. B!TypeOK' /\ UNCHANGED <<aborted, cancellable, pc, answer, inner, timed>>
    BY <1>5 DEF IInv, TypeOK, B!TypeOK, breaker, timeout
  <2>2. TimedReleased'
    BY <1>5 DEF IInv, TimedReleased, timeout
  <2>3. Signals'
    BY <1>1, <1>5, <2>1 DEF IInv, Signals, Waits, route, Pending, Tried, Current
  <2>4. aborted' \subseteq signalled' /\ signalled \subseteq signalled' /\ signalled' \subseteq cancellable'
    BY <1>1, <1>2, <2>1
  <2> QED
    BY <1>1, <1>5, <2>1, <2>2, <2>3, <2>4, LoopWaits DEF IInv, TypeOK, timeout
<1> QED
  BY <1>3, <1>4, <1>5 DEF Abort

\* IInv holds in every reachable state.
THEOREM Inductive == Spec => []IInv
<1>1. Init => IInv
  <2> SUFFICES ASSUME Init PROVE IInv
    OBVIOUS
  <2>1. B!TypeOK
    BY ChainAssumption DEF Init, Fresh, Tripped, B!Init, B!NoCallYet, B!TypeOK, B!CircuitBreakerState,
       B!Answer, B!Failure, Destination
  <2>2. /\ pulls \in [Tier -> Nat] /\ successes \in [Tier -> Nat]
        /\ \A t \in Tier : successes[t] <= pulls[t]
    <3>1. CASE pulls = [t \in Tier |-> 0] /\ successes = pulls
      BY <3>1
    <3>2. CASE pulls = [t \in Tier |-> Pull] /\ successes = [pulls EXCEPT ![BreakerTier] = 0]
      BY <3>2, ChainAssumption
    <3> QED
      BY <3>1, <3>2 DEF Init, Fresh, Tripped
  <2>3. aborted = {} /\ \A c \in Call : answer[c] = "pending"
    BY DEF Init, Fresh, Tripped, B!Init, B!NoCallYet
  <2>4. TypeOK
    BY <2>1, <2>2, <2>3 DEF Init, TypeOK, B!TypeOK
  <2>5. Signals /\ TimedReleased /\ CancelledBySignal
    BY <2>3 DEF Init, Signals, TimedReleased, CancelledBySignal
  <2>6. Route /\ ChainExhausted
    BY DEF Init, Route, ChainExhausted, Tried
  <2> QED
    BY <2>4, <2>5, <2>6 DEF IInv
<1>2. IInv /\ [Next]_vars => IInv'
  <2> SUFFICES ASSUME IInv, [Next]_vars PROVE IInv'
    OBVIOUS
  <2>1. ASSUME NEW c \in Call, Continue(c) PROVE IInv'
    BY <2>1, ContinueStep, FallThroughStep DEF Continue
  <2>2. CASE Tick
    <3>1. Waits /\ UNCHANGED <<timeout, signalled, aborted, cancellable, pc, answer>> /\ B!TypeOK'
      BY <2>2 DEF Tick, Waits, B!Tick, B!breaker, B!request, IInv, TypeOK, B!TypeOK
    <3>2. Signals' /\ TimedReleased'
      BY <3>1 DEF IInv, Signals, TimedReleased, timeout, Waits, route, Pending, Tried, Current
    <3> QED
      BY <3>1, <3>2, LoopWaits DEF IInv, TypeOK, timeout
  <2>3. CASE UNCHANGED vars
    <3>1. Waits /\ UNCHANGED <<timeout, signalled, aborted, cancellable, pc, answer>> /\ B!TypeOK'
      BY <2>3 DEF vars, Waits, breaker, IInv, TypeOK, B!TypeOK
    <3>2. Signals' /\ TimedReleased'
      BY <3>1 DEF IInv, Signals, TimedReleased, timeout, Waits, route, Pending, Tried, Current
    <3> QED
      BY <3>1, <3>2, LoopWaits DEF IInv, TypeOK, timeout
  <2> QED
    BY <2>1, <2>2, <2>3, BeginStep, ReenterStep, AbortStep, BreakerStep, TimedStep DEF Next, Idle
<1> QED
  BY <1>1, <1>2, PTL DEF Spec

\* TimedReleased: whatever ends a withTimeout call leaves no timer, no listener
\* and no stoppable oracle behind.
THEOREM Released == Spec => []TimedReleased
<1>1. IInv => TimedReleased
  BY DEF IInv
<1> QED
  BY <1>1, Inductive, PTL

\* CancelledBySignal: only the caller's own signal makes a call report that it
\* was cancelled.
THEOREM CancelledOnlyBySignal == Spec => []CancelledBySignal
<1>1. IInv => CancelledBySignal
  BY DEF IInv
<1> QED
  BY <1>1, Inductive, PTL

\* ChainExhausted: an error means that every tier failed, a score that every
\* tier ranked before the one that answered did.
THEOREM Exhausted == Spec => []ChainExhausted
<1>1. IInv => ChainExhausted
  BY DEF IInv
<1> QED
  BY <1>1, Inductive, PTL

-----------------------------------------------------------------------------
\* No oracle is called in a step in which no tier is tried.
LEMMA NobodyStarts ==
  ASSUME B!InnerCalls' \subseteq B!InnerCalls,
         \A d \in Call : inner'[d] = "running" => inner[d] = "running"
  PROVE  AtWork' \subseteq AtWork
BY DEF AtWork

LEMMA StepStarts ==
  ASSUME IInv, [Next]_vars, NEW w \in AtWork' \ AtWork
  PROVE  w[1] \notin signalled
<1> SUFFICES ASSUME w[1] \in signalled PROVE FALSE
  OBVIOUS
<1>1. ASSUME UNCHANGED <<breaker, timeout>> PROVE FALSE
  <2>1. B!InnerCalls' = B!InnerCalls /\ inner' = inner
    BY <1>1 DEF breaker, timeout, B!InnerCalls, B!LiveProbes
  <2> QED
    BY <2>1, NobodyStarts
<1>2. ASSUME NEW c \in Call, NEW t \in Tier, TryTier(c, t), c \notin signalled PROVE FALSE
  <2>1. AtWork' \subseteq AtWork \cup {<<c, BreakerTier>>, <<c, TimedTier>>}
    BY <1>2, Tries DEF IInv
  <2>2. w = <<c, BreakerTier>> \/ w = <<c, TimedTier>>
    BY <2>1
  <2> QED
    BY <1>2, <2>2
<1>3. ASSUME NEW c \in Call, Begin(c) PROVE FALSE
  <2>1. PICK r \in Rankings(pulls', successes') : TryTier(c, r[1])
    BY <1>3 DEF Begin
  <2>2. r \in Ranking /\ c \notin signalled
    BY <1>3 DEF Begin, Rankings, Ranking
  <2> QED
    BY <1>2, <2>1, <2>2, Orders
<1>4. ASSUME NEW c \in Call, FallThrough(c) PROVE FALSE
  <2>1. CASE c \in signalled
    BY <1>1, <1>4, <2>1 DEF FallThrough, Leaves
  <2>2. CASE c \notin signalled
    <3>1. TryTier(c, order[c][attempt[c] + 1]) /\ Tried(c) /\ ~ Last(c)
      BY <1>4, <2>2 DEF FallThrough, Leaves, Settled
    <3>2. order[c] \in Ranking /\ attempt[c] = 1
      BY <3>1, Awaiting
    <3>3. attempt[c] + 1 = 2 /\ order[c][2] \in Tier
      BY <3>2, Orders
    <3> QED
      BY <1>2, <2>2, <3>1, <3>3
  <2> QED
    BY <2>1, <2>2
<1>5. ASSUME NEW c \in Call, Reenter(c) PROVE FALSE
  <2>1. /\ Pending(c) /\ Tried(c) /\ Current(c) = BreakerTier /\ B!Run(c) /\ inner' = inner
    BY <1>5 DEF Reenter, timeout
  <2>2. /\ pc[c] = "ready" /\ B!InnerCalls' \subseteq B!InnerCalls \cup {c}
        /\ c \in aborted => B!InnerCalls' \subseteq B!InnerCalls
    BY <2>1, BreakerEntered DEF IInv, TypeOK
  <2>3. CASE c \in signalled
    <3>1. c \in aborted
      BY <2>1, <2>2, <2>3 DEF IInv, Signals
    <3> QED
      BY <2>1, <2>2, <3>1, NobodyStarts
  <2>4. CASE c \notin signalled
    <3>1. AtWork' \subseteq AtWork \cup {<<c, BreakerTier>>}
      BY <2>1, <2>2 DEF AtWork
    <3>2. w = <<c, BreakerTier>>
      BY <3>1
    <3> QED
      BY <2>4, <3>2
  <2> QED
    BY <2>3, <2>4
<1>6. ASSUME NEW c \in Call, Abort(c) PROVE FALSE
  <2>1. B!InnerCalls' \subseteq B!InnerCalls
    <3>1. CASE B!Abort(c)
      BY <3>1, BreakerAborted DEF IInv, TypeOK
    <3>2. CASE UNCHANGED breaker
      BY <3>2 DEF breaker, B!InnerCalls, B!LiveProbes
    <3> QED
      BY <1>6, <3>1, <3>2 DEF Abort
  <2>2. \A d \in Call : inner'[d] = "running" => inner[d] = "running"
    <3>1. StopInner(c) \/ inner' = inner
      BY <1>6 DEF Abort, timeout
    <3> QED
      BY <3>1 DEF StopInner, IInv, TypeOK
  <2> QED
    BY <2>1, <2>2, NobodyStarts
<1>7. ASSUME NEW c \in Call, BreakerSettles(c) PROVE FALSE
  <2>1. B!Settle(c) /\ inner' = inner
    BY <1>7 DEF BreakerSettles, timeout
  <2>2. B!InnerCalls' \subseteq B!InnerCalls
    BY <2>1, BreakerSettled DEF IInv, TypeOK
  <2> QED
    BY <2>1, <2>2, NobodyStarts
<1>8. ASSUME NEW c \in Call, TimedSettles(c) PROVE FALSE
  <2>1. B!InnerCalls' = B!InnerCalls
    BY <1>8 DEF TimedSettles, breaker, B!InnerCalls, B!LiveProbes
  <2>2. \A d \in Call : inner'[d] = "running" => inner[d] = "running"
    <3>1. \/ \E how \in {"score", "error"} : inner' = [inner EXCEPT ![c] = how]
          \/ inner' = inner
          \/ StopInner(c)
      BY <1>8 DEF TimedSettles, InnerSettles, InnerReaction, TimerFires
    <3> QED
      BY <3>1 DEF StopInner, IInv, TypeOK
  <2> QED
    BY <2>1, <2>2, NobodyStarts
<1>9. ASSUME Tick PROVE FALSE
  <2>1. B!InnerCalls' = B!InnerCalls /\ inner' = inner
    BY <1>9 DEF Tick, B!Tick, timeout, B!request, B!InnerCalls, B!LiveProbes
  <2> QED
    BY <2>1, NobodyStarts
<1>10. ASSUME NEW c \in Call, BeginCancelled(c) \/ TierAnswers(c) \/ TierCancelled(c) \/ LastTierFails(c)
       PROVE FALSE
  BY <1>1, <1>10 DEF BeginCancelled, TierAnswers, TierCancelled, LastTierFails
<1> QED
  BY <1>1, <1>3, <1>4, <1>5, <1>6, <1>7, <1>8, <1>9, <1>10 DEF Next, Continue, Idle, vars

\* NothingStartedAfterSignal: no tier, no re-entry and no fall-through calls
\* an oracle on behalf of a caller that has aborted.
THEOREM NothingAfterSignal == Spec => NothingStartedAfterSignal
<1>1. IInv /\ [Next]_vars => [\A w \in AtWork' \ AtWork : w[1] \notin signalled]_vars
  BY StepStarts
<1> QED
  BY <1>1, Inductive, PTL DEF Spec, NothingStartedAfterSignal

-----------------------------------------------------------------------------
LEMMA StepTeaches ==
  ASSUME IInv, [Next]_vars, NEW t \in Tier, pulls'[t] > pulls[t]
  PROVE  \E c \in Call : /\ Tried(c) /\ Current(c) = t
                        /\ Verdict(c) \in {"score", "error"}
                        /\ outcome'[c][t] # outcome[c][t]
<1>1. pulls \in [Tier -> Nat]
  BY DEF IInv, TypeOK
<1>2. pulls' # pulls
  BY <1>1
<1>3. ASSUME NEW c \in Call, NEW v \in {"failure", "success"}, Pending(c), Tried(c), Learn(c, v)
      PROVE  Current(c) = t /\ outcome'[c][t] # outcome[c][t]
  <2>1. pulls' = [pulls EXCEPT ![Current(c)] = @ + Pull]
    BY <1>2, <1>3 DEF Learn, beliefs
  <2>2. Current(c) = t
    BY <1>1, <2>1
  <2>3. outcome'[c] = [outcome[c] EXCEPT ![t] = v]
    BY <1>3, <2>2, Learnt
  <2>4. outcome[c] \in [Tier -> {"not-reached", "failure", "success"}]
    BY DEF IInv, TypeOK
  <2>5. order[c] \in Ranking /\ attempt[c] \in {1, 2}
    BY <1>3, Awaiting
  <2>6. attempt[c] \in DOMAIN order[c]
    BY <2>5, Orders
  <2>7. outcome[c][t] = "not-reached"
    BY <1>3, <2>2, <2>5, <2>6 DEF IInv, Route, Current
  <2> QED
    BY <2>2, <2>3, <2>4, <2>7
<1>4. ASSUME NEW c \in Call, Begin(c) PROVE FALSE
  <2>1. pulls'[t] = pulls[t] \div 2
    BY <1>4 DEF Begin, Decayed
  <2>2. pulls[t] \in Nat
    BY <1>1
  <2> QED
    BY <2>1, <2>2
<1>5. ASSUME NEW c \in Call, TierAnswers(c) \/ LastTierFails(c) \/ FallThrough(c)
      PROVE  /\ Tried(c) /\ Current(c) = t
             /\ Verdict(c) \in {"score", "error"}
             /\ outcome'[c][t] # outcome[c][t]
  <2>1. /\ Pending(c) /\ Tried(c) /\ Verdict(c) \in {"score", "error"}
        /\ Learn(c, "success") \/ Learn(c, "failure")
    BY <1>5 DEF TierAnswers, LastTierFails, FallThrough, Settled
  <2> QED
    BY <1>3, <2>1
<1>6. \/ UNCHANGED pulls
      \/ \E c \in Call : Begin(c)
      \/ \E c \in Call : TierAnswers(c) \/ LastTierFails(c) \/ FallThrough(c)
  BY DEF Next, Continue, BeginCancelled, TierCancelled, BlameNobody, Reenter, Abort, BreakerSettles,
         TimedSettles, Tick, Idle, vars, beliefs
<1> QED
  BY <1>2, <1>4, <1>5, <1>6

\* CancellationTeachesNothing: a belief about a tier grows only by an attempt
\* at that tier which was answered or failed, and by each of those once.
THEOREM OnlyOutcomesTeach == Spec => CancellationTeachesNothing
<1>1. IInv /\ [Next]_vars =>
        [\A t \in Tier : pulls'[t] > pulls[t] =>
           \E c \in Call : /\ Tried(c) /\ Current(c) = t
                           /\ Verdict(c) \in {"score", "error"}
                           /\ outcome'[c][t] # outcome[c][t]]_vars
  BY StepTeaches
<1> QED
  BY <1>1, Inductive, PTL DEF Spec, CancellationTeachesNothing

-----------------------------------------------------------------------------
(* The breaker keeps its own promises inside the chain.                    *)

\* Whatever the chain does, the breaker makes a step of its own or none: its
\* callers are the attempts of the chain, and nothing else touches its state.
THEOREM BreakerInChain == Spec => [][B!Next]_(B!vars)
<1>1. [Next]_vars => [B!Next]_(B!vars)
  <2> SUFFICES ASSUME [Next]_vars PROVE B!Next \/ UNCHANGED breaker
    BY DEF breaker, B!vars, B!breaker, B!request
  <2>1. ASSUME NEW c \in Call, NEW t \in Tier, TryTier(c, t) PROVE B!Run(c) \/ UNCHANGED breaker
    BY <2>1 DEF TryTier
  <2>2. ASSUME NEW c \in Call, Begin(c) PROVE B!Run(c) \/ UNCHANGED breaker
    <3>1. PICK r \in Rankings(pulls', successes') : TryTier(c, r[1])
      BY <2>2 DEF Begin
    <3>2. r[1] \in Tier
      BY <3>1 DEF Rankings, Tier
    <3> QED
      BY <2>1, <3>1, <3>2
  <2>3. ASSUME NEW c \in Call, FallThrough(c) PROVE B!Run(c) \/ UNCHANGED breaker
    BY <2>3 DEF FallThrough, TryTier
  <2>4. ASSUME NEW c \in Call, Continue(c) PROVE B!Run(c) \/ UNCHANGED breaker
    BY <2>3, <2>4 DEF Continue, BeginCancelled, TierAnswers, TierCancelled, LastTierFails
  <2>5. ASSUME NEW c \in Call, Reenter(c) \/ BreakerSettles(c) PROVE B!Run(c) \/ B!Settle(c)
    BY <2>5 DEF Reenter, BreakerSettles
  <2>6. ASSUME NEW c \in Call, Abort(c) PROVE B!Abort(c) \/ UNCHANGED breaker
    BY <2>6 DEF Abort
  <2>7. ASSUME NEW c \in Call, TimedSettles(c) PROVE UNCHANGED breaker
    BY <2>7 DEF TimedSettles
  <2>8. CASE Tick
    BY <2>8 DEF Tick, B!Next
  <2>9. CASE UNCHANGED vars
    BY <2>9 DEF vars
  <2> QED
    BY <2>2, <2>4, <2>5, <2>6, <2>7, <2>8, <2>9 DEF Next, Idle, B!Next
<1> QED
  BY <1>1, PTL DEF Spec

\* What the breaker's own proofs establish from its initial state, established
\* again from a state that the chain may start in: one with a tripped breaker.
BreakerSound ==
  /\ B!ProbeSlotHeld
  /\ B!NoMissedWakeUp
  /\ B!ClosedBelowThreshold
  /\ \A c \in Call : pc[c] \in {"ready", "wait"} => probe[c] = "none"

LEMMA BreakerKept ==
  ASSUME B!TypeOK, BreakerSound, [B!Next]_(B!vars)
  PROVE  BreakerSound'
<1> USE ChainAssumption
    DEF BreakerSound, B!ProbeSlotHeld, B!NoMissedWakeUp, B!ClosedBelowThreshold, B!TypeOK, B!LiveProbes,
        B!breaker, B!request, B!Enter, B!Finish, B!Trips
<1>1. ASSUME NEW c \in Call, B!EnterAborted(c) \/ B!FailFast(c) \/ B!CallInner(c) PROVE BreakerSound'
  BY <1>1 DEF B!EnterAborted, B!FailFast, B!CallInner, B!HandleFallback
<1>2. ASSUME NEW c \in Call, B!ClaimProbe(c) PROVE BreakerSound'
  BY <1>2 DEF B!ClaimProbe, B!MayClaim
<1>3. ASSUME NEW c \in Call, NEW o \in {"infra", "logical"}, B!ClaimProbeThrows(c, o)
      PROVE  BreakerSound'
  <2>1. B!ProbeSlotHeld' /\ B!ClosedBelowThreshold'
    BY <1>3 DEF B!ClaimProbeThrows, B!RecordFailure, B!Reset
  <2>2. /\ pc[c] = "ready" /\ pc' = [pc EXCEPT ![c] = "done"] /\ awaits' = awaits
        /\ probe' = [probe EXCEPT ![c] = "settled"]
    BY <1>3 DEF B!ClaimProbeThrows
  <2> QED
    BY <2>1, <2>2
<1>4. ASSUME NEW c \in Call, B!AwaitProbe(c) PROVE BreakerSound'
  BY <1>4 DEF B!AwaitProbe
<1>5. ASSUME NEW c \in Call, NEW o \in B!Outcome, B!InnerSettles(c, o) PROVE BreakerSound'
  <2>1. B!ProbeSlotHeld' /\ B!ClosedBelowThreshold'
    BY <1>5 DEF B!InnerSettles, B!RecordFailure
  <2>2. pc' = [pc EXCEPT ![c] = "done"] /\ awaits' = awaits /\ probe' = probe
    BY <1>5 DEF B!InnerSettles, B!HandleFallback
  <2> QED
    BY <2>1, <2>2
<1>6. ASSUME NEW c \in Call, NEW a, B!SettleProbe(c, a), probe[c] \in {"inner", "fallback"}
      PROVE  /\ B!NoMissedWakeUp'
             /\ \A d \in Call : pc'[d] \in {"ready", "wait"} => probe'[d] = "none"
  BY <1>6 DEF B!SettleProbe, B!Woken, B!WaitingFor
<1>7. ASSUME NEW c \in Call, NEW o \in B!Outcome, B!ProbeSettles(c, o) PROVE BreakerSound'
  <2>1. B!ProbeSlotHeld' /\ B!ClosedBelowThreshold'
    BY <1>7 DEF B!ProbeSettles, B!RecordFailure, B!Reset
  <2>2. B!SettleProbe(c, IF o = "score" THEN dest[c] ELSE "error") /\ probe[c] = "inner"
    BY <1>7 DEF B!ProbeSettles
  <2> QED
    BY <1>6, <2>1, <2>2
<1>8. ASSUME NEW c \in Call, NEW a \in {"fallback", "error"},
             B!ProbeFallbackSettles(c, a) \/ B!FallbackSettles(c, a)
      PROVE  BreakerSound'
  <2>1. CASE B!FallbackSettles(c, a)
    BY <2>1 DEF B!FallbackSettles
  <2>2. CASE B!ProbeFallbackSettles(c, a)
    <3>1. B!SettleProbe(c, a) /\ probe[c] = "fallback" /\ UNCHANGED B!breaker
      BY <2>2 DEF B!ProbeFallbackSettles
    <3>2. B!ProbeSlotHeld' /\ B!ClosedBelowThreshold'
      BY <3>1 DEF B!SettleProbe
    <3> QED
      BY <1>6, <3>1, <3>2
  <2> QED
    BY <1>8, <2>1, <2>2
<1>9. ASSUME NEW c \in Call, B!Abort(c) PROVE BreakerSound'
  BY <1>9 DEF B!Abort, B!Detach, B!Abortable
<1>10. CASE B!Tick \/ UNCHANGED B!vars
  BY <1>10 DEF B!Tick, B!vars
<1> QED
  BY <1>1, <1>2, <1>3, <1>4, <1>5, <1>7, <1>8, <1>9, <1>10 DEF B!Next, B!Run, B!Settle, B!Idle

\* A call of the chain whose attempt waits for another call's probe waits for
\* one that has yet to settle, and the breaker it finds HALF_OPEN holds one
\* that runs: that the callers go on to other tiers, time out there or abort
\* changes nothing in what the breaker promises them.
THEOREM BreakerKeepsPromises == Spec => [](B!ProbeSlotHeld /\ B!NoMissedWakeUp)
<1>1. Init => BreakerSound
  BY ChainAssumption DEF Init, Fresh, Tripped, B!Init, B!NoCallYet, BreakerSound, B!ProbeSlotHeld,
     B!NoMissedWakeUp, B!ClosedBelowThreshold
<1>2. IInv => B!TypeOK
  BY DEF IInv, TypeOK
<1>3. BreakerSound => B!ProbeSlotHeld /\ B!NoMissedWakeUp
  BY DEF BreakerSound
<1>4. B!TypeOK /\ BreakerSound /\ [B!Next]_(B!vars) => BreakerSound'
  BY BreakerKept
<1>5. Spec => []BreakerSound
  BY <1>1, <1>2, <1>4, Inductive, BreakerInChain, PTL DEF Spec
<1> QED
  BY <1>3, <1>5, PTL

\* No attempt of the chain gets to the oracle of a breaker that is cooling
\* down: neither a call that falls through to it, nor one that re-enters.
THEOREM BreakerSparesInChain == Spec => B!OracleSparedWhileOpen
<1>1. IInv /\ [B!Next]_(B!vars) =>
        [state = "OPEN" /\ now < nextAttempt => B!InnerCalls' \subseteq B!InnerCalls]_(B!vars)
  <2> SUFFICES ASSUME B!TypeOK, B!Next, state = "OPEN", now < nextAttempt
               PROVE  B!InnerCalls' \subseteq B!InnerCalls
    BY DEF IInv, TypeOK
  <2>1. ASSUME NEW c \in Call, B!Run(c) PROVE B!InnerCalls' \subseteq B!InnerCalls
    <3>1. ~ (now >= nextAttempt)
      BY DEF B!TypeOK
    <3>2. B!EnterAborted(c) \/ B!FailFast(c)
      BY <2>1, <3>1 DEF B!Run, B!ClaimProbe, B!ClaimProbeThrows, B!MayClaim, B!AwaitProbe, B!CallInner, B!Passes
    <3> QED
      BY <3>2 DEF B!EnterAborted, B!FailFast, B!HandleFallback, B!Finish, B!InnerCalls, B!LiveProbes, B!TypeOK
  <2>2. CASE B!Tick \/ B!Idle
    BY <2>2 DEF B!Tick, B!Idle, B!vars, B!breaker, B!request, B!InnerCalls, B!LiveProbes
  <2> QED
    BY <2>1, <2>2, BreakerSettled, BreakerAborted DEF B!Next
<1> QED
  BY <1>1, Inductive, BreakerInChain, PTL DEF Spec, B!OracleSparedWhileOpen

=============================================================================
