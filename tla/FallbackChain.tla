----------------------------- MODULE FallbackChain -----------------------------
(***************************************************************************)
(* FallbackOracle (src/src/FallbackOracle.ts) over a chain of two tiers: a *)
(* CircuitBreakerOracle, which is the module CircuitBreaker, and           *)
(* withTimeout (src/src/middleware/withTimeout.ts) around some oracle.     *)
(* Calls are concurrent; a step is one synchronous turn or one microtask   *)
(* at which a caller's abort can still make a difference.                  *)
(*                                                                         *)
(* A call c tries each tier at most once: the breaker knows its attempt as *)
(* the call c, and c indexes the state of its withTimeout attempt too.     *)
(***************************************************************************)
EXTENDS Naturals, Sequences, FiniteSets

CONSTANTS
  Call,         \* the getScore / getScoreCancellable calls
  None,         \* JavaScript null
  BreakerTier,  \* the index of the breaker in the chain: 1 or 2
  Stoppable,    \* is the oracle inside withTimeout a CancellableRiskOracle?
  Pull,         \* the weight of an observation: halved by every later call, so
                \* that multiples of 2 ^ (the number of calls - 1) stay exact
  Threshold, Cooldown, MaxTime    \* of the breaker

Tier      == {1, 2}
TimedTier == 3 - BreakerTier

ASSUME ChainAssumption ==
  /\ BreakerTier \in Tier
  /\ Stoppable \in BOOLEAN
  /\ Pull \in Nat \ {0}
  /\ Threshold \in Nat \ {0} /\ Cooldown \in Nat /\ MaxTime \in Nat

VARIABLES
  state, failures, nextAttempt, halfOpenProbe, now, dest, cancellable,
  aborted, pc, awaits, probe, answer, preempted      \* of CircuitBreaker

VARIABLES
  pulls, successes,  \* this.beliefs: discounted pulls and successes of a tier
  order,             \* decisions, as the sequence of ranked tiers; <<>> before
  attempt,           \* how far the loop over the decisions has come
  learns,            \* learnsFromThisAttempt
  outcome,           \* decision.outcome of each tier
  signalled,         \* the calls whose signal has been aborted
  result,            \* how the call returned: with that tier's score, or not
  inner,             \* how the promise of the oracle in withTimeout stands
  armed,             \* the withTimeout calls whose timer is set
  listening,         \* those with an abort listener on the caller's signal
  timed              \* how the promise returned by withTimeout stands

Destination == "destination"

B == INSTANCE CircuitBreaker
       WITH Dest <- {Destination}, Fallback <- "none", SyncThrow <- TRUE

breaker == <<state, failures, nextAttempt, halfOpenProbe, now, dest,
             cancellable, aborted, pc, awaits, probe, answer, preempted>>
beliefs == <<pulls, successes>>
timeout == <<inner, armed, listening, timed>>
route   == <<order, attempt, learns, outcome, result>>
vars    == <<breaker, beliefs, timeout, route, signalled>>

TypeOK ==
  /\ B!TypeOK
  /\ pulls \in [Tier -> Nat]
  /\ successes \in [Tier -> Nat]
  /\ \A t \in Tier : successes[t] <= pulls[t]
  /\ order \in [Call -> {<<>>, <<1, 2>>, <<2, 1>>}]
  /\ attempt \in [Call -> Nat] /\ \A c \in Call : attempt[c] <= Len(order[c])
  /\ learns \in [Call -> BOOLEAN]
  /\ outcome \in [Call -> [Tier -> {"not-reached", "failure", "success"}]]
  /\ aborted \subseteq signalled /\ signalled \subseteq cancellable
  /\ result \in [Call -> {"pending", "score", "error", "cancelled"}]
  /\ inner \in [Call -> {"none", "running", "score", "error", "cancelled"}]
  /\ armed \subseteq Call /\ listening \subseteq cancellable
  /\ timed \in [Call -> {"none", "score", "error", "timeout", "cancelled"}]

\* Tiers nobody has tried, or, if one failure trips the breaker, the state a
\* first call leaves that the breaker failed and the other tier answered.
Fresh == B!Init /\ pulls = [t \in Tier |-> 0] /\ successes = pulls
Tripped ==
  /\ Threshold = 1
  /\ B!NoCallYet
  /\ state = "OPEN" /\ failures = 1 /\ nextAttempt = Cooldown
  /\ halfOpenProbe = None /\ preempted = 0
  /\ pulls = [t \in Tier |-> Pull]
  /\ successes = [pulls EXCEPT ![BreakerTier] = 0]

Init ==
  /\ Fresh \/ Tripped
  /\ order = [c \in Call |-> <<>>]
  /\ attempt = [c \in Call |-> 0]
  /\ learns = [c \in Call |-> FALSE]
  /\ outcome = [c \in Call |-> [t \in Tier |-> "not-reached"]]
  /\ signalled = {}
  /\ result = [c \in Call |-> "pending"]
  /\ inner = [c \in Call |-> "none"]
  /\ armed = {}
  /\ listening = {}
  /\ timed = [c \in Call |-> "none"]

-----------------------------------------------------------------------------
(* withTimeout around the other tier's oracle.                             *)

\* Every call has a timer of its own.  Mutant: one handle for the middleware.
OneTimer(c) == {c}
OwnTimer(c) == armed \cup {c}

StartTimed(c) ==
  /\ inner' = [inner EXCEPT ![c] = "running"]
  /\ armed' = OwnTimer(c)
  /\ listening' = IF c \in cancellable THEN listening \cup {c} ELSE listening
  /\ UNCHANGED timed

\* finish: the first to settle the promise releases the timer and listener.
Settle(c, how) ==
  /\ timed[c] = "none"
  /\ timed' = [timed EXCEPT ![c] = how]
  /\ armed' = armed \ {c}
  /\ listening' = listening \ {c}

\* controller.abort(): an inner that can be stopped rejects; a mutant forgets.
LeaveRunning(c) == UNCHANGED inner
StopInner(c) ==
  inner' = IF Stoppable /\ inner[c] = "running"
             THEN [inner EXCEPT ![c] = "cancelled"] ELSE inner

InnerSettles(c, how) ==
  /\ inner[c] = "running"
  /\ inner' = [inner EXCEPT ![c] = how]
  /\ UNCHANGED <<armed, listening, timed>>

\* The reaction to the inner promise, a microtask after it settled.
InnerReaction(c) ==
  /\ inner[c] \notin {"none", "running"}
  /\ Settle(c, inner[c])
  /\ UNCHANGED inner

\* What the caller is told when the timer fires: the timeout, because it is
\* rejected with before the inner is aborted.  Mutant: abort first.
OutcomeIfAbortedFirst == IF Stoppable THEN "cancelled" ELSE "timeout"
TimerOutcome          == "timeout"

\* A timer is a turn of its own: reactions to a settled inner come before it.
TimerFires(c) ==
  /\ c \in armed
  /\ inner[c] = "running"
  /\ Settle(c, TimerOutcome)
  /\ StopInner(c)

-----------------------------------------------------------------------------
(* Ranking the tiers.                                                      *)

\* One round of decay.  The discount factor is one half, and beliefs are kept
\* in units of MIN_DISCOUNTED_PULLS: one of less than a unit is none.
Decayed(belief) == [t \in Tier |-> belief[t] \div 2]

\* Tier u cannot be ranked behind t, whatever the exploration factor: it is
\* unexplored, or its success rate is no worse and its exploration bonus no
\* smaller.  The sort is stable: ties go to the one earlier in the chain.
Outranks(u, t, n, s) ==
  IF n[u] = 0 \/ n[t] = 0
    THEN n[u] = 0 /\ (n[t] # 0 \/ u < t)
    ELSE /\ s[u] * n[t] >= s[t] * n[u]
         /\ n[u] <= n[t]
         /\ s[u] * n[t] # s[t] * n[u] \/ n[u] # n[t] \/ u < t

Rankings(n, s) ==
  {r \in {<<1, 2>>, <<2, 1>>} : ~ Outranks(r[2], r[1], n, s)}

-----------------------------------------------------------------------------
(* route and routeCancellable.                                             *)

Pending(c)  == result[c] = "pending"
Tried(c)    == attempt[c] > 0
Current(c)  == order[c][attempt[c]]
LastButOne(c) == attempt[c] >= Len(order[c]) - 1   \* mutant
Last(c)     == attempt[c] = Len(order[c])

\* How the attempt a call is awaiting has ended.
Verdict(c) ==
  IF Current(c) = TimedTier
    THEN IF timed[c] = "timeout" THEN "error" ELSE timed[c]
    ELSE IF answer[c] = Destination THEN "score"
         ELSE IF answer[c] = "pending" THEN "none" ELSE answer[c]

Settled(c) == Pending(c) /\ Tried(c) /\ Verdict(c) # "none"

\* The call on a tier, up to its first await.
TryTier(c, t) ==
  /\ learns' = [learns EXCEPT ![c] = t = TimedTier \/ state # "OPEN"]
  /\ IF t = BreakerTier
       THEN B!Run(c) /\ UNCHANGED timeout
       ELSE StartTimed(c) /\ UNCHANGED breaker

Learn(c, verdict) ==
  LET t == Current(c) IN
  /\ outcome' = [outcome EXCEPT ![c][t] = verdict]
  /\ IF learns[c]
       THEN /\ pulls' = [pulls EXCEPT ![t] = @ + Pull]
            /\ successes' = IF verdict = "success"
                              THEN [successes EXCEPT ![t] = @ + Pull] ELSE successes
       ELSE UNCHANGED beliefs

Return(c, r) == result' = [result EXCEPT ![c] = r]

Begin(c) ==
  /\ Pending(c) /\ ~ Tried(c)
  /\ c \notin signalled
  /\ pulls' = Decayed(pulls)
  /\ successes' = Decayed(successes)
  /\ \E r \in Rankings(pulls', successes') :
       /\ order' = [order EXCEPT ![c] = r]
       /\ TryTier(c, r[1])
  /\ attempt' = [attempt EXCEPT ![c] = 1]
  /\ UNCHANGED <<outcome, result, signalled>>

BeginCancelled(c) ==
  /\ Pending(c) /\ ~ Tried(c)
  /\ c \in signalled
  /\ Return(c, "cancelled")
  /\ UNCHANGED <<breaker, beliefs, timeout, order, attempt, learns, outcome, signalled>>

TierAnswers(c) ==
  /\ Settled(c) /\ Verdict(c) = "score"
  /\ Learn(c, "success")
  /\ Return(c, "score")
  /\ UNCHANGED <<breaker, timeout, order, attempt, learns, signalled>>

\* An OracleCancelledError aborts the chain and teaches nothing; a mutant
\* takes it for a failure of the tier before it does so.
BlameTier(c)  == Learn(c, "failure")
BlameNobody(c) == UNCHANGED <<beliefs, outcome>>

TierCancelled(c) ==
  /\ Settled(c) /\ Verdict(c) = "cancelled"
  /\ BlameNobody(c)
  /\ Return(c, "cancelled")
  /\ UNCHANGED <<breaker, timeout, order, attempt, learns, signalled>>

LastTierFails(c) ==
  /\ Settled(c) /\ Verdict(c) = "error" /\ Last(c)
  /\ Learn(c, "failure")
  /\ Return(c, "error")
  /\ UNCHANGED <<breaker, timeout, order, attempt, learns, signalled>>

\* The check at the head of the loop.  Mutant: only checked on entry.
NeverLeaves(c) == FALSE
Leaves(c)      == c \in signalled

FallThrough(c) ==
  /\ Settled(c) /\ Verdict(c) = "error" /\ ~ Last(c)
  /\ Learn(c, "failure")
  /\ IF Leaves(c)
       THEN /\ Return(c, "cancelled")
            /\ UNCHANGED <<breaker, timeout, attempt, learns>>
       ELSE /\ attempt' = [attempt EXCEPT ![c] = @ + 1]
            /\ TryTier(c, order[c][attempt[c] + 1])
            /\ UNCHANGED result
  /\ UNCHANGED <<order, signalled>>

Continue(c) ==
  BeginCancelled(c) \/ TierAnswers(c) \/ TierCancelled(c) \/ LastTierFails(c) \/ FallThrough(c)

\* A call whose attempt awaited another call's probe goes back into getScore.
Reenter(c) ==
  /\ Pending(c) /\ Tried(c) /\ Current(c) = BreakerTier
  /\ B!Run(c)
  /\ UNCHANGED <<beliefs, timeout, route, signalled>>

\* The caller aborts its signal: whichever tier it waits for hears of it.
Abort(c) ==
  /\ Pending(c) /\ c \in cancellable \ signalled
  /\ signalled' = signalled \cup {c}
  /\ IF Tried(c) /\ Current(c) = BreakerTier /\ pc[c] # "done"
       THEN B!Abort(c) /\ UNCHANGED timeout
     ELSE IF c \in listening
       THEN Settle(c, "cancelled") /\ StopInner(c) /\ UNCHANGED breaker
     ELSE UNCHANGED <<breaker, timeout>>
  /\ UNCHANGED <<beliefs, route>>

BreakerSettles(c) == B!Settle(c) /\ UNCHANGED <<beliefs, timeout, route, signalled>>

TimedSettles(c) ==
  /\ \/ \E how \in {"score", "error"} : InnerSettles(c, how)
     \/ InnerReaction(c)
     \/ TimerFires(c)
  /\ UNCHANGED <<breaker, beliefs, route, signalled>>

Tick == B!Tick /\ UNCHANGED <<beliefs, timeout, route, signalled>>

\* Every call has returned, and no oracle still runs on behalf of one.
Idle ==
  /\ \A c \in Call : ~ Pending(c) /\ inner[c] # "running" /\ probe[c] # "inner"
  /\ UNCHANGED vars

Next ==
  \/ \E c \in Call : Begin(c) \/ Continue(c) \/ Reenter(c) \/ Abort(c)
                     \/ BreakerSettles(c) \/ TimedSettles(c)
  \/ Tick
  \/ Idle

Spec == Init /\ [][Next]_vars

\* The event loop runs what is runnable, timers fire, and the oracle behind
\* the breaker answers.  The one behind withTimeout need never answer, nobody
\* has to call or abort, and the breaker's clock may stand still.
FairSpec ==
  /\ Spec
  /\ \A c \in Call :
       /\ WF_vars(Continue(c))
       /\ WF_vars(Reenter(c))
       /\ WF_vars(BreakerSettles(c))
       /\ WF_vars((InnerReaction(c) \/ TimerFires(c)) /\ UNCHANGED <<breaker, beliefs, route, signalled>>)

-----------------------------------------------------------------------------
(* Properties                                                              *)

\* A call is told it was cancelled only if its own caller cancelled it: not
\* because a timeout stopped the inner oracle (withTimeout.ts:63), nor because
\* another caller left the probe it was waiting for.
CancelledBySignal == \A c \in Call : result[c] = "cancelled" => c \in signalled

\* A call fails only after every tier has failed it, and is answered by the
\* first one in its ranking that did not, however timeouts, probes and the
\* beliefs changed by other calls came in between.
ChainExhausted ==
  \A c \in Call :
    /\ result[c] = "error" => \A t \in Tier : outcome[c][t] = "failure"
    /\ result[c] = "score" =>
         \A i \in DOMAIN order[c] :
           outcome[c][order[c][i]] = IF i < attempt[c] THEN "failure"
                                     ELSE IF i = attempt[c] THEN "success"
                                     ELSE "not-reached"

\* The oracles that are at work, and for whom.
AtWork ==
  {<<c, BreakerTier>> : c \in B!InnerCalls} \cup {<<c, TimedTier>> : c \in {d \in Call : inner[d] = "running"}}

\* From the moment a caller aborts, no oracle is called for it any more: not
\* by the tier it waits for, not by a re-entry after another call's probe, and
\* not by the next tier.
NothingStartedAfterSignal ==
  [][\A w \in AtWork' \ AtWork : w[1] \notin signalled]_vars

\* Evidence about a tier is gained only from an attempt that ended of itself:
\* never from a call that is being cancelled in that step.
CancellationTeachesNothing ==
  [][\A t \in Tier : pulls'[t] > pulls[t] =>
       \E c \in Call : /\ Tried(c) /\ Current(c) = t
                       /\ Verdict(c) \in {"score", "error"}
                       /\ outcome'[c][t] # outcome[c][t]]_vars

\* Whatever ends a withTimeout call, answer, timer or signal, releases the
\* other two, and stops an oracle that can be stopped.
TimedReleased ==
  \A c \in Call : timed[c] # "none" =>
    /\ c \notin armed \cup listening
    /\ Stoppable => inner[c] # "running"

\* Every call that is made returns, though the oracle behind withTimeout may
\* stay silent, others cancel and probes are waited for.
EveryCallReturns == \A c \in Call : Tried(c) ~> ~ Pending(c)

=============================================================================
