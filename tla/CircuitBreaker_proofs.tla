------------------------- MODULE CircuitBreaker_proofs -------------------------
(***************************************************************************)
(* Invariance proofs for CircuitBreaker, for every set of calls, threshold,*)
(* cooldown, fallback and clock bound.                                     *)
(***************************************************************************)
EXTENDS CircuitBreaker, FiniteSetTheorems, TLAPS

USE DEF Answer, Failure, Outcome, CircuitBreakerState, Trips, CooldownEnd, WaitingFor, Woken, MayClaim,
        Passes, Detach, Abortable

\* The variables of CircuitBreaker keep their types.
LEMMA TypeCorrect == Spec => []TypeOK
<1>1. Init => TypeOK
  BY ConfigAssumption DEF Init, NoCallYet, TypeOK
<1>2. TypeOK /\ [Next]_vars => TypeOK'
  <2> SUFFICES ASSUME TypeOK, [Next]_vars PROVE TypeOK'
    OBVIOUS
  <2> USE ConfigAssumption DEF TypeOK, breaker, request
  <2>1. ASSUME NEW c \in Call, EnterAborted(c) PROVE TypeOK'
    BY <2>1 DEF EnterAborted, Finish
  <2>2. ASSUME NEW c \in Call, FailFast(c) PROVE TypeOK'
    BY <2>2 DEF FailFast, HandleFallback, Finish
  <2>3. ASSUME NEW c \in Call, ClaimProbe(c) PROVE TypeOK'
    BY <2>3 DEF ClaimProbe
  <2>4. ASSUME NEW c \in Call, NEW o \in {"infra", "logical"}, ClaimProbeThrows(c, o)
        PROVE  TypeOK'
    BY <2>4 DEF ClaimProbeThrows, RecordFailure, Reset, Finish
  <2>5. ASSUME NEW c \in Call, AwaitProbe(c) PROVE TypeOK'
    BY <2>5 DEF AwaitProbe
  <2>6. ASSUME NEW c \in Call, CallInner(c) PROVE TypeOK'
    BY <2>6 DEF CallInner
  <2>7. ASSUME NEW c \in Call, NEW o \in Outcome, InnerSettles(c, o) PROVE TypeOK'
    BY <2>7 DEF InnerSettles, RecordFailure, HandleFallback, Finish
  <2>8. ASSUME NEW c \in Call, NEW o \in Outcome, ProbeSettles(c, o) PROVE TypeOK'
    BY <2>8 DEF ProbeSettles, RecordFailure, Reset, SettleProbe
  <2>9. ASSUME NEW c \in Call, NEW a \in {"fallback", "error"}, ProbeFallbackSettles(c, a)
        PROVE  TypeOK'
    BY <2>9 DEF ProbeFallbackSettles, SettleProbe
  <2>10. ASSUME NEW c \in Call, NEW a \in {"fallback", "error"}, FallbackSettles(c, a)
         PROVE  TypeOK'
    BY <2>10 DEF FallbackSettles, Finish
  <2>11. ASSUME NEW c \in Call, Abort(c) PROVE TypeOK'
    BY <2>11 DEF Abort, Finish
  <2>12. CASE Tick
    BY <2>12 DEF Tick
  <2>13. CASE UNCHANGED vars
    BY <2>13 DEF vars
  <2>14. QED
    BY <2>1, <2>2, <2>3, <2>4, <2>5, <2>6, <2>7, <2>8, <2>9, <2>10, <2>11, <2>12, <2>13
    DEF Next, Run, Settle, Idle
<1>3. QED
  BY <1>1, <1>2, PTL DEF Spec

-----------------------------------------------------------------------------
\* A call that may still claim the slot has no probe yet: a second launch would
\* settle, for whoever awaits the first, the wrong promise.
NoProbeYet == \A c \in Call : pc[c] \in {"ready", "wait"} => probe[c] = "none"

\* The inductive invariant behind the single-flight argument: NoMissedWakeUp
\* needs ProbeSlotHeld for the call that starts to wait, and NoProbeYet for
\* the one that launches a probe.
IInv == ProbeSlotHeld /\ NoMissedWakeUp /\ ClosedBelowThreshold /\ NoProbeYet

\* A HALF_OPEN breaker holds a running probe, every waiter awaits an unsettled
\* probe, and a CLOSED breaker is below its threshold.
THEOREM SlotSafe == Spec => []IInv
<1>1. Init => IInv
  BY ConfigAssumption DEF Init, NoCallYet, IInv, ProbeSlotHeld, NoMissedWakeUp, ClosedBelowThreshold,
          NoProbeYet
<1>2. TypeOK /\ IInv /\ [Next]_vars => IInv'
  <2> SUFFICES ASSUME TypeOK, IInv, [Next]_vars PROVE IInv'
    OBVIOUS
  <2> USE ConfigAssumption
      DEF TypeOK, IInv, ProbeSlotHeld, NoMissedWakeUp, ClosedBelowThreshold, NoProbeYet,
          LiveProbes,          breaker, request
  <2>1. ASSUME NEW c \in Call, EnterAborted(c) PROVE IInv'
    BY <2>1 DEF EnterAborted, Finish
  <2>2. ASSUME NEW c \in Call, FailFast(c) PROVE IInv'
    BY <2>2 DEF FailFast, HandleFallback, Finish
  <2>3. ASSUME NEW c \in Call, ClaimProbe(c) PROVE IInv'
    BY <2>3 DEF ClaimProbe, Enter
  <2>4. ASSUME NEW c \in Call, NEW o \in {"infra", "logical"}, ClaimProbeThrows(c, o)
        PROVE  IInv'
    <3>1. ProbeSlotHeld' /\ ClosedBelowThreshold'
      BY <2>4 DEF ClaimProbeThrows, RecordFailure, Reset
    <3>2. NoMissedWakeUp' /\ NoProbeYet'
      BY <2>4 DEF ClaimProbeThrows, Enter, Finish
    <3>3. QED
      BY <3>1, <3>2
  <2>5. ASSUME NEW c \in Call, AwaitProbe(c) PROVE IInv'
    BY <2>5 DEF AwaitProbe, Enter
  <2>6. ASSUME NEW c \in Call, CallInner(c) PROVE IInv'
    BY <2>6 DEF CallInner
  <2>7. ASSUME NEW c \in Call, NEW o \in Outcome, InnerSettles(c, o) PROVE IInv'
    <3>1. ProbeSlotHeld'
      BY <2>7 DEF InnerSettles, RecordFailure
    <3>2. NoMissedWakeUp' /\ NoProbeYet'
      BY <2>7 DEF InnerSettles, HandleFallback, Finish
    <3>3. ClosedBelowThreshold'
      BY <2>7 DEF InnerSettles, RecordFailure
    <3>4. QED
      BY <3>1, <3>2, <3>3
  <2>8. ASSUME NEW c \in Call, NEW o \in Outcome, ProbeSettles(c, o) PROVE IInv'
    <3>1. ProbeSlotHeld' /\ ClosedBelowThreshold'
      BY <2>8 DEF ProbeSettles, RecordFailure, Reset
    <3>2. NoMissedWakeUp' /\ NoProbeYet'
      BY <2>8 DEF ProbeSettles, SettleProbe
    <3>3. QED
      BY <3>1, <3>2
  <2>9. ASSUME NEW c \in Call, NEW a \in {"fallback", "error"}, ProbeFallbackSettles(c, a)
        PROVE  IInv'
    BY <2>9 DEF ProbeFallbackSettles, SettleProbe
  <2>10. ASSUME NEW c \in Call, NEW a \in {"fallback", "error"}, FallbackSettles(c, a)
         PROVE  IInv'
    BY <2>10 DEF FallbackSettles, Finish
  <2>11. ASSUME NEW c \in Call, Abort(c) PROVE IInv'
    BY <2>11 DEF Abort, Finish
  <2>12. CASE Tick
    BY <2>12 DEF Tick
  <2>13. CASE UNCHANGED vars
    BY <2>13 DEF vars
  <2>14. QED
    BY <2>1, <2>2, <2>3, <2>4, <2>5, <2>6, <2>7, <2>8, <2>9, <2>10, <2>11, <2>12, <2>13
    DEF Next, Run, Settle, Idle
<1>3. QED
  BY <1>1, <1>2, TypeCorrect, PTL DEF Spec

\* The two parts of it that a caller sees: halfOpenProbe is there when the code
\* dereferences it, and ...
THEOREM ProbeHeld == Spec => []ProbeSlotHeld
<1>1. IInv => ProbeSlotHeld
  BY DEF IInv
<1> QED
  BY <1>1, SlotSafe, PTL

\* ... nobody waits for a probe that has already settled.
THEOREM NoLostWakeUp == Spec => []NoMissedWakeUp
<1>1. IInv => NoMissedWakeUp
  BY DEF IInv
<1> QED
  BY <1>1, SlotSafe, PTL

\* INV-CB-4, which is inductive as it stands.
THEOREM AnswersSafe == Spec => []ScoreForOwnDestination
<1> DEFINE Inv == ScoreForOwnDestination
<1>1. Init => Inv
  BY DestAssumption DEF Init, NoCallYet, ScoreForOwnDestination
<1>2. TypeOK /\ Inv /\ [Next]_vars => Inv'
  <2> SUFFICES ASSUME TypeOK, Inv, [Next]_vars PROVE Inv'
    OBVIOUS
  <2> USE ConfigAssumption, DestAssumption
      DEF TypeOK, ScoreForOwnDestination, breaker, request
  <2>1. ASSUME NEW c \in Call, Run(c) PROVE Inv'
    <3>1. ASSUME NEW o \in {"infra", "logical"}, ClaimProbeThrows(c, o) PROVE Inv'
      BY <3>1 DEF ClaimProbeThrows, RecordFailure, Reset, Finish
    <3>2. CASE EnterAborted(c) \/ FailFast(c)
      BY <3>2 DEF EnterAborted, FailFast, HandleFallback, Finish
    <3>3. CASE ClaimProbe(c) \/ AwaitProbe(c) \/ CallInner(c)
      BY <3>3 DEF ClaimProbe, AwaitProbe, CallInner
    <3>4. QED
      BY <2>1, <3>1, <3>2, <3>3 DEF Run
  <2>2. ASSUME NEW c \in Call, NEW o \in Outcome, InnerSettles(c, o) PROVE Inv'
    BY <2>2 DEF InnerSettles, HandleFallback, Finish
  <2>3. ASSUME NEW c \in Call, NEW o \in Outcome, ProbeSettles(c, o) PROVE Inv'
    BY <2>3 DEF ProbeSettles, SettleProbe
  <2>4. ASSUME NEW c \in Call, NEW a \in {"fallback", "error"},
               ProbeFallbackSettles(c, a) \/ FallbackSettles(c, a)
        PROVE  Inv'
    BY <2>4 DEF ProbeFallbackSettles, FallbackSettles, SettleProbe, Finish
  <2>5. ASSUME NEW c \in Call, Abort(c) PROVE Inv'
    BY <2>5 DEF Abort, Finish
  <2>6. CASE Tick
    BY <2>6 DEF Tick
  <2>7. CASE UNCHANGED vars
    BY <2>7 DEF vars
  <2>8. QED
    BY <2>1, <2>2, <2>3, <2>4, <2>5, <2>6, <2>7 DEF Next, Settle, Idle
<1>3. QED
  BY <1>1, <1>2, TypeCorrect, PTL DEF Spec

-----------------------------------------------------------------------------
\* No more probes run than the breaker has HALF_OPEN periods to account for:
\* one, and one more for each period a CLOSED-path failure cut short.
THEOREM ProbeCount == Spec => []ProbesAccountedFor
<1>1. Init => ProbesAccountedFor
  <2> SUFFICES ASSUME Init PROVE LiveProbes = {} /\ preempted = 0
    BY FS_EmptySet DEF ProbesAccountedFor
  <2> QED
    BY DEF Init, NoCallYet, LiveProbes
<1>2. TypeOK /\ IInv /\ ProbesAccountedFor /\ [Next]_vars => ProbesAccountedFor'
  <2> SUFFICES ASSUME TypeOK, IInv, ProbesAccountedFor, [Next]_vars
               PROVE  ProbesAccountedFor'
    OBVIOUS
  <2> USE DEF TypeOK, ProbesAccountedFor, breaker, request
  <2>1. IsFiniteSet(LiveProbes) /\ Cardinality(LiveProbes) \in Nat
    BY CallAssumption, FS_Subset, FS_CardinalityType DEF LiveProbes
  <2>2. CASE LiveProbes' = LiveProbes /\ preempted' = preempted /\ state' = state
    BY <2>2
  <2>3. ASSUME NEW c \in Call, ClaimProbe(c) PROVE ProbesAccountedFor'
    <3>1. c \notin LiveProbes /\ LiveProbes' = LiveProbes \cup {c}
      BY <2>3 DEF ClaimProbe, LiveProbes, IInv, NoProbeYet, Enter
    <3>2. Cardinality(LiveProbes \cup {c}) = Cardinality(LiveProbes) + 1
      BY <2>1, <3>1, FS_AddElement
    <3>3. state = "OPEN" /\ state' = "HALF_OPEN" /\ preempted' = preempted
      BY <2>3 DEF ClaimProbe
    <3>4. QED
      BY <2>1, <3>1, <3>2, <3>3
  <2>4. ASSUME NEW c \in Call, NEW o \in {"infra", "logical"}, ClaimProbeThrows(c, o)
        PROVE  ProbesAccountedFor'
    <3>1. LiveProbes' = LiveProbes
      BY <2>4 DEF ClaimProbeThrows, LiveProbes, IInv, NoProbeYet, Enter
    <3>2. state = "OPEN" /\ state' # "HALF_OPEN" /\ preempted' = preempted
      BY <2>4 DEF ClaimProbeThrows, RecordFailure, Reset
    <3>3. QED
      BY <2>1, <3>1, <3>2
  <2>5. ASSUME NEW c \in Call, NEW o \in Outcome, InnerSettles(c, o)
        PROVE  ProbesAccountedFor'
    <3>1. LiveProbes' = LiveProbes
      BY <2>5 DEF InnerSettles, LiveProbes
    <3>2. CASE o = "infra" /\ state = "HALF_OPEN"
      <4>1. state' = "OPEN" /\ preempted' = preempted + 1
        BY <2>5, <3>2 DEF InnerSettles, RecordFailure
      <4>2. QED
        BY <2>1, <3>1, <3>2, <4>1
    <3>3. CASE ~(o = "infra" /\ state = "HALF_OPEN")
      <4>1. preempted' = preempted /\ (state' = "HALF_OPEN" <=> state = "HALF_OPEN")
        BY <2>5, <3>3 DEF InnerSettles, RecordFailure
      <4>2. QED
        BY <2>1, <3>1, <4>1
    <3>4. QED
      BY <3>2, <3>3
  <2>6. ASSUME NEW c \in Call, NEW o \in Outcome, ProbeSettles(c, o)
        PROVE  ProbesAccountedFor'
    <3>1. c \in LiveProbes /\ LiveProbes' = LiveProbes \ {c}
      BY <2>6 DEF ProbeSettles, SettleProbe, LiveProbes
    <3>2. Cardinality(LiveProbes') = Cardinality(LiveProbes) - 1
      BY <2>1, <3>1, FS_RemoveElement
    <3>3. state' # "HALF_OPEN" /\ preempted' = preempted
      BY <2>6 DEF ProbeSettles, RecordFailure, Reset
    <3>4. QED
      BY <2>1, <3>2, <3>3
  <2>7. ASSUME NEW c \in Call, NEW a \in {"fallback", "error"}, ProbeFallbackSettles(c, a)
        PROVE  ProbesAccountedFor'
    <3>1. LiveProbes' = LiveProbes
      BY <2>7 DEF ProbeFallbackSettles, SettleProbe, LiveProbes
    <3>2. QED
      BY <2>2, <2>7, <3>1 DEF ProbeFallbackSettles
  <2>8. ASSUME UNCHANGED <<breaker, probe>> PROVE ProbesAccountedFor'
    BY <2>2, <2>8 DEF LiveProbes
  <2>9. QED
    BY <2>3, <2>4, <2>5, <2>6, <2>7, <2>8
    DEF Next, Run, Settle, Idle, EnterAborted, FailFast, AwaitProbe, CallInner,
        FallbackSettles, Abort, Tick, vars
<1>3. QED
  BY <1>1, <1>2, TypeCorrect, SlotSafe, PTL DEF Spec

\* The breaker launches a second probe next to a first only after such a
\* failure.
THEOREM SingleFlight == Spec => []SingleFlightUnlessPreempted
<1>1. TypeOK /\ ProbesAccountedFor => SingleFlightUnlessPreempted
  <2> SUFFICES ASSUME TypeOK, ProbesAccountedFor, preempted = 0,
                      NEW c \in LiveProbes, NEW d \in LiveProbes
               PROVE  c = d
    BY DEF SingleFlightUnlessPreempted
  <2>1. IsFiniteSet(LiveProbes)
    BY CallAssumption, FS_Subset DEF LiveProbes
  <2>2. Cardinality(LiveProbes) <= 1
    BY <2>1, FS_CardinalityType DEF ProbesAccountedFor
  <2>3. Cardinality({c, d}) <= Cardinality(LiveProbes)
    BY <2>1, FS_Subset
  <2>4. ASSUME c # d PROVE Cardinality({c, d}) = 2
    <3>1. IsFiniteSet({c}) /\ Cardinality({c}) = 1 /\ d \notin {c}
      BY <2>4, FS_Singleton
    <3>2. Cardinality({c} \cup {d}) = 1 + 1
      BY <3>1, FS_AddElement
    <3>3. {c, d} = {c} \cup {d}
      OBVIOUS
    <3>4. QED
      BY <3>2, <3>3
  <2>5. QED
    BY <2>1, <2>2, <2>3, <2>4, FS_CardinalityType
<1>2. QED
  BY <1>1, TypeCorrect, ProbeCount, PTL

-----------------------------------------------------------------------------
\* OracleSparedWhileOpen: through its cooldown an OPEN breaker lets no call,
\* new or re-entering, on to the oracle, while those in flight settle.
THEOREM OpenSpares == Spec => OracleSparedWhileOpen
<1>1. TypeOK /\ [Next]_vars =>
        [state = "OPEN" /\ now < nextAttempt => InnerCalls' \subseteq InnerCalls]_vars
  <2> SUFFICES ASSUME TypeOK, Next, state = "OPEN", now < nextAttempt
               PROVE  InnerCalls' \subseteq InnerCalls
    OBVIOUS
  <2> USE DEF InnerCalls, LiveProbes, TypeOK, Finish, HandleFallback
  <2>1. now \in Nat /\ nextAttempt \in Nat /\ ~ (now >= nextAttempt)
    OBVIOUS
  <2>2. ASSUME NEW c \in Call, Run(c) PROVE InnerCalls' \subseteq InnerCalls
    <3>1. EnterAborted(c) \/ FailFast(c)
      BY <2>1, <2>2 DEF Run, ClaimProbe, ClaimProbeThrows, MayClaim, AwaitProbe, CallInner, Passes
    <3> QED
      BY <3>1 DEF EnterAborted, FailFast
  <2>3. ASSUME NEW c \in Call, NEW a, SettleProbe(c, a)
        PROVE  InnerCalls' \subseteq InnerCalls
    BY <2>3 DEF SettleProbe, Woken, WaitingFor
  <2>4. ASSUME NEW c \in Call, NEW o \in Outcome, InnerSettles(c, o)
        PROVE  InnerCalls' \subseteq InnerCalls
    BY <2>4 DEF InnerSettles
  <2>5. ASSUME NEW c \in Call, NEW o \in Outcome, ProbeSettles(c, o)
        PROVE  InnerCalls' \subseteq InnerCalls
    <3>1. \/ UNCHANGED pc /\ probe' = [probe EXCEPT ![c] = "fallback"]
          \/ SettleProbe(c, IF o = "score" THEN dest[c] ELSE "error")
      BY <2>5 DEF ProbeSettles
    <3> QED
      BY <2>3, <3>1
  <2>6. ASSUME NEW c \in Call, NEW a \in {"fallback", "error"},
               ProbeFallbackSettles(c, a) \/ FallbackSettles(c, a)
        PROVE  InnerCalls' \subseteq InnerCalls
    BY <2>3, <2>6 DEF ProbeFallbackSettles, FallbackSettles
  <2>7. ASSUME NEW c \in Call, Abort(c) PROVE InnerCalls' \subseteq InnerCalls
    BY <2>7 DEF Abort, Detach
  <2>8. CASE Tick \/ Idle
    BY <2>8 DEF Tick, Idle, vars, breaker, request
  <2> QED
    BY <2>2, <2>4, <2>5, <2>6, <2>7, <2>8 DEF Next, Settle
<1> QED
  BY <1>1, TypeCorrect, PTL DEF Spec, OracleSparedWhileOpen

=============================================================================
