---------------------------- MODULE CircuitBreaker ----------------------------
(***************************************************************************)
(* CircuitBreakerOracle (src/src/CircuitBreakerOracle.ts) under arbitrary  *)
(* interleaving of its callers.  A step is one synchronous turn of the     *)
(* event loop: a call running to its first `await`, or the continuation    *)
(* that a settled promise schedules.                                       *)
(*                                                                         *)
(* A score is abstracted to the destination it was computed for.  Each     *)
(* call of Call is made once; the probe it may launch bears its name.      *)
(***************************************************************************)
EXTENDS Naturals, FiniteSets

CONSTANTS
  Call,         \* the getScore / getScoreCancellable calls
  Dest,         \* destinations
  None,         \* JavaScript null
  Threshold,    \* config.failureThreshold
  Cooldown,     \* config.cooldownWindow, in ticks
  Fallback,     \* config.fallback: "none", "error" or "producer"
  SyncThrow,    \* may oracle.getScore throw instead of rejecting?
  MaxTime       \* bound on the clock

ASSUME CallAssumption  == IsFiniteSet(Call) /\ None \notin Call
ASSUME DestAssumption  == Dest \cap {"error", "cancelled", "fallback", "pending"} = {}
ASSUME ConfigAssumption ==
  /\ Threshold \in Nat \ {0}
  /\ Cooldown \in Nat
  /\ Fallback \in {"none", "error", "producer"}
  /\ SyncThrow \in BOOLEAN
  /\ MaxTime \in Nat

VARIABLES
  state,          \* this.state
  failures,       \* this.failures
  nextAttempt,    \* this.nextAttempt
  halfOpenProbe,  \* this.halfOpenProbe: the call whose runProbe it is, or None
  now,            \* Date.now()
  dest,           \* the destination each call asks for
  cancellable,    \* the calls made through getScoreCancellable
  aborted,        \* the calls whose signal is aborted
  pc,             \* where each call is suspended
  awaits,         \* the probe a waiting call awaits
  probe,          \* where the runProbe of each call is suspended
  answer,         \* what a finished call returned, or how it failed
  preempted       \* history: HALF_OPEN states ended by a CLOSED-path failure

breaker == <<state, failures, nextAttempt, halfOpenProbe, preempted>>
request == <<dest, cancellable>>
vars    == <<breaker, now, request, aborted, pc, awaits, probe, answer>>

CircuitBreakerState == {"CLOSED", "OPEN", "HALF_OPEN"}
Outcome  == {"score", "infra", "logical"}   \* how oracle.getScore settles
Failure  == {"error", "cancelled"}
Answer   == Dest \cup Failure \cup {"fallback", "pending"}

LiveProbes == {c \in Call : probe[c] = "inner"}

TypeOK ==
  /\ state \in CircuitBreakerState
  /\ failures \in Nat
  /\ nextAttempt \in Nat
  /\ halfOpenProbe \in Call \cup {None}
  /\ now \in Nat
  /\ dest \in [Call -> Dest]
  /\ cancellable \in SUBSET Call
  /\ aborted \in SUBSET cancellable
  /\ pc \in [Call -> {"ready", "inner", "probe", "wait", "racedFallback", "fallback", "done"}]
  /\ awaits \in [Call -> Call \cup {None}]
  /\ probe \in [Call -> {"none", "inner", "fallback", "settled"}]
  /\ answer \in [Call -> Answer]
  /\ preempted \in Nat

NoCallYet ==
  /\ now = 0
  /\ dest \in [Call -> Dest]
  /\ cancellable \in SUBSET Call
  /\ aborted = {}
  /\ pc = [c \in Call |-> "ready"]
  /\ awaits = [c \in Call |-> None]
  /\ probe = [c \in Call |-> "none"]
  /\ answer = [c \in Call |-> "pending"]

Init ==
  /\ state = "CLOSED"
  /\ failures = 0
  /\ nextAttempt = 0
  /\ halfOpenProbe = None
  /\ NoCallYet
  /\ preempted = 0

-----------------------------------------------------------------------------
(* The private helpers of the class, as parts of the actions that call     *)
(* them.                                                                   *)

Trips(st) == failures + 1 >= Threshold \/ st = "HALF_OPEN"

CooldownEnd == now + Cooldown

RecordFailure(st) ==
  /\ failures' = failures + 1
  /\ IF Trips(st)
       THEN state' = "OPEN" /\ nextAttempt' = CooldownEnd
       ELSE state' = st /\ UNCHANGED nextAttempt

Reset ==
  /\ state' = "CLOSED"
  /\ failures' = 0
  /\ nextAttempt' = 0

\* Call c ends with answer a.
Finish(c, a) ==
  /\ pc' = [pc EXCEPT ![c] = "done"]
  /\ answer' = [answer EXCEPT ![c] = a]

\* Call c awaits handleFallback at `at`: a producer is called, anything else
\* rejects at once.
HandleFallback(c, at) ==
  IF Fallback = "producer"
    THEN pc' = [pc EXCEPT ![c] = at] /\ UNCHANGED answer
    ELSE Finish(c, "error")

WaitingFor(c) == {w \in Call : pc[w] = "wait" /\ awaits[w] = c}

\* Mutant: the owner of the probe is the one to wake the others.
WokenByOwner(c) == IF pc[c] = "probe" THEN WaitingFor(c) ELSE {}

\* The calls that the settlement of c's probe makes re-enter getScore.
Woken(c) == WaitingFor(c)

\* Mutant: the waiters take the probe's value for their own.
SettleProbeForAll(c, a) ==
  LET all == Woken(c) \cup (IF pc[c] = "probe" THEN {c} ELSE {})
  IN /\ probe' = [probe EXCEPT ![c] = "settled"]
     /\ pc' = [w \in Call |-> IF w \in all THEN "done" ELSE pc[w]]
     /\ awaits' = [w \in Call |-> IF w \in all THEN None ELSE awaits[w]]
     /\ answer' = [w \in Call |-> IF w \in all THEN a ELSE answer[w]]

\* The promise of c's probe settles with answer a: its owner (unless it was
\* cancelled and left) gets a, and whoever awaits it will re-enter getScore.
SettleProbe(c, a) ==
  LET owner == pc[c] = "probe"
  IN /\ probe' = [probe EXCEPT ![c] = "settled"]
     /\ pc' = [w \in Call |-> IF w = c /\ owner THEN "done"
                              ELSE IF w \in Woken(c) THEN "ready" ELSE pc[w]]
     /\ awaits' = [w \in Call |-> IF w \in Woken(c) THEN None ELSE awaits[w]]
     /\ answer' = IF owner THEN [answer EXCEPT ![c] = a] ELSE answer

-----------------------------------------------------------------------------
(* Entering getScore: the first call, or the re-entry of a waiter whose    *)
(* probe has settled.                                                      *)

Enter(c) == pc[c] = "ready" /\ c \notin aborted

\* The synchronous check behind INV-CB-2, and a mutant that forgets that the
\* first caller to pass it has moved the breaker to HALF_OPEN.
HerdMayClaim == state # "CLOSED" /\ now >= nextAttempt
MayClaim     == state = "OPEN" /\ now >= nextAttempt

\* What lets a call through to the wrapped oracle, and a mutant that only
\* keeps it from joining a probe.
PassesUnlessProbing == state # "HALF_OPEN"
Passes              == state = "CLOSED"

EnterAborted(c) ==
  /\ pc[c] = "ready"
  /\ c \in aborted
  /\ Finish(c, "cancelled")
  /\ UNCHANGED <<breaker, now, request, aborted, awaits, probe>>

FailFast(c) ==
  /\ Enter(c)
  /\ state = "OPEN"
  /\ now < nextAttempt
  /\ HandleFallback(c, "racedFallback")
  /\ UNCHANGED <<breaker, now, request, aborted, awaits, probe>>

ClaimProbe(c) ==
  /\ Enter(c)
  /\ MayClaim
  /\ state' = "HALF_OPEN"
  /\ halfOpenProbe' = c
  /\ pc' = [pc EXCEPT ![c] = "probe"]
  /\ probe' = [probe EXCEPT ![c] = "inner"]
  /\ UNCHANGED <<failures, nextAttempt, preempted, now, request, aborted, awaits, answer>>

\* As ClaimProbe, but oracle.getScore throws synchronously: the whole of
\* runProbe, its finally included, runs before its promise is assigned.
ClaimProbeThrows(c, outcome) ==
  /\ SyncThrow
  /\ Enter(c)
  /\ MayClaim
  /\ halfOpenProbe' = c
  /\ IF outcome = "infra" THEN RecordFailure("HALF_OPEN") ELSE Reset
  /\ IF outcome = "infra" /\ Fallback = "producer"
       THEN /\ probe' = [probe EXCEPT ![c] = "fallback"]
            /\ pc' = [pc EXCEPT ![c] = "probe"]
            /\ UNCHANGED answer
       ELSE /\ probe' = [probe EXCEPT ![c] = "settled"]
            /\ Finish(c, "error")
  /\ UNCHANGED <<preempted, now, request, aborted, awaits>>

AwaitProbe(c) ==
  /\ Enter(c)
  /\ state = "HALF_OPEN"
  /\ pc' = [pc EXCEPT ![c] = "wait"]
  /\ awaits' = [awaits EXCEPT ![c] = halfOpenProbe]
  /\ UNCHANGED <<breaker, now, request, aborted, probe, answer>>

CallInner(c) ==
  /\ Enter(c)
  /\ Passes
  /\ pc' = [pc EXCEPT ![c] = "inner"]
  /\ UNCHANGED <<breaker, now, request, aborted, awaits, probe, answer>>

-----------------------------------------------------------------------------
(* The wrapped oracle, the fallback producer and the caller's signal.      *)

InnerSettles(c, outcome) ==
  /\ pc[c] = "inner"
  /\ \/ outcome = "score" /\ Finish(c, dest[c]) /\ UNCHANGED breaker
     \/ outcome = "logical" /\ Finish(c, "error") /\ UNCHANGED breaker
     \/ /\ outcome = "infra"
        /\ RecordFailure(state)
        /\ HandleFallback(c, "fallback")
        /\ preempted' = IF state = "HALF_OPEN" THEN preempted + 1 ELSE preempted
        /\ UNCHANGED halfOpenProbe
  /\ UNCHANGED <<now, request, aborted, awaits, probe>>

ProbeSettles(c, outcome) ==
  /\ probe[c] = "inner"
  /\ halfOpenProbe' = None
  /\ IF outcome = "infra" THEN RecordFailure(state) ELSE Reset
  /\ IF outcome = "infra" /\ Fallback = "producer"
       THEN /\ probe' = [probe EXCEPT ![c] = "fallback"]
            /\ UNCHANGED <<pc, awaits, answer>>
       ELSE SettleProbe(c, IF outcome = "score" THEN dest[c] ELSE "error")
  /\ UNCHANGED <<preempted, now, request, aborted>>

ProbeFallbackSettles(c, a) ==
  /\ probe[c] = "fallback"
  /\ SettleProbe(c, a)
  /\ UNCHANGED <<breaker, now, request, aborted>>

FallbackSettles(c, a) ==
  /\ pc[c] \in {"racedFallback", "fallback"}
  /\ Finish(c, a)
  /\ UNCHANGED <<breaker, now, request, aborted, awaits, probe>>

\* A caller that leaves its own probe leaves it running; a mutant tears the
\* shared probe down with it.
TearDown(c) ==
  /\ halfOpenProbe' = IF pc[c] = "probe" THEN None ELSE halfOpenProbe
  /\ UNCHANGED <<state, failures, nextAttempt, preempted, probe>>
Detach(c) == UNCHANGED <<breaker, probe>>

\* Only a getScoreCancellable call has a signal.
Abortable(c) == c \in cancellable \ aborted

\* The caller aborts its signal.  Every await of getScoreCancellable is raced
\* against it but the fallback of a CLOSED-path failure; a call not suspended
\* in a race finds the signal aborted when it re-enters.
Abort(c) ==
  /\ Abortable(c)
  /\ pc[c] # "done"
  /\ aborted' = aborted \cup {c}
  /\ IF pc[c] \in {"inner", "probe", "wait", "racedFallback"}
       THEN Finish(c, "cancelled") /\ awaits' = [awaits EXCEPT ![c] = None]
       ELSE UNCHANGED <<pc, answer, awaits>>
  /\ Detach(c)
  /\ UNCHANGED <<now, request>>

Tick ==
  /\ now < MaxTime
  /\ now' = now + 1
  /\ UNCHANGED <<breaker, request, aborted, pc, awaits, probe, answer>>

\* Every call is answered and no probe is left running: nothing more happens.
Quiescent == \A c \in Call : pc[c] = "done" /\ probe[c] \in {"none", "settled"}

Idle == Quiescent /\ UNCHANGED vars

Run(c) ==
  \/ EnterAborted(c)
  \/ FailFast(c)
  \/ ClaimProbe(c)
  \/ \E o \in {"infra", "logical"} : ClaimProbeThrows(c, o)
  \/ AwaitProbe(c)
  \/ CallInner(c)

Settle(c) ==
  \/ \E o \in Outcome : InnerSettles(c, o) \/ ProbeSettles(c, o)
  \/ \E a \in {"fallback", "error"} : ProbeFallbackSettles(c, a) \/ FallbackSettles(c, a)

Next ==
  \/ \E c \in Call : Run(c) \/ Settle(c) \/ Abort(c)
  \/ Tick
  \/ Idle

Spec == Init /\ [][Next]_vars

-----------------------------------------------------------------------------
(* Properties                                                              *)

\* INV-CB-1, the half a waiter relies on: a HALF_OPEN breaker holds in its
\* slot a probe whose oracle call is still running, so `this.halfOpenProbe!`
\* is never null and every waiter will be woken by a state change.
ProbeSlotHeld == state = "HALF_OPEN" => halfOpenProbe \in LiveProbes

\* INV-CB-1, as far as it goes: probes are launched one per HALF_OPEN period,
\* so a probe can only meet another one that a late failure of a CLOSED-path
\* call orphaned by re-opening the breaker under it.
ProbesAccountedFor ==
  Cardinality(LiveProbes) <= preempted + (IF state = "HALF_OPEN" THEN 1 ELSE 0)

\* INV-CB-1 for the behaviours it does hold in: while no CLOSED-path failure
\* has re-opened a HALF_OPEN breaker, all running probes are one and the same.
SingleFlightUnlessPreempted ==
  preempted = 0 => \A c, d \in LiveProbes : c = d

\* A caller that awaits a probe awaits one that has yet to settle, be it in
\* the slot, orphaned, or abandoned by its owner: no wake-up has been missed.
NoMissedWakeUp ==
  \A w \in Call : pc[w] = "wait" =>
    awaits[w] \in Call /\ probe[awaits[w]] \in {"inner", "fallback"}

\* INV-CB-4: whoever gets a score gets one computed for the destination it
\* asked for, however its call was delayed behind other callers' probes.
ScoreForOwnDestination ==
  \A c \in Call : answer[c] \in Dest => answer[c] = dest[c]

\* A CLOSED breaker has room for a failure: no order of late failures, probe
\* outcomes and resets leaves it CLOSED with the threshold already reached.
ClosedBelowThreshold == state = "CLOSED" => failures < Threshold

\* While the breaker is OPEN and cooling, no call, new or resumed after a
\* probe, reaches the wrapped oracle.
InnerCalls == {c \in Call : pc[c] = "inner"} \cup LiveProbes
OracleSparedWhileOpen ==
  [][state = "OPEN" /\ now < nextAttempt => InnerCalls' \subseteq InnerCalls]_vars

-----------------------------------------------------------------------------
(* What the documentation says of the class and the code does not do.      *)

\* CircuitBreakerOracle.ts:51, "at most one call to this.oracle.getScore is
\* ever in flight while state === HALF_OPEN", read of probe calls only.
SingleFlightProbe == state = "HALF_OPEN" => Cardinality(LiveProbes) <= 1

=============================================================================
