------------------------------ MODULE Coalescing ------------------------------
(***************************************************************************)
(* CoalescingOracle (src/src/CoalescingOracle.ts): the plain pool of       *)
(* getScore and the reference-counted, cancellable pool of                 *)
(* getScoreCancellable.  Each call of Call is made once; the call to the   *)
(* inner oracle it may start (promise, AbortController and map entry) bears*)
(* its name and is called a flight.                                        *)
(***************************************************************************)
EXTENDS Naturals, FiniteSets

CONSTANTS
  Call,
  Dest,
  None   \* no map entry, no answer yet

ASSUME CallAssumption == IsFiniteSet(Call) /\ None \notin Call
                         /\ Call \cap {"cancelled", "failed"} = {}
                         /\ None \notin {"cancelled", "failed"}

VARIABLES
  dest,
  cancellable,     \* the calls made through getScoreCancellable
  innerIsCancellable,   \* isCancellable(this.inner), fixed for an instance
  aborted,         \* the calls whose signal is aborted
  inFlightByDestination,
  cancellableInFlightByDestination,
  attachedCount,   \* of the entry of a flight of the cancellable pool
  flight,          \* the inner promise: "none", "running", "aborted", "settled"
  cleared,         \* the flights whose clean-up reaction has run
  rider,           \* the flight a call is attached to
  answer           \* None, "cancelled", "failed" (the inner call threw), or
                   \* the flight whose settlement the call returned

pools   == <<inFlightByDestination, cancellableInFlightByDestination>>
request == <<dest, cancellable, innerIsCancellable>>
vars    == <<request, aborted, pools, attachedCount, flight, cleared, rider, answer>>

TypeOK ==
  /\ dest \in [Call -> Dest]
  /\ cancellable \in SUBSET Call
  /\ innerIsCancellable \in BOOLEAN
  /\ aborted \in SUBSET cancellable
  /\ inFlightByDestination \in [Dest -> Call \cup {None}]
  /\ cancellableInFlightByDestination \in [Dest -> Call \cup {None}]
  /\ attachedCount \in [Call -> Nat]
  /\ flight \in [Call -> {"none", "running", "aborted", "settled"}]
  /\ cleared \in SUBSET Call
  /\ rider \in [Call -> Call \cup {None}]
  /\ answer \in [Call -> Call \cup {None, "cancelled", "failed"}]

Init ==
  /\ dest \in [Call -> Dest]
  /\ cancellable \in SUBSET Call
  /\ innerIsCancellable \in BOOLEAN
  /\ aborted \in SUBSET cancellable
  /\ inFlightByDestination = [d \in Dest |-> None]
  /\ cancellableInFlightByDestination = [d \in Dest |-> None]
  /\ attachedCount = [c \in Call |-> 0]
  /\ flight = [c \in Call |-> "none"]
  /\ cleared = {}
  /\ rider = [c \in Call |-> None]
  /\ answer = [c \in Call |-> None]

Fresh(c)    == rider[c] = None /\ answer[c] = None
Attached(c) == rider[c] # None /\ answer[c] = None

\* Only a cancellable call has a signal.
Abortable(c) == c \in cancellable \ aborted

\* The flight the pool of call c has for its destination.
Entry(c) == IF c \in cancellable THEN cancellableInFlightByDestination[dest[c]]
                                 ELSE inFlightByDestination[dest[c]]

-----------------------------------------------------------------------------
\* A call whose signal is aborted on entry.
RejectAborted(c) ==
  /\ Fresh(c)
  /\ c \in aborted
  /\ answer' = [answer EXCEPT ![c] = "cancelled"]
  /\ UNCHANGED <<request, aborted, pools, attachedCount, flight, cleared, rider>>

\* inner.getScore throws synchronously: no entry is made.
InnerThrows(c) ==
  /\ Fresh(c)
  /\ c \notin aborted
  /\ Entry(c) = None
  /\ answer' = [answer EXCEPT ![c] = "failed"]
  /\ UNCHANGED <<request, aborted, pools, attachedCount, flight, cleared, rider>>

\* The first caller for its destination in its pool starts the inner call.
StartFlight(c) ==
  /\ Fresh(c)
  /\ c \notin aborted
  /\ Entry(c) = None
  /\ flight' = [flight EXCEPT ![c] = "running"]
  /\ rider' = [rider EXCEPT ![c] = c]
  /\ IF c \in cancellable
       THEN /\ cancellableInFlightByDestination' =
                 [cancellableInFlightByDestination EXCEPT ![dest[c]] = c]
            /\ attachedCount' = [attachedCount EXCEPT ![c] = 1]
            /\ UNCHANGED inFlightByDestination
       ELSE /\ inFlightByDestination' = [inFlightByDestination EXCEPT ![dest[c]] = c]
            /\ UNCHANGED <<cancellableInFlightByDestination, attachedCount>>
  /\ UNCHANGED <<request, aborted, cleared, answer>>

\* attachedCount++, and a mutant that counts only the caller that started it.
StarterCounted(c) == attachedCount
Counted(c) == IF c \in cancellable THEN [attachedCount EXCEPT ![Entry(c)] = @ + 1]
                                   ELSE attachedCount

\* A later one attaches to the flight it finds.
Coalesce(c) ==
  /\ Fresh(c)
  /\ c \notin aborted
  /\ Entry(c) # None
  /\ rider' = [rider EXCEPT ![c] = Entry(c)]
  /\ attachedCount' = Counted(c)
  /\ UNCHANGED <<request, aborted, pools, flight, cleared, answer>>

\* Mutant: whatever the map holds for f's destination goes.
ClearWhatever(f) ==
  IF f \in cancellable
    THEN /\ cancellableInFlightByDestination' =
              [cancellableInFlightByDestination EXCEPT ![dest[f]] = None]
         /\ UNCHANGED inFlightByDestination
    ELSE /\ inFlightByDestination' = [inFlightByDestination EXCEPT ![dest[f]] = None]
         /\ UNCHANGED cancellableInFlightByDestination

\* Mutant: settlement cleans the plain map only.
ClearPlainOnly(f) ==
  /\ inFlightByDestination' =
       [d \in Dest |-> IF inFlightByDestination[d] = f THEN None ELSE inFlightByDestination[d]]
  /\ UNCHANGED cancellableInFlightByDestination

\* clearInFlight and clearCancellableInFlight: drop f's entry if it is still f's.
ClearEntry(f) ==
  IF f \in cancellable
    THEN /\ cancellableInFlightByDestination' =
              [d \in Dest |-> IF cancellableInFlightByDestination[d] = f /\ d = dest[f]
                                THEN None ELSE cancellableInFlightByDestination[d]]
         /\ UNCHANGED inFlightByDestination
    ELSE /\ inFlightByDestination' =
              [d \in Dest |-> IF inFlightByDestination[d] = f /\ d = dest[f]
                                THEN None ELSE inFlightByDestination[d]]
         /\ UNCHANGED cancellableInFlightByDestination

\* attachedCount reaches 0 when a caller of f leaves; one mutant compares
\* before it has decremented, the other does not compare.
LastNever(f)  == attachedCount[f] = 0
LastAlways(f) == attachedCount[f] >= 1
IsLast(f)     == attachedCount[f] = 1

\* The flight is forgotten at once if that stops it; one mutant keeps the
\* doomed flight, the other forgets one that goes on.
ForgetsNever(f)  == FALSE
ForgetsAlways(f) == IsLast(f)
Forgets(f)       == IsLast(f) /\ innerIsCancellable

\* The caller's signal fires.  onAbort runs if the call is still attached; the
\* last one to leave aborts the flight, and forgets it if that stops it.
Abort(c) ==
  /\ Abortable(c)
  /\ aborted' = aborted \cup {c}
  /\ IF Attached(c)
       THEN LET f == rider[c]
            IN /\ answer' = [answer EXCEPT ![c] = "cancelled"]
               /\ attachedCount' = [attachedCount EXCEPT ![f] = @ - 1]
               /\ flight' = IF IsLast(f) /\ innerIsCancellable /\ flight[f] = "running"
                              THEN [flight EXCEPT ![f] = "aborted"] ELSE flight
               /\ IF Forgets(f) THEN ClearEntry(f) ELSE UNCHANGED pools
       ELSE UNCHANGED <<pools, attachedCount, flight, answer>>
  /\ UNCHANGED <<request, cleared, rider>>

\* The inner promise settles (an aborted one with OracleCancelledError)...
InnerSettles(f) ==
  /\ flight[f] \in {"running", "aborted"}
  /\ flight' = [flight EXCEPT ![f] = "settled"]
  /\ UNCHANGED <<request, aborted, pools, attachedCount, cleared, rider, answer>>

\* ... its first reaction clears the bookkeeping ...
CleanUp(f) ==
  /\ flight[f] = "settled"
  /\ f \notin cleared
  /\ cleared' = cleared \cup {f}
  /\ ClearEntry(f)
  /\ UNCHANGED <<request, aborted, attachedCount, flight, rider, answer>>

\* A mutant wires the promise to the caller that started the flight only.
ReachesStarter(c) == rider[c] = c /\ c \in cleared
Reaches(c)        == rider[c] \in cleared

\* ... and the reactions queued behind it answer the callers.
Deliver(c) ==
  /\ Attached(c)
  /\ Reaches(c)
  /\ answer' = [answer EXCEPT ![c] = rider[c]]
  /\ UNCHANGED <<request, aborted, pools, attachedCount, flight, cleared, rider>>

\* All calls are answered and all flights cleaned up after.
Quiescent == \A c \in Call : /\ answer[c] # None
                             /\ flight[c] = "none" \/ c \in cleared

Idle == Quiescent /\ UNCHANGED vars

Run(c)   == RejectAborted(c) \/ InnerThrows(c) \/ StartFlight(c) \/ Coalesce(c)
React(c) == InnerSettles(c) \/ CleanUp(c) \/ Deliver(c)

Next == \/ \E c \in Call : Run(c) \/ React(c) \/ Abort(c)
        \/ Idle

Spec == Init /\ [][Next]_vars

\* Calls get to run, the inner oracle settles its promises and the event loop
\* runs the reactions.  Nobody has to abort.
FairSpec == Spec /\ \A c \in Call : WF_vars(Run(c)) /\ WF_vars(React(c))

-----------------------------------------------------------------------------
(* Properties                                                              *)

\* INV-CO-2: of the flights a pool has for a destination, at most one is
\* running; another can only be one that all its callers left and that has
\* been told to stop.
SingleRunningFlight ==
  \A f, g \in Call :
    /\ flight[f] = "running" /\ flight[g] = "running"
    /\ dest[f] = dest[g] /\ (f \in cancellable <=> g \in cancellable)
    => f = g

\* One caller's cancellation never reaches another: a flight that was told to
\* stop has no caller left that still expects its outcome.
NobodyOnAbortedFlight ==
  \A c \in Call : Attached(c) => flight[rider[c]] # "aborted"

\* The converse: a stoppable flight nobody expects anything of is not left
\* running, holding its resource.
NoFlightLeftRunning ==
  \A f \in cancellable : innerIsCancellable /\ flight[f] = "running" =>
    \E c \in Call : rider[c] = f /\ Attached(c)

\* attachedCount is the number of callers attached and not cancelled, so it
\* reaches 0 exactly when the last of them leaves.
CountsCallers ==
  \A f \in cancellable :
    attachedCount[f] = Cardinality({c \in Call : rider[c] = f /\ answer[c] # "cancelled"})

\* No entry outlives its flight: with nothing left to do, both maps are empty.
NoEntryLeaked ==
  Quiescent => \A d \in Dest : /\ inFlightByDestination[d] = None
                               /\ cancellableInFlightByDestination[d] = None

\* Whoever calls is answered, whichever other callers come and go.
EveryCallSettles == \A c \in Call : <>(answer[c] # None)

\* CoalescingOracle implements SingleFlight, with a flight open as long as the
\* map of its pool holds it.
Held(f) == Entry(f) = f
SF == INSTANCE SingleFlight WITH
        Key    <- Dest \X BOOLEAN,
        key    <- [c \in Call |-> <<dest[c], c \in cancellable>>],
        flight <- [f \in Call |-> IF flight[f] = "none" THEN "none"
                                  ELSE IF Held(f) THEN "open" ELSE "closed"]

ImplementsSingleFlight == SF!Spec

=============================================================================
