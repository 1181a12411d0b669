--------------------------- MODULE Coalescing_proofs ---------------------------
(***************************************************************************)
(* CoalescingOracle for any number of calls and destinations: one running  *)
(* flight per pool and destination, counts that are right, cancellations   *)
(* that reach nobody else, and the refinement of SingleFlight.             *)
(***************************************************************************)
EXTENDS Coalescing, FiniteSetTheorems, TLAPS

USE DEF Fresh, Attached, Abortable, IsLast, Forgets, Counted, Reaches

SameKey(f, c)  == dest[f] = dest[c] /\ (f \in cancellable <=> c \in cancellable)
Boardable(f, c) == SameKey(f, c) /\ flight[f] \in {"running", "settled"} /\ f \notin cleared
Callers(f)     == {c \in Call : rider[c] = f /\ answer[c] # "cancelled"}

\* How map entries, flights and callers hang together.
Structure ==
  /\ \A c \in Call : Entry(c) # None => Boardable(Entry(c), c)
  /\ \A f \in Call : flight[f] = "running" => Entry(f) = f
  /\ \A f \in cleared : flight[f] = "settled"
  /\ \A c \in Call : rider[c] = None => flight[c] = "none"
  /\ \A c \in Call : rider[c] # None => SameKey(rider[c], c) /\ flight[rider[c]] # "none"
  /\ \A c \in Call : answer[c] \in Call => rider[c] \in cleared

IInv == TypeOK /\ Structure /\ CountsCallers

\* The maps after clearInFlight and clearCancellableInFlight.
LEMMA Cleared ==
  ASSUME TypeOK, Structure, NEW f \in Call, ClearEntry(f), UNCHANGED request
  PROVE  /\ inFlightByDestination' \in [Dest -> Call \cup {None}]
         /\ cancellableInFlightByDestination' \in [Dest -> Call \cup {None}]
         /\ \A c \in Call : Entry(c)' = IF Entry(c) = f THEN None ELSE Entry(c)
BY CallAssumption DEF TypeOK, Structure, Boardable, SameKey, ClearEntry, Entry, request

\* A caller that is attached counts, so its flight's count is at least 1.
LEMMA Leaving ==
  ASSUME IInv, NEW c \in Call, Attached(c), c \in cancellable
  PROVE  /\ rider[c] \in Call
         /\ rider[c] \in cancellable
         /\ c \in Callers(rider[c])
         /\ Cardinality(Callers(rider[c]) \ {c}) = attachedCount[rider[c]] - 1
         /\ attachedCount[rider[c]] - 1 \in Nat
<1>1. rider[c] \in Call /\ rider[c] \in cancellable /\ c \in Callers(rider[c])
  BY CallAssumption DEF IInv, TypeOK, Structure, SameKey, Callers
<1>2. IsFiniteSet(Callers(rider[c]))
  BY CallAssumption, FS_Subset DEF Callers
<1>3. /\ Cardinality(Callers(rider[c]) \ {c}) = Cardinality(Callers(rider[c])) - 1
      /\ Cardinality(Callers(rider[c]) \ {c}) \in Nat
  BY <1>1, <1>2, FS_RemoveElement, FS_CardinalityType
<1> QED
  BY <1>1, <1>3 DEF IInv, CountsCallers, Callers

\* Every step keeps the types.
LEMMA TypeStep == IInv /\ [Next]_vars => TypeOK'
<1> USE DEF IInv, TypeOK, pools, request
<1> SUFFICES ASSUME IInv, [Next]_vars PROVE TypeOK'
  OBVIOUS
<1>1. ASSUME NEW c \in Call, RejectAborted(c) \/ InnerThrows(c) PROVE TypeOK'
  BY <1>1 DEF RejectAborted, InnerThrows
<1>2. ASSUME NEW c \in Call, StartFlight(c) PROVE TypeOK'
  BY <1>2 DEF StartFlight
<1>3. ASSUME NEW c \in Call, Coalesce(c) PROVE TypeOK'
  BY <1>3 DEF Coalesce, Entry
<1>4. ASSUME NEW c \in Call, Abort(c) PROVE TypeOK'
  <2>1. CASE Attached(c)
    BY <1>4, <2>1, Leaving, Cleared DEF Abort
  <2>2. CASE ~Attached(c)
    BY <1>4, <2>2 DEF Abort
  <2> QED
    BY <2>1, <2>2
<1>5. ASSUME NEW f \in Call, InnerSettles(f) PROVE TypeOK'
  BY <1>5 DEF InnerSettles
<1>6. ASSUME NEW f \in Call, CleanUp(f) PROVE TypeOK'
  BY <1>6, Cleared DEF CleanUp
<1>7. ASSUME NEW c \in Call, Deliver(c) PROVE TypeOK'
  BY <1>7 DEF Deliver
<1>8. CASE UNCHANGED vars
  BY <1>8 DEF vars
<1> QED
  BY <1>1, <1>2, <1>3, <1>4, <1>5, <1>6, <1>7, <1>8 DEF Next, Run, React, Idle

\* Every step keeps the structure.
LEMMA StructureStep == IInv /\ [Next]_vars => Structure'
<1> USE CallAssumption DEF IInv, TypeOK, Structure, SameKey, Boardable, pools, request
<1> SUFFICES ASSUME IInv, [Next]_vars PROVE Structure'
  OBVIOUS
<1>1. ASSUME NEW c \in Call, RejectAborted(c) \/ InnerThrows(c) PROVE Structure'
  BY <1>1 DEF RejectAborted, InnerThrows, Entry
<1>2. ASSUME NEW c \in Call, StartFlight(c) PROVE Structure'
  <2>1. \A d \in Call : Entry(d)' = IF SameKey(c, d) THEN c ELSE Entry(d)
    BY <1>2 DEF StartFlight, Entry
  <2>2. \A d \in Call : SameKey(c, d) => Entry(d) = None
    BY <1>2 DEF StartFlight, Entry
  <2>3. c \notin cleared /\ flight[c] = "none"
    BY <1>2 DEF StartFlight
  <2> QED
    BY <1>2, <2>1, <2>2, <2>3 DEF StartFlight
<1>3. ASSUME NEW c \in Call, Coalesce(c) PROVE Structure'
  <2>1. Entry(c) \in Call /\ \A d \in Call : Entry(d)' = Entry(d)
    BY <1>3 DEF Coalesce, Entry
  <2> QED
    BY <1>3, <2>1 DEF Coalesce
<1>4. ASSUME NEW c \in Call, Abort(c) PROVE Structure'
  <2>1. CASE Attached(c) /\ Forgets(rider[c])
    <3> DEFINE f == rider[c]
    <3>1. f \in Call /\ ClearEntry(f) /\ UNCHANGED request
      BY <1>4, <2>1 DEF Abort
    <3>2. \A d \in Call : Entry(d)' = IF Entry(d) = f THEN None ELSE Entry(d)
      BY <3>1, Cleared
    <3>3. /\ UNCHANGED <<request, cleared, rider>>
          /\ flight' = IF flight[f] = "running" THEN [flight EXCEPT ![f] = "aborted"] ELSE flight
          /\ answer' = [answer EXCEPT ![c] = "cancelled"]
      BY <1>4, <2>1 DEF Abort
    <3> HIDE DEF f
    <3> QED
      BY <3>1, <3>2, <3>3
  <2>2. CASE Attached(c) /\ ~Forgets(rider[c])
    BY <1>4, <2>2 DEF Abort, Entry
  <2>3. CASE ~Attached(c)
    BY <1>4, <2>3 DEF Abort, Entry
  <2> QED
    BY <2>1, <2>2, <2>3
<1>5. ASSUME NEW f \in Call, InnerSettles(f) PROVE Structure'
  BY <1>5 DEF InnerSettles, Entry
<1>6. ASSUME NEW f \in Call, CleanUp(f) PROVE Structure'
  BY <1>6, Cleared DEF CleanUp
<1>7. ASSUME NEW c \in Call, Deliver(c) PROVE Structure'
  BY <1>7 DEF Deliver, Entry
<1>8. CASE UNCHANGED vars
  BY <1>8 DEF vars, Entry
<1> QED
  BY <1>1, <1>2, <1>3, <1>4, <1>5, <1>6, <1>7, <1>8 DEF Next, Run, React, Idle

\* Every step keeps the counts.
LEMMA CountStep == IInv /\ [Next]_vars => CountsCallers'
<1> USE CallAssumption DEF IInv, TypeOK, pools, request
<1> SUFFICES ASSUME IInv, [Next]_vars, NEW f \in cancellable, cancellable' = cancellable
             PROVE  attachedCount'[f] = Cardinality(Callers(f)')
  BY DEF CountsCallers, Callers, Next, Run, React, Idle, vars, RejectAborted, InnerThrows,
         StartFlight, Coalesce, Abort, InnerSettles, CleanUp, Deliver
<1> f \in Call /\ attachedCount[f] = Cardinality(Callers(f))
  BY DEF CountsCallers, Callers
<1> IsFiniteSet(Callers(f)) /\ Cardinality(Callers(f)) \in Nat
  BY FS_Subset, FS_CardinalityType DEF Callers
<1>1. ASSUME Callers(f)' = Callers(f), attachedCount'[f] = attachedCount[f]
      PROVE  attachedCount'[f] = Cardinality(Callers(f)')
  BY <1>1
<1>2. ASSUME NEW c \in Call, RejectAborted(c) \/ InnerThrows(c) \/ InnerSettles(c) \/ CleanUp(c) \/ Deliver(c)
      PROVE  attachedCount'[f] = Cardinality(Callers(f)')
  BY <1>1, <1>2 DEF RejectAborted, InnerThrows, InnerSettles, CleanUp, Deliver, Callers
<1>3. ASSUME NEW c \in Call, StartFlight(c) PROVE attachedCount'[f] = Cardinality(Callers(f)')
  <2>1. CASE f = c
    <3>1. \A d \in Call : rider[d] # c
      BY <1>3 DEF StartFlight, Structure
    <3>2. Callers(f)' = {c}
      BY <1>3, <2>1, <3>1 DEF StartFlight, Callers
    <3>3. Cardinality({c}) = 1
      BY FS_Singleton
    <3>4. attachedCount'[f] = 1
      BY <1>3, <2>1 DEF StartFlight
    <3> QED
      BY <3>2, <3>3, <3>4
  <2>2. CASE f # c
    BY <1>1, <1>3, <2>2 DEF StartFlight, Callers
  <2> QED
    BY <2>1, <2>2
<1>4. ASSUME NEW c \in Call, Coalesce(c) PROVE attachedCount'[f] = Cardinality(Callers(f)')
  <2>1. CASE f = Entry(c)
    <3>1. c \notin Callers(f) /\ Callers(f)' = Callers(f) \cup {c}
      BY <1>4, <2>1 DEF Coalesce, Callers
    <3>2. c \in cancellable
      BY <1>4, <2>1 DEF Coalesce, Structure, Boardable, SameKey
    <3>3. Cardinality(Callers(f) \cup {c}) = Cardinality(Callers(f)) + 1
      BY <3>1, FS_AddElement
    <3> QED
      BY <1>4, <2>1, <3>1, <3>2, <3>3 DEF Coalesce
  <2>2. CASE f # Entry(c)
    BY <1>1, <1>4, <2>2 DEF Coalesce, Callers, Entry
  <2> QED
    BY <2>1, <2>2
<1>5. ASSUME NEW c \in Call, Abort(c) PROVE attachedCount'[f] = Cardinality(Callers(f)')
  <2>1. CASE Attached(c) /\ f = rider[c]
    <3>1. Callers(f)' = Callers(f) \ {c}
      BY <1>5, <2>1 DEF Abort, Callers
    <3> QED
      BY <1>5, <2>1, <3>1, Leaving DEF Abort
  <2>2. CASE ~(Attached(c) /\ f = rider[c])
    BY <1>1, <1>5, <2>2 DEF Abort, Callers
  <2> QED
    BY <2>1, <2>2
<1>6. CASE UNCHANGED vars
  BY <1>1, <1>6 DEF vars, Callers
<1> QED
  BY <1>2, <1>3, <1>4, <1>5, <1>6 DEF Next, Run, React, Idle

\* The invariant holds throughout.
THEOREM Inductive == Spec => []IInv
<1>1. Init => IInv
  <2> SUFFICES ASSUME Init PROVE IInv
    OBVIOUS
  <2>1. TypeOK
    BY DEF Init, TypeOK
  <2>2. Structure
    BY CallAssumption DEF Init, Structure, Entry
  <2>3. CountsCallers
    <3> SUFFICES ASSUME NEW f \in cancellable
                 PROVE  attachedCount[f] = Cardinality(Callers(f))
      BY DEF CountsCallers, Callers
    <3>1. Callers(f) = {}
      BY CallAssumption DEF Init, Callers
    <3> QED
      BY <3>1, FS_EmptySet DEF Init
  <2> QED
    BY <2>1, <2>2, <2>3 DEF IInv
<1>2. IInv /\ [Next]_vars => IInv'
  BY TypeStep, StructureStep, CountStep DEF IInv
<1> QED
  BY <1>1, <1>2, PTL DEF Spec

\* INV-CO-2: no two flights of a pool run for the same destination, because
\* the running one is in the map and found there by everyone who could start
\* another.
THEOREM OneFlight == Spec => []SingleRunningFlight
<1>1. IInv => SingleRunningFlight
  BY DEF IInv, TypeOK, Structure, SingleRunningFlight, Entry
<1> QED
  BY <1>1, Inductive, PTL

\* attachedCount counts the callers that are attached and not cancelled.
THEOREM Counts == Spec => []CountsCallers
<1>1. IInv => CountsCallers
  BY DEF IInv
<1> QED
  BY <1>1, Inductive, PTL

\* When the count says that c is the last to leave, nobody else is waiting.
LEMMA LastLeaves ==
  ASSUME IInv, NEW c \in Call, c \in cancellable, Attached(c), IsLast(rider[c])
  PROVE  \A d \in Call \ {c} : rider[d] = rider[c] => ~Attached(d)
<1>1. /\ c \in Callers(rider[c])
      /\ Cardinality(Callers(rider[c]) \ {c}) = 0
      /\ IsFiniteSet(Callers(rider[c]) \ {c})
  <2>1. IsFiniteSet(Callers(rider[c]) \ {c})
    BY CallAssumption, FS_Subset DEF Callers
  <2> QED
    BY <2>1, Leaving
<1>2. Callers(rider[c]) \ {c} = {}
  BY <1>1, FS_EmptySet
<1> QED
  BY <1>2, CallAssumption DEF Callers

\* One caller's cancellation never aborts the flight of another.
THEOREM CancellationIsPrivate == Spec => []NobodyOnAbortedFlight
<1> USE CallAssumption DEF IInv, TypeOK, NobodyOnAbortedFlight, pools, request
<1>1. Init => NobodyOnAbortedFlight
  BY DEF Init
<1>2. IInv /\ NobodyOnAbortedFlight /\ [Next]_vars => NobodyOnAbortedFlight'
  <2> SUFFICES ASSUME IInv, NobodyOnAbortedFlight, [Next]_vars PROVE NobodyOnAbortedFlight'
    OBVIOUS
  <2>1. ASSUME NEW c \in Call, RejectAborted(c) \/ InnerThrows(c) \/ CleanUp(c) \/ Deliver(c)
        PROVE  NobodyOnAbortedFlight'
    BY <2>1 DEF RejectAborted, InnerThrows, CleanUp, Deliver
  <2>2. ASSUME NEW c \in Call, StartFlight(c) PROVE NobodyOnAbortedFlight'
    BY <2>2 DEF StartFlight
  <2>3. ASSUME NEW c \in Call, Coalesce(c) PROVE NobodyOnAbortedFlight'
    BY <2>3 DEF Coalesce, Structure, Boardable
  <2>4. ASSUME NEW c \in Call, Abort(c) PROVE NobodyOnAbortedFlight'
    <3>1. CASE Attached(c) /\ IsLast(rider[c])
      <4>1. \A d \in Call \ {c} : rider[d] = rider[c] => ~Attached(d)
        BY <2>4, <3>1, LastLeaves DEF Abort
      <4> QED
        BY <2>4, <3>1, <4>1 DEF Abort
    <3>2. CASE ~(Attached(c) /\ IsLast(rider[c]))
      BY <2>4, <3>2 DEF Abort
    <3> QED
      BY <3>1, <3>2
  <2>5. ASSUME NEW f \in Call, InnerSettles(f) PROVE NobodyOnAbortedFlight'
    BY <2>5 DEF InnerSettles
  <2>6. CASE UNCHANGED vars
    BY <2>6 DEF vars
  <2> QED
    BY <2>1, <2>2, <2>3, <2>4, <2>5, <2>6 DEF Next, Run, React, Idle
<1> QED
  BY <1>1, <1>2, Inductive, PTL DEF Spec

\* A running flight is left by nobody who did not cancel: an answer comes only
\* after it has settled, and an inner call that threw made no flight.
NobodyLeft == \A c \in Call : rider[c] # None => answer[c] # "failed"

\* The converse: the last caller to leave stops a flight that can be stopped.
THEOREM AbandonedIsStopped == Spec => []NoFlightLeftRunning
<1> USE CallAssumption DEF IInv, TypeOK, NobodyLeft, NoFlightLeftRunning, pools, request
<1> DEFINE Inv == NobodyLeft /\ NoFlightLeftRunning
<1>1. Init => Inv
  BY DEF Init
<1>2. IInv /\ IInv' /\ Inv /\ [Next]_vars => Inv'
  <2> SUFFICES ASSUME IInv, IInv', Inv, [Next]_vars PROVE Inv'
    OBVIOUS
  <2>1. ASSUME NEW c \in Call, RejectAborted(c) \/ InnerThrows(c) PROVE Inv'
    BY <2>1 DEF RejectAborted, InnerThrows
  <2>2. ASSUME NEW c \in Call, StartFlight(c) PROVE Inv'
    BY <2>2 DEF StartFlight
  <2>3. ASSUME NEW c \in Call, Coalesce(c) PROVE Inv'
    BY <2>3 DEF Coalesce
  <2>4. ASSUME NEW c \in Call, Abort(c) PROVE Inv'
    <3>1. CASE Attached(c) /\ innerIsCancellable /\ flight[rider[c]] = "running" /\ ~IsLast(rider[c])
      <4>1. rider[c] \in Call /\ Cardinality(Callers(rider[c]) \ {c}) # 0
        BY <2>4, <3>1, Leaving DEF Abort
      <4>2. PICK d \in Callers(rider[c]) \ {c} : TRUE
        <5>1. Cardinality({}) = 0
          BY FS_EmptySet
        <5>2. Callers(rider[c]) \ {c} # {}
          BY <4>1, <5>1
        <5> QED
          BY <5>2
      <4>3. rider[d] = rider[c] /\ Attached(d)
        BY <3>1, <4>1, <4>2 DEF Callers, Structure
      <4> QED
        BY <2>4, <3>1, <4>2, <4>3 DEF Abort, Callers
    <3>2. CASE Attached(c) /\ innerIsCancellable /\ flight[rider[c]] = "running" /\ IsLast(rider[c])
      BY <2>4, <3>2, Leaving DEF Abort
    <3>3. CASE Attached(c) /\ ~(innerIsCancellable /\ flight[rider[c]] = "running")
      BY <2>4, <3>3 DEF Abort
    <3>4. CASE ~Attached(c)
      BY <2>4, <3>4 DEF Abort
    <3> QED
      BY <3>1, <3>2, <3>3, <3>4
  <2>5. ASSUME NEW f \in Call, InnerSettles(f) PROVE Inv'
    BY <2>5 DEF InnerSettles
  <2>6. ASSUME NEW f \in Call, CleanUp(f) PROVE Inv'
    BY <2>6 DEF CleanUp
  <2>7. ASSUME NEW c \in Call, Deliver(c) PROVE Inv'
    BY <2>7 DEF Deliver, Structure
  <2>8. CASE UNCHANGED vars
    BY <2>8 DEF vars
  <2> QED
    BY <2>1, <2>2, <2>3, <2>4, <2>5, <2>6, <2>7, <2>8 DEF Next, Run, React, Idle
<1> QED
  BY <1>1, <1>2, Inductive, PTL DEF Spec

-----------------------------------------------------------------------------
\* Each map holds, under a destination, flights for it that have been started
\* and not cleaned up.
Filed(pool, plain) ==
  \A d \in Dest : pool[d] # None =>
    /\ pool[d] \in Call /\ dest[pool[d]] = d
    /\ (pool[d] \notin cancellable) = plain
    /\ flight[pool[d]] # "none" /\ pool[d] \notin cleared
AllFiled == /\ Filed(inFlightByDestination, TRUE)
            /\ Filed(cancellableInFlightByDestination, FALSE)

\* No entry outlives its flight, abandoned flights and their successors
\* included: when all is done both maps are empty.
THEOREM MapsDrain == Spec => []NoEntryLeaked
<1> USE CallAssumption DEF IInv, TypeOK, AllFiled, Filed, pools, request
<1>1. Init => AllFiled
  BY DEF Init
<1>2. IInv /\ AllFiled /\ [Next]_vars => AllFiled'
  <2> SUFFICES ASSUME IInv, AllFiled, [Next]_vars PROVE AllFiled'
    OBVIOUS
  <2>1. ASSUME NEW c \in Call, RejectAborted(c) \/ InnerThrows(c) \/ Coalesce(c) \/ Deliver(c)
        PROVE  AllFiled'
    BY <2>1 DEF RejectAborted, InnerThrows, Coalesce, Deliver
  <2>2. ASSUME NEW c \in Call, StartFlight(c) PROVE AllFiled'
    BY <2>2 DEF StartFlight, Structure
  <2>3. ASSUME NEW c \in Call, Abort(c) PROVE AllFiled'
    BY <2>3 DEF Abort, ClearEntry
  <2>4. ASSUME NEW f \in Call, InnerSettles(f) PROVE AllFiled'
    BY <2>4 DEF InnerSettles
  <2>5. ASSUME NEW f \in Call, CleanUp(f) PROVE AllFiled'
    BY <2>5 DEF CleanUp, ClearEntry
  <2>6. CASE UNCHANGED vars
    BY <2>6 DEF vars
  <2> QED
    BY <2>1, <2>2, <2>3, <2>4, <2>5, <2>6 DEF Next, Run, React, Idle
<1>3. IInv /\ AllFiled => NoEntryLeaked
  BY DEF NoEntryLeaked, Quiescent
<1> QED
  BY <1>1, <1>2, <1>3, Inductive, PTL DEF Spec

-----------------------------------------------------------------------------
\* What SingleFlight sees of a flight.
Seen(f) == IF flight[f] = "none" THEN "none" ELSE IF Held(f) THEN "open" ELSE "closed"
KeyOf(c) == <<dest[c], c \in cancellable>>

\* Two calls have the same key for SingleFlight if they use the same pool for
\* the same destination, and then find the same entry.
LEMMA Keys ==
  ASSUME NEW c \in Call, NEW d \in Call
  PROVE  /\ KeyOf(c) = KeyOf(d) <=> SameKey(c, d)
         /\ SameKey(c, d) => Entry(c) = Entry(d)
BY DEF KeyOf, SameKey, Entry

\* Every step of CoalescingOracle is one of SingleFlight, or none.
LEMMA StepSimulation == IInv /\ IInv' /\ [Next]_vars => [SF!Next]_SF!vars
<1> USE CallAssumption DEF IInv, TypeOK
<1> SUFFICES ASSUME IInv, IInv', [Next]_vars PROVE [SF!Next]_SF!vars
  OBVIOUS
<1> DEFINE key  == [c \in Call |-> KeyOf(c)]
           seen == [f \in Call |-> Seen(f)]
<1>1. UNCHANGED request
  BY DEF Next, Run, React, Idle, vars, RejectAborted, InnerThrows,
         StartFlight, Coalesce, Abort, InnerSettles, CleanUp, Deliver
<1>2. key' = key
  BY <1>1 DEF KeyOf, request
<1>3. ASSUME UNCHANGED <<rider, answer>>, \A f \in Call : Seen(f)' = Seen(f)
      PROVE  UNCHANGED SF!vars
  BY <1>2, <1>3 DEF SF!vars, KeyOf, Seen
<1>4. ASSUME NEW c \in Call, RejectAborted(c) \/ InnerThrows(c) PROVE SF!Next
  <2>1. UNCHANGED <<key, seen>>
    BY <1>2, <1>4 DEF RejectAborted, InnerThrows, Seen, Held, Entry, request, pools
  <2>2. SF!Refuse(c)
    BY <1>4, <2>1 DEF SF!Refuse, SF!Fresh, RejectAborted, InnerThrows, KeyOf, Seen
  <2> QED
    BY <2>2 DEF SF!Next
<1>5. ASSUME NEW c \in Call, StartFlight(c) PROVE SF!Next
  <2>1. \A d \in Call : Entry(d)' = IF SameKey(c, d) THEN c ELSE Entry(d)
    BY <1>5 DEF StartFlight, Entry, SameKey, request
  <2>2. \A f \in Call : KeyOf(f) = KeyOf(c) => Entry(f) = None
    BY <1>5, Keys DEF StartFlight
  <2>3. seen' = [seen EXCEPT ![c] = "open"]
    <3>1. \A f \in Call \ {c} : Seen(f)' = Seen(f)
      BY <1>5, <2>1, <2>2, Keys DEF StartFlight, Seen, Held
    <3>2. Seen(c)' = "open"
      BY <1>5, <2>1 DEF StartFlight, Seen, Held, SameKey
    <3> QED
      BY <3>1, <3>2
  <2>4. SF!OpenFor(key[c]) = {}
    BY <2>2 DEF SF!OpenFor, KeyOf, Seen, Held
  <2>5. SF!Start(c)
    BY <1>2, <1>5, <2>3, <2>4 DEF SF!Start, SF!Fresh, StartFlight, KeyOf, Seen
  <2> QED
    BY <2>5 DEF SF!Next
<1>6. ASSUME NEW c \in Call, Coalesce(c) PROVE SF!Next
  <2>1. /\ Entry(c) \in Call
        /\ Boardable(Entry(c), c)
    BY <1>6 DEF Coalesce, Entry, Structure
  <2>2. Seen(Entry(c)) = "open" /\ KeyOf(Entry(c)) = KeyOf(c)
    BY <2>1, Keys DEF Boardable, Seen, Held
  <2>3. UNCHANGED seen
    BY <1>6 DEF Coalesce, Seen, Held, Entry, request, pools
  <2>4. SF!Join(c)
    BY <1>2, <1>6, <2>1, <2>2, <2>3 DEF SF!Join, SF!Fresh, SF!OpenFor, Coalesce, KeyOf, Seen
  <2> QED
    BY <2>4 DEF SF!Next
<1>7. ASSUME NEW c \in Call, Abort(c) PROVE [SF!Next]_SF!vars
  <2>1. CASE ~Attached(c)
    BY <1>3, <1>7, <2>1 DEF Abort, Seen, Held, Entry, request, pools
  <2>2. CASE Attached(c)
    <3> DEFINE f == rider[c]
    <3>1. f \in Call /\ c \in cancellable /\ flight[f] # "none"
      BY <1>7, <2>2 DEF Abort, Structure
    <3>2. /\ answer' = [answer EXCEPT ![c] = "cancelled"]
          /\ UNCHANGED rider
          /\ flight' = flight \/ flight' = [flight EXCEPT ![f] = "aborted"]
      BY <1>7, <2>2 DEF Abort
    <3>3. CASE ~Forgets(f)
      <4>1. UNCHANGED seen
        BY <1>7, <2>2, <3>1, <3>2, <3>3 DEF Abort, Seen, Held, Entry, request, pools
      <4>2. SF!Leave(c)
        BY <1>2, <2>2, <3>2, <4>1 DEF SF!Leave, SF!Waiting, KeyOf, Seen
      <4> QED
        BY <4>2 DEF SF!Next
    <3>4. CASE Forgets(f)
      <4>1. ClearEntry(f)
        BY <1>7, <2>2, <3>4 DEF Abort
      <4>2. \A d \in Call : Entry(d)' = IF Entry(d) = f THEN None ELSE Entry(d)
        BY <1>1, <3>1, <4>1, Cleared
      <4>3. \A d \in Call \ {f} : Seen(d)' = Seen(d)
        BY <3>1, <3>2, <4>2 DEF Seen, Held
      <4>4. Seen(f)' = "closed"
        BY <3>1, <3>2, <4>2 DEF Seen, Held
      <4>5. seen' = [seen EXCEPT ![f] = "closed"]
        BY <3>1, <3>2, <4>3, <4>4
      <4>6. \A d \in Call \ {c} : rider[d] = f => ~Attached(d)
        BY <2>2, <3>1, <3>4, LastLeaves
      <4>7. SF!Leave(c)
        BY <1>2, <2>2, <3>2, <4>5, <4>6 DEF SF!Leave, SF!Waiting, KeyOf, Seen
      <4> QED
        BY <4>7 DEF SF!Next
    <3> QED
      BY <3>3, <3>4
  <2> QED
    BY <2>1, <2>2
<1>8. ASSUME NEW f \in Call, InnerSettles(f) PROVE [SF!Next]_SF!vars
  BY <1>3, <1>8 DEF InnerSettles, Seen, Held, Entry, request, pools
<1>9. ASSUME NEW f \in Call, CleanUp(f) PROVE [SF!Next]_SF!vars
  <2>1. \A d \in Call : Entry(d)' = IF Entry(d) = f THEN None ELSE Entry(d)
    BY <1>1, <1>9, Cleared DEF CleanUp
  <2>2. \A d \in Call \ {f} : Seen(d)' = Seen(d)
    BY <1>9, <2>1 DEF CleanUp, Seen, Held
  <2>3. flight[f] = "settled" /\ Seen(f)' = "closed"
    BY <1>9, <2>1 DEF CleanUp, Seen, Held
  <2>4. CASE Held(f)
    <3>1. seen' = [seen EXCEPT ![f] = "closed"]
      BY <2>2, <2>3
    <3>2. SF!Land(f)
      BY <1>2, <1>9, <2>3, <2>4, <3>1 DEF SF!Land, CleanUp, KeyOf, Seen
    <3> QED
      BY <3>2 DEF SF!Next
  <2>5. CASE ~Held(f)
    <3>1. Seen(f)' = Seen(f)
      BY <2>3, <2>5 DEF Seen
    <3> QED
      BY <1>3, <1>9, <2>2, <3>1 DEF CleanUp
  <2> QED
    BY <2>4, <2>5
<1>10. ASSUME NEW c \in Call, Deliver(c) PROVE SF!Next
  <2>1. rider[c] \in Call /\ rider[c] \in cleared /\ flight[rider[c]] = "settled"
    BY <1>10 DEF Deliver, Structure
  <2>2. Seen(rider[c]) = "closed"
    BY <2>1 DEF Seen, Held, Structure, Boardable
  <2>3. UNCHANGED seen
    BY <1>10 DEF Deliver, Seen, Held, Entry, request, pools
  <2>4. SF!Deliver(c)
    BY <1>2, <1>10, <2>1, <2>2, <2>3 DEF SF!Deliver, SF!Waiting, Deliver, KeyOf, Seen
  <2> QED
    BY <2>4 DEF SF!Next
<1>11. CASE UNCHANGED vars
  BY <1>3, <1>11 DEF vars, Seen, Held, Entry, request, pools
<1> QED
  BY <1>4, <1>5, <1>6, <1>7, <1>8, <1>9, <1>10, <1>11 DEF Next, Run, React, Idle

\* CoalescingOracle implements SingleFlight, for any calls and destinations and
\* whether or not its inner oracle can be cancelled.
THEOREM Refinement == Spec => ImplementsSingleFlight
<1>1. Init => SF!Init
  <2> SUFFICES ASSUME Init PROVE SF!Init
    OBVIOUS
  <2>1. [c \in Call |-> <<dest[c], c \in cancellable>>] \in [Call -> Dest \X BOOLEAN]
    <3>1. ASSUME NEW c \in Call PROVE <<dest[c], c \in cancellable>> \in Dest \X BOOLEAN
      <4>1. dest[c] \in Dest
        BY DEF Init
      <4>2. (c \in cancellable) \in BOOLEAN
        OBVIOUS
      <4> QED
        BY <4>1, <4>2, Zenon
    <3> QED
      BY <3>1
  <2>2. [f \in Call |-> IF flight[f] = "none" THEN "none" ELSE IF Held(f) THEN "open" ELSE "closed"]
          = [f \in Call |-> "none"]
    BY DEF Init
  <2> QED
    BY <2>1, <2>2 DEF Init, SF!Init
<1> QED
  BY <1>1, StepSimulation, Inductive, PTL DEF Spec, SF!Spec, ImplementsSingleFlight

=============================================================================
