----------------------------- MODULE SingleFlight -----------------------------
(***************************************************************************)
(* What request coalescing promises, without saying how: calls for the     *)
(* same key share a flight while one is open to them, an open flight is    *)
(* the only one for its key, and a flight is given up before its time only *)
(* when nobody is left on it.  A flight is named after the call that       *)
(* started it.                                                             *)
(***************************************************************************)
CONSTANTS Call, Key, None

VARIABLES
  key,      \* what each call asks for
  flight,   \* flight[f]: "none", "open" to more callers, or "closed"
  rider,    \* the flight each call is on, or None
  answer    \* None, "cancelled", "failed" or the flight whose outcome it got

vars == <<key, flight, rider, answer>>

Init ==
  /\ key \in [Call -> Key]
  /\ flight = [c \in Call |-> "none"]
  /\ rider = [c \in Call |-> None]
  /\ answer = [c \in Call |-> None]

Waiting(c) == rider[c] # None /\ answer[c] = None
Fresh(c)   == rider[c] = None /\ answer[c] = None

OpenFor(k) == {f \in Call : flight[f] = "open" /\ key[f] = k}

Join(c) ==
  /\ Fresh(c)
  /\ \E f \in OpenFor(key[c]) : rider' = [rider EXCEPT ![c] = f]
  /\ UNCHANGED <<key, flight, answer>>

Start(c) ==
  /\ Fresh(c)
  /\ OpenFor(key[c]) = {}
  /\ flight' = [flight EXCEPT ![c] = "open"]
  /\ rider' = [rider EXCEPT ![c] = c]
  /\ UNCHANGED <<key, answer>>

\* A call that never boards: cancelled before it starts, or the source fails.
Refuse(c) ==
  /\ Fresh(c)
  /\ \E a \in {"cancelled", "failed"} : answer' = [answer EXCEPT ![c] = a]
  /\ UNCHANGED <<key, flight, rider>>

\* A caller loses interest; the last one may close the flight behind it.
Leave(c) ==
  LET f == rider[c] IN
  /\ Waiting(c)
  /\ answer' = [answer EXCEPT ![c] = "cancelled"]
  /\ \/ UNCHANGED flight
     \/ /\ \A d \in Call \ {c} : rider[d] = f => ~Waiting(d)
        /\ flight' = [flight EXCEPT ![f] = "closed"]
  /\ UNCHANGED <<key, rider>>

Land(f) ==
  /\ flight[f] = "open"
  /\ flight' = [flight EXCEPT ![f] = "closed"]
  /\ UNCHANGED <<key, rider, answer>>

Deliver(c) ==
  /\ Waiting(c)
  /\ flight[rider[c]] = "closed"
  /\ answer' = [answer EXCEPT ![c] = rider[c]]
  /\ UNCHANGED <<key, flight, rider>>

Next == \E c \in Call : Join(c) \/ Start(c) \/ Refuse(c) \/ Leave(c) \/ Land(c) \/ Deliver(c)

Spec == Init /\ [][Next]_vars

=============================================================================
