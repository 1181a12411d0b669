------------------------------ MODULE GreedyDual ------------------------------
(***************************************************************************)
(* The eviction policy withCache promises (src/src/middleware/withCache.ts,*)
(* "Eviction: a GreedyDual adaptation"), free of heap nodes and versions:  *)
(* a resident is worth the clock at its last access plus its credit, the   *)
(* least valuable one is evicted, and the clock moves up to its value.     *)
(***************************************************************************)
EXTENDS Naturals, FiniteSets

CONSTANTS
  Dest,        \* what can be resident
  Credit,      \* the products costMs * confidence
  MaxEntries

VARIABLES
  resident,
  h,           \* the value of each resident, 0 for the others
  clockL

vars == <<resident, h, clockL>>

TypeOK ==
  /\ resident \in SUBSET Dest
  /\ h \in [Dest -> Nat]
  /\ clockL \in Nat

Init ==
  /\ resident = {}
  /\ h = [d \in Dest |-> 0]
  /\ clockL = 0

\* The values after an access to d.
Valued(d, credit) == [h EXCEPT ![d] = clockL + credit]

HasRoom == Cardinality(resident) < MaxEntries

\* The members of S to evict by their values.
LeastValuable(S, value) == {v \in S : \A r \in S : value[v] <= value[r]}

Access(d, credit) ==
  /\ d \in resident
  /\ h' = Valued(d, credit)
  /\ UNCHANGED <<resident, clockL>>

Insert(d, credit) ==
  /\ d \notin resident
  /\ HasRoom
  /\ resident' = resident \cup {d}
  /\ h' = Valued(d, credit)
  /\ UNCHANGED clockL

\* d itself may be the least valuable.
InsertEvicting(d, credit) ==
  /\ d \notin resident
  /\ ~HasRoom
  /\ \E victim \in LeastValuable(resident \cup {d}, Valued(d, credit)) :
       /\ resident' = (resident \cup {d}) \ {victim}
       /\ h' = [Valued(d, credit) EXCEPT ![victim] = 0]
       /\ clockL' = Valued(d, credit)[victim]

Next == \E d \in Dest, credit \in Credit :
          Access(d, credit) \/ Insert(d, credit) \/ InsertEvicting(d, credit)

Spec == Init /\ [][Next]_vars

\* No resident is worth less than the clock: what has been evicted so far was
\* never worth more than anything that is still there.
ClockIsFloor == \A d \in resident : clockL <= h[d]

\* The clock never runs backwards.
ClockMonotone == [][clockL <= clockL']_vars

\* The residents never exceed the capacity.
WithinCapacity == Cardinality(resident) <= MaxEntries

=============================================================================
