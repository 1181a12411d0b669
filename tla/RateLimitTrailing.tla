--------------------------- MODULE RateLimitTrailing ---------------------------
(***************************************************************************)
(* RateLimit with the time of every admission on record, to compare the    *)
(* bucketed window with the trailing window of windowMs that the options   *)
(* describe.                                                               *)
(***************************************************************************)
EXTENDS RateLimit

VARIABLE admittedAt   \* history: the combined admissions of each tick

Time == 0 .. MaxTime

TrailingInit == Init /\ admittedAt = [t \in Time |-> 0]

TrailingNext ==
  /\ Next
  /\ admittedAt' = IF admitted' = admitted THEN admittedAt
                                           ELSE [admittedAt EXCEPT ![now] = @ + 1]

TrailingSpec == TrailingInit /\ [][TrailingNext]_<<vars, admittedAt>>

\* withRateLimit.ts:261, Bound 1, "combined admissions in any trailing window
\* <= N * budget", and :57, "within any trailing windowMs window".
TrailingWindowBound ==
  \A t \in Time :
    SumFunctionOnSet(admittedAt, {u \in Time : u > t - WindowMs /\ u <= t})
      <= Cardinality(Context) * Budget

=============================================================================
