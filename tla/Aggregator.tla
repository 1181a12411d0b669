------------------------------- MODULE Aggregator -------------------------------
(***************************************************************************)
(* RiskOracleAggregator (src/src/RiskOracleAggregator.ts): calls that query*)
(* all sources at once, decide as soon as a quorum has answered or cannot  *)
(* be reached any more, and fuse what they have by a reputation-weighted   *)
(* median clamped by order statistics.                                     *)
(*                                                                         *)
(* Reports are integers in tenths of a point, reputations and weights in   *)
(* thousandths; with Alpha = 1000 the arithmetic is that of the code.      *)
(***************************************************************************)
EXTENDS Integers, FiniteSets, Functions

CONSTANTS
  Call,            \* the getScoreDetailed calls
  Source,          \* the labels of this.sources
  Byzantine,       \* the sources that may answer anything
  FaultTolerance,  \* this.faultTolerance
  Quorum,          \* this.quorum
  Alpha,           \* this.reputationAlpha
  MinWeight,       \* this.minWeight
  Report,          \* the finite numbers a source may report
  Pending,         \* the outcome of a source that has not settled
  Failed,          \* the outcome of one that failed
  None,            \* no answer yet
  Rejected         \* with QuorumNotMetError

ASSUME SourceAssumption ==
  /\ IsFiniteSet(Source)
  /\ Byzantine \subseteq Source
  /\ Report \subseteq Int
  /\ Pending \notin Report /\ Failed \notin Report /\ Pending # Failed
ASSUME OptionsAssumption ==
  /\ FaultTolerance \in Nat
  /\ Cardinality(Byzantine) <= FaultTolerance
  /\ Quorum \in 2 * FaultTolerance + 1 .. Cardinality(Source)
  /\ Alpha \in 1 .. 1000
  /\ MinWeight \in 1 .. 1000

VARIABLES
  outcome,     \* how the bounded call of a call to a source has settled
  decided,     \* collectQuorum's promise
  outcomes,    \* what it resolved with
  reputation,  \* this.reputation, 1 (1000 thousandths) until set
  answer       \* the aggregate and its score and dispersion, or Rejected

vars == <<outcome, decided, outcomes, reputation, answer>>

SourceOutcome == Report \cup {Pending, Failed}
Outcomes      == [Source -> SourceOutcome]

TypeOK ==
  /\ outcome \in [Call -> Outcomes]
  /\ outcomes \in [Call -> Outcomes]
  /\ decided \in [Call -> {"no", "met", "notMet"}]
  /\ DOMAIN answer = Call

Unsettled == [s \in Source |-> Pending]

\* Every call has asked every source.
Init ==
  /\ outcome = [c \in Call |-> Unsettled]
  /\ decided = [c \in Call |-> "no"]
  /\ outcomes = [c \in Call |-> Unsettled]
  /\ reputation = [s \in Source |-> 1000]
  /\ answer = [c \in Call |-> None]

Waiting(o)   == {s \in Source : o[s] = Pending}
Failures(o)  == {s \in Source : o[s] = Failed}
Successes(o) == Source \ (Waiting(o) \cup Failures(o))

-----------------------------------------------------------------------------
(* The pure functions, on the reports v of the sources S.                  *)

clamp(x, lo, hi) == LET y == IF x < lo THEN lo ELSE x IN IF y > hi THEN hi ELSE y
Distance(x, y)   == IF x < y THEN y - x ELSE x - y

\* Math.round(clamp(x, 0, 100)), from tenths to points
Rounded(x) == (clamp(x, 0, 1000) + 5) \div 10

\* The reports at position i, from 0, of the sorted reports.
At(S, v, i) == {x \in {v[s] : s \in S} :
                  /\ Cardinality({s \in S : v[s] < x}) <= i
                  /\ i < Cardinality({s \in S : v[s] <= x})}

\* honestOrderBounds.  A mutant trims one report too few.
UntrimmedLow(S, v)  == At(S, v, 0)
Low(S, v)  == At(S, v, FaultTolerance)
High(S, v) == At(S, v, Cardinality(S) - 1 - FaultTolerance)

Weight(s) == 1000 * MinWeight + (1000 - MinWeight) * reputation[s]

\* weightedMedian: the least report at which the weights reach half of all.
WeightUpTo(S, v, x) == SumFunctionOnSet([s \in S |-> Weight(s)], {s \in S : v[s] <= x})
WeightedMedian(S, v) ==
  LET total    == SumFunction([s \in S |-> Weight(s)])
      reaching == {x \in {v[s] : s \in S} : 2 * WeightUpTo(S, v, x) >= total}
  IN {x \in reaching : \A y \in reaching : x <= y}

\* computeDisagreement: a choice of FaultTolerance sources closest to the
\* center to leave out; a mutant leaves out the farthest.
FarthestFrom(S, v, center) ==
  {far \in SUBSET S : /\ Cardinality(far) = FaultTolerance
                      /\ \A s \in far, t \in S \ far :
                           Distance(v[s], center) >= Distance(v[t], center)}
ClosestTo(S, v, center) ==
  {near \in SUBSET S : /\ Cardinality(near) = FaultTolerance
                       /\ \A s \in near, t \in S \ near :
                            Distance(v[s], center) <= Distance(v[t], center)}
DistanceSum(S, v, center) == SumFunction([s \in S |-> Distance(v[s], center)])

-----------------------------------------------------------------------------
\* maybeDecide, and a mutant that gives up a failure too late.
HopelessLate(o) == Cardinality(Successes(o)) + Cardinality(Waiting(o)) < Quorum - 1
Hopeless(o) == Cardinality(Successes(o)) + Cardinality(Waiting(o)) < Quorum

\* The outcomes a decided call keeps; a mutant resolves with the live array.
LiveOutcomes(c, o) == o
KeptOutcomes(c, o) == outcomes[c]

MaybeDecide(c, o) ==
  IF decided[c] # "no"
    THEN /\ outcomes' = [outcomes EXCEPT ![c] = KeptOutcomes(c, o)]
         /\ UNCHANGED <<decided, answer>>
    ELSE IF Cardinality(Successes(o)) >= Quorum
    THEN /\ decided' = [decided EXCEPT ![c] = "met"]
         /\ outcomes' = [outcomes EXCEPT ![c] = o]
         /\ UNCHANGED answer
    ELSE IF Hopeless(o)
    THEN /\ decided' = [decided EXCEPT ![c] = "notMet"]
         /\ answer' = [answer EXCEPT ![c] = Rejected]
         /\ UNCHANGED outcomes
    ELSE UNCHANGED <<decided, outcomes, answer>>

\* A source answers, fails, reports a number that is not finite, or runs into
\* withTimeout's timer; before the decision or after it.
Settles(c, s, result) ==
  LET o == [outcome[c] EXCEPT ![s] = result]
  IN /\ outcome[c][s] = Pending
     /\ result # Pending
     /\ outcome' = [outcome EXCEPT ![c] = o]
     /\ MaybeDecide(c, o)
     /\ UNCHANGED reputation

\* The observation updateReputation takes in.
agreement(o, s, aggregate) ==
  IF s \notin Successes(o) THEN 0 ELSE 1000 - clamp(Distance(o[s], aggregate), 0, 1000)

\* The sources updateReputation goes through.
Judged(o) == Source \ Waiting(o)

UpdateReputation(o, aggregate) ==
  reputation' = [s \in Source |->
    IF s \in Judged(o)
      THEN (Alpha * agreement(o, s, aggregate) + (1000 - Alpha) * reputation[s]) \div 1000
      ELSE reputation[s]]

\* getScoreDetailed resumes after collectQuorum.
Fuse(c) ==
  LET o == outcomes[c]
      S == Successes(o)
  IN /\ decided[c] = "met"
     /\ answer[c] = None
     /\ \E estimate \in WeightedMedian(S, o), lo \in Low(S, o), hi \in High(S, o) :
        LET aggregate == clamp(estimate, lo, hi) IN
          /\ \E near \in ClosestTo(S, o, aggregate) :
               answer' = [answer EXCEPT ![c] =
                 [aggregate |-> aggregate,
                  score     |-> Rounded(aggregate),
                  distance  |-> DistanceSum(S \ near, o, aggregate),
                  kept      |-> Cardinality(S \ near)]]
          /\ UpdateReputation(o, aggregate)
     /\ UNCHANGED <<outcome, decided, outcomes>>

Done == /\ \A c \in Call : answer[c] # None /\ Waiting(outcome[c]) = {}
        /\ UNCHANGED vars

SourceSettles(c, s) == \E result \in Report \cup {Failed} : Settles(c, s, result)

Next ==
  \/ \E c \in Call : Fuse(c) \/ \E s \in Source : SourceSettles(c, s)
  \/ Done

Spec == Init /\ [][Next]_vars

-----------------------------------------------------------------------------
(* Properties                                                              *)

Fused(c) == answer[c] \notin {None, Rejected}
Honest(c) == Successes(outcomes[c]) \ Byzantine

\* The honest-range bound: whatever up to FaultTolerance sources report and
\* whatever trust they have earned, the score lies between two honest reports.
HonestRange ==
  \A c \in Call : Fused(c) =>
    \E s, t \in Honest(c) : /\ Rounded(outcomes[c][s]) <= answer[c].score
                            /\ answer[c].score <= Rounded(outcomes[c][t])

\* Confidence cannot be inflated: the dispersion it is computed from is at
\* least the average distance of the honest reports from the aggregate.
DisagreementNotHidden ==
  \A c \in Call : Fused(c) =>
    answer[c].distance * Cardinality(Honest(c))
      >= DistanceSum(Honest(c), outcomes[c], answer[c].aggregate) * answer[c].kept

\* A call is decided at the first moment it can be, so none hangs once its
\* sources have settled: while it is not, a quorum is missing but possible.
\* It is given up only when so many have failed that no quorum is left.
DecidedAtOnce ==
  \A c \in Call :
    /\ decided[c] = "no" =>
         /\ Cardinality(Successes(outcome[c])) < Quorum
         /\ Cardinality(Successes(outcome[c])) + Cardinality(Waiting(outcome[c])) >= Quorum
    /\ decided[c] = "notMet" => Cardinality(Source \ Failures(outcome[c])) < Quorum

\* Answers that arrive after the decision do not count: a call fuses the
\* reports of exactly a quorum.
QuorumCounted ==
  \A c \in Call : decided[c] = "met" => Cardinality(Successes(outcomes[c])) = Quorum

=============================================================================
