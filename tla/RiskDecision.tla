----------------------------- MODULE RiskDecision -----------------------------
(***************************************************************************)
(* src/src/RiskDecision.ts, validateRiskDecision.ts and the way back to a  *)
(* number, legacy/numericAdapter.ts.  Pure.                                *)
(*                                                                         *)
(* The unknown value a validator is given is the sequence of its layers:   *)
(* layer i + 1 is the `underlying` of layer i, and a layer is a record of  *)
(* the fields an outcome may have.  A time or score that is undefined is   *)
(* Absent, one that is no number at all is out of its range, as -1 is.     *)
(***************************************************************************)
EXTENDS Integers, Sequences

CONSTANTS
  MaxSkew,        \* options.maxClockSkewMs
  MaxDepth,       \* options.maxDepth
  AcceptDegraded  \* options.acceptDegraded

ASSUME DecisionAssumption ==
  MaxSkew \in Nat /\ MaxDepth \in Nat /\ AcceptDegraded \in BOOLEAN

Absent == -2
SchemaVersion == 1
RiskDecisionOutcome ==
  {"verified", "unscored", "degraded", "policy-blocked", "unavailable", "incompatible"}

\* The fields of a layer, once those of one kind are taken together: `strings`
\* tells of the ones its outcome has, `numbers` of confidence and the like.
Layer ==
  [isObject : BOOLEAN, schemaVersion : Int, outcome : STRING, strings : BOOLEAN,
   observedAt : Int, score : Int, numbers : BOOLEAN, expiresAt : Int, evidenceAt : Int]

isScoredRiskDecision(layer) == layer.outcome \in {"verified", "degraded"}

\* What the compiler holds a producer of the type RiskDecision to: fields that
\* are there, not values that make sense.
IsRiskDecision(layer) ==
  /\ layer.isObject /\ layer.schemaVersion = SchemaVersion
  /\ layer.outcome \in RiskDecisionOutcome
  /\ layer.observedAt # Absent
  /\ isScoredRiskDecision(layer) <=> layer.score # Absent
  /\ layer.outcome = "degraded" => layer.evidenceAt # Absent

requireTimestamp(t, now) == t >= 0 /\ t <= now + MaxSkew

\* Mutant: a sign check, as for any other time.
EvidenceAnyTime(layer)  == layer.evidenceAt >= 0
EvidenceObserved(layer) == layer.evidenceAt <= layer.observedAt + MaxSkew

\* The checks on the fields of one layer after that of its schema version.
FieldsValid(layer, now) ==
  /\ layer.outcome \in RiskDecisionOutcome
  /\ layer.strings /\ layer.numbers
  /\ requireTimestamp(layer.observedAt, now)
  /\ IF isScoredRiskDecision(layer) THEN layer.score \in 0 .. 100 ELSE layer.score = Absent
  /\ layer.outcome = "verified" /\ layer.expiresAt # Absent =>
       requireTimestamp(layer.expiresAt, now)
  /\ layer.outcome = "degraded" =>
       /\ requireTimestamp(layer.evidenceAt, now)
       /\ EvidenceObserved(layer)

\* What a policy may be applied to: not another policy's decision.
MayUnderlie(layer) == isScoredRiskDecision(layer) \/ layer.outcome = "unscored"

\* validateAtDepth of layer i: "valid", or the error it throws; `underlying`
\* is how the layer below ends.  Only a policy's decision has a look at it.
validateAtDepth(input, i, now, underlying) ==
  IF ~ input[i].isObject THEN "malformed"
  ELSE IF input[i].schemaVersion # SchemaVersion THEN "incompatible"
  ELSE IF ~ FieldsValid(input[i], now) THEN "malformed"
  ELSE IF input[i].outcome # "policy-blocked" \/ i = Len(input) THEN "valid"
  ELSE IF i > MaxDepth THEN "malformed"
  ELSE IF underlying = "incompatible" THEN "incompatible"
  ELSE IF underlying = "valid" /\ MayUnderlie(input[i + 1]) THEN "valid"
  ELSE "malformed"

validateRiskDecision(input, now) ==
  LET below[i \in 1 .. Len(input)] ==
        IF i = Len(input) THEN "none"
        ELSE validateAtDepth(input, i + 1, now, below[i + 1])
  IN  validateAtDepth(input, 1, now, below[1])

\* toLegacyScore: "score", whatever number that is, or the error it throws.
toLegacyScore(layer) ==
  CASE layer.outcome = "verified"       -> "score"
    [] layer.outcome = "degraded"       -> IF AcceptDegraded THEN "score" ELSE "incompatible"
    [] layer.outcome = "unscored"       -> "unrecognized"
    [] layer.outcome = "policy-blocked" -> "incompatible"
    [] layer.outcome = "unavailable"    -> "unavailable"
    [] layer.outcome = "incompatible"   -> "incompatible"
=============================================================================
