---------------------------- MODULE Lookup_proofs ----------------------------
(***************************************************************************)
(* What is told at the end of a lookup, for every configuration that the   *)
(* constructor accepts, every clock offset and every chain; and what is    *)
(* asked at its start, for every length of keys and of subaccount ids.     *)
(*                                                                         *)
(* The second part is the theory of the codec: registers of the checksum   *)
(* are compared bit by bit, forwards from the first bit that differs and   *)
(* back from what is stored.  Induction is over sets of natural numbers.   *)
(***************************************************************************)
EXTENDS Lookup, WellFoundedInduction, SequenceTheorems, TLAPS

\* A caller that has not been answered has been told nothing.
NothingToldYet ==
  phase # "done" => result = "pending" /\ cacheStatus = "none" /\ journal = <<>>

\* The response's numbers are numbers, whatever they claim.
Numeric(r) == r.sequence \in Int /\ r.latestSeen \in Int

Told == ScoreIsFinal /\ LiveIsRecent /\ FailsClosed /\ AuditMatches

IInv == TypeOK /\ NothingToldYet /\ Numeric(response) /\ Told

-----------------------------------------------------------------------------
\* Least numbers and steps.

\* A set of natural numbers has a least one.
LEMMA LeastNat ==
  ASSUME NEW T, T \subseteq Nat, T # {}
  PROVE  \E q \in T : \A x \in T : q <= x
<1> DEFINE R == OpToRel(<, Nat)
<1>1. IsWellFoundedOn(R, Nat)
  BY NatLessThanWellFounded
<1>2. PICK q \in T : \A x \in T : ~ (<<x, q>> \in R)
  <2> HIDE DEF R
  <2> QED
    BY <1>1, WFMin
<1>3. \A x \in T : ~ (x < q)
  BY <1>2 DEF OpToRel
<1> QED
  BY <1>3

\* What holds of 0 and of the successor of whatever it holds of holds of all
\* natural numbers.
LEMMA NatSteps ==
  ASSUME NEW Good, 0 \in Good, \A n \in Nat : n \in Good => n + 1 \in Good
  PROVE  Nat \subseteq Good
<1> SUFFICES ASSUME Nat \ Good # {} PROVE FALSE
  OBVIOUS
<1>1. PICK n \in Nat \ Good : \A x \in Nat \ Good : n <= x
  <2>1. Nat \ Good \subseteq Nat
    OBVIOUS
  <2> QED
    BY <2>1, LeastNat
<1>2. n # 0 /\ n - 1 \in Nat /\ n = (n - 1) + 1
  OBVIOUS
<1>3. n - 1 \in Good
  BY <1>1, <1>2
<1> QED
  BY <1>2, <1>3

-----------------------------------------------------------------------------
\* Whatever a node answers, the truth or not, has numbers for ledgers.
LEMMA ResponsesNumeric ==
  ASSUME closedAt \in Seq(Nat), NEW r \in Responses
  PROVE  Numeric(r)
<1>1. PICK s \in 1 .. Height, l \in 0 .. Height :
        LET good == Report(s, l) IN r = good \/ r \in Wrong(good) \/ r \in MadeUp(good)
  BY DEF Responses
<1> DEFINE good == Report(s, l)
<1>2. Height \in Nat /\ config.minConfirmations \in Int
  BY PolicyAssumption DEF Height
<1>3. Numeric(good)
  BY <1>2 DEF Report, Numeric
<1>4. CASE r \in Wrong(good)
  <2>1. \A v : /\ Numeric([good EXCEPT !.interfaceVersion = v]) /\ Numeric([good EXCEPT !.networkPassphrase = v])
              /\ Numeric([good EXCEPT !.contractId = v]) /\ Numeric([good EXCEPT !.variant = v])
              /\ Numeric([good EXCEPT !.score = v]) /\ Numeric([good EXCEPT !.closeTime = v])
    BY <1>3 DEF Report, Numeric
  <2>2. Numeric([good EXCEPT !.sequence = 0 - 1]) /\ Numeric([good EXCEPT !.latestSeen = 0 - 1])
    BY <1>3 DEF Report, Numeric
  <2>3. \/ \E v : \/ r = [good EXCEPT !.interfaceVersion = v] \/ r = [good EXCEPT !.networkPassphrase = v]
                \/ r = [good EXCEPT !.contractId = v] \/ r = [good EXCEPT !.variant = v]
                \/ r = [good EXCEPT !.score = v] \/ r = [good EXCEPT !.closeTime = v]
        \/ r = [good EXCEPT !.sequence = 0 - 1] \/ r = [good EXCEPT !.latestSeen = 0 - 1]
    <3> HIDE DEF good
    <3> QED
      BY <1>4 DEF Wrong
  <2> HIDE DEF good
  <2> QED
    BY <2>1, <2>2, <2>3, Zenon
<1>5. CASE r \in MadeUp(good)
  <2>1. \A v \in Int : Numeric([good EXCEPT !.sequence = v]) /\ Numeric([good EXCEPT !.latestSeen = v])
    BY <1>3 DEF Report, Numeric
  <2>2. \A v : Numeric([good EXCEPT !.closeTime = v])
    BY <1>3 DEF Report, Numeric
  <2>3. Height + 1 \in Int /\ Height + config.minConfirmations \in Int
    BY <1>2
  <2> HIDE DEF good
  <2> QED
    BY <1>5, <2>1, <2>2, <2>3, Zenon DEF MadeUp
<1> QED
  BY <1>1, <1>3, <1>4, <1>5

\* Only a response that has passed every check is answered with its score.
LEMMA ScoreResolved ==
  ASSUME NEW r, Resolve(r) = "score"
  PROVE  ~ (observedConfirmations(r) < config.minConfirmations)
BY DEF Resolve

\* What a lookup that ended in this way may leave behind in the trail.
TrailOf(how, told_, trail) ==
  \/ trail = <<IF told_ = "score" THEN "success" ELSE "error">>
  \/ told_ = "LoggerError" /\ trail \in {<<>>, <<"error">>}
  \/ told_ = "LoggerError" /\ trail \in {<<"success">>, <<"success", "error">>} /\ how = "score"

\* A record after a record.
LEMMA TwoRecords == Append(<<"success">>, "error") = <<"success", "error">>
<1> DEFINE S    == {"success", "error"}
           one  == <<"success">>
           both == Append(<<"success">>, "error")
           two  == <<"success", "error">>
<1>1. one \in Seq(S) /\ "error" \in S /\ two \in Seq(S)
  OBVIOUS
<1>2. Len(one) = 1 /\ one[1] = "success" /\ Len(two) = 2 /\ two[1] = "success" /\ two[2] = "error"
  OBVIOUS
<1>3. /\ both \in Seq(S) /\ Len(both) = Len(one) + 1 /\ both[Len(one) + 1] = "error"
      /\ \A i \in 1 .. Len(one) : both[i] = one[i]
  BY <1>1, AppendProperties, Zenon
<1>4. Len(both) = 2 /\ both[1] = "success" /\ both[2] = "error"
  BY <1>2, <1>3
<1> HIDE DEF both, two, S
<1>5. \A i \in 1 .. Len(both) : both[i] = two[i]
  BY <1>2, <1>4
<1>6. both = two
  BY <1>1, <1>2, <1>3, <1>4, <1>5, SeqEqual, Zenon
<1> QED
  BY <1>6 DEF both, two

\* What Settle makes of the way the oracle's promise settled.
LEMMA Settlement ==
  ASSUME NEW how, how \notin {"LoggerError", "pending"}, journal = <<>>, Settle(how)
  PROVE  /\ phase' = "done" /\ result' \in {how, "LoggerError"}
         /\ cacheStatus' = IF result' # "score" THEN "none"
                           ELSE IF kind \in Adapted THEN "unknown" ELSE CacheStatus(response')
         /\ kind # "cancellable" => TrailOf(how, result', journal')
<1>1. CASE kind = "cancellable"
  BY <1>1 DEF Settle, Answer
<1>2. CASE kind # "cancellable" /\ journal' = Append(journal, Trail(how)) /\ Answer(how)
  <2>1. journal' = <<IF how = "score" THEN "success" ELSE "error">>
    BY <1>2 DEF Trail
  <2> QED
    BY <1>2, <2>1 DEF Answer, TrailOf
<1>3. ASSUME kind # "cancellable", Answer("LoggerError"),
             NEW trail \in (IF how = "score" THEN Attempt(journal, "success") ELSE {journal}),
             journal' \in Attempt(trail, "error")
      PROVE  TrailOf(how, result', journal')
  <2>1. result' = "LoggerError" /\ journal' \in {trail, Append(trail, "error")}
    BY <1>3 DEF Answer, Attempt
  <2>2. trail = <<>> \/ (trail = <<"success">> /\ how = "score")
    BY <1>3 DEF Attempt
  <2>3. /\ trail = <<>> => journal' \in {<<>>, <<"error">>}
        /\ trail = <<"success">> => journal' \in {<<"success">>, <<"success", "error">>}
    <3>1. Append(<<>>, "error") = <<"error">>
      OBVIOUS
    <3> QED
      BY <2>1, <3>1, TwoRecords, Zenon
  <2> QED
    BY <2>1, <2>2, <2>3 DEF TrailOf
<1>4. CASE /\ kind # "cancellable" /\ Answer("LoggerError")
           /\ \E trail \in (IF how = "score" THEN Attempt(journal, "success") ELSE {journal}) :
                journal' \in Attempt(trail, "error")
  <2>1. TrailOf(how, result', journal')
    BY <1>3, <1>4
  <2> QED
    BY <1>4, <2>1 DEF Answer
<1> QED
  BY <1>1, <1>2, <1>4 DEF Settle, Audit

-----------------------------------------------------------------------------
\* What the validator calls valid has been checked as a layer of its own.
LEMMA ValidLayer ==
  ASSUME NEW input, NEW t, validateRiskDecision(input, t) = "valid"
  PROVE  input[1].isObject /\ input[1].schemaVersion = SchemaVersion /\ FieldsValid(input[1], t)
BY DEF validateRiskDecision, validateAtDepth

\* Evidence under a policy's decision is evidence: no veto hides another one.
THEOREM VetoOutermost ==
  ASSUME NEW input, NEW t, validateRiskDecision(input, t) = "valid",
         input[1].outcome = "policy-blocked", Len(input) # 1
  PROVE  isScoredRiskDecision(input[2]) \/ input[2].outcome = "unscored"
BY DEF validateRiskDecision, validateAtDepth, MayUnderlie

\* The validator's recursion has a solution, from the innermost layer outwards.
LEMMA BelowExists ==
  ASSUME NEW input, NEW n \in Nat \ {0}, NEW t
  PROVE  \E below : below = [i \in 1 .. n |-> IF i = n THEN "none"
                                              ELSE validateAtDepth(input, i + 1, t, below[i + 1])]
<1> DEFINE Solves(g, m) == g = [i \in n - m .. n |-> IF i = n THEN "none"
                                                     ELSE validateAtDepth(input, i + 1, t, g[i + 1])]
           Good == {m \in Nat : m < n => \E g : Solves(g, m)}
<1>1. 0 \in Good
  <2>1. \A i \in n - 0 .. n : i = n
    OBVIOUS
  <2>2. Solves([i \in n - 0 .. n |-> "none"], 0)
    BY <2>1
  <2> QED
    BY <2>2
<1>2. ASSUME NEW m \in Nat, m \in Good PROVE m + 1 \in Good
  <2> SUFFICES ASSUME m + 1 < n PROVE \E g : Solves(g, m + 1)
    OBVIOUS
  <2>1. PICK g : Solves(g, m)
    BY <1>2
  <2> DEFINE k == n - (m + 1)
             h == [i \in k .. n |-> IF i = k THEN validateAtDepth(input, i + 1, t, g[i + 1]) ELSE g[i]]
  <2>2. /\ k \in Nat /\ k < n /\ n - m = k + 1
        /\ \A i \in k .. n : i \in Int /\ (i # k => i \in k + 1 .. n) /\ (i # n => i + 1 \in k .. n /\ i + 1 # k)
    OBVIOUS
  <2> HIDE DEF k
  <2>3. \A i \in k + 1 .. n : g[i] = IF i = n THEN "none" ELSE validateAtDepth(input, i + 1, t, g[i + 1])
    BY <2>1, <2>2
  <2>4. \A i \in k + 1 .. n : h[i] = g[i]
    BY <2>2
  <2>5. h = [i \in k .. n |-> IF i = n THEN "none" ELSE validateAtDepth(input, i + 1, t, h[i + 1])]
    <3>1. ASSUME NEW i \in k .. n
          PROVE  h[i] = IF i = n THEN "none" ELSE validateAtDepth(input, i + 1, t, h[i + 1])
      <4>1. i # n => i + 1 \in k + 1 .. n /\ h[i + 1] = g[i + 1]
        BY <2>2, <2>4
      <4>2. i # k => i \in k + 1 .. n
        BY <2>2
      <4>3. CASE i = k
        BY <2>2, <4>1, <4>3
      <4>4. CASE i # k
        BY <2>3, <2>4, <4>1, <4>2, <4>4
      <4> QED
        BY <4>3, <4>4
    <3> QED
      BY <3>1, Zenon
  <2> QED
    BY <2>5 DEF k
<1> HIDE DEF Good
<1>3. n - 1 \in Good
  BY <1>1, <1>2, NatSteps
<1>4. PICK g : Solves(g, n - 1)
  BY <1>3 DEF Good
<1>5. n - (n - 1) = 1
  OBVIOUS
<1> QED
  BY <1>4, <1>5

\* A schema is refused only if some layer has another one: nothing else that is
\* wrong with a decision passes for that.
LEMMA OtherSchema ==
  ASSUME NEW input, Len(input) \in Nat \ {0}, NEW t, validateRiskDecision(input, t) = "incompatible"
  PROVE  \E i \in 1 .. Len(input) : input[i].schemaVersion # SchemaVersion
<1> SUFFICES ASSUME \A i \in 1 .. Len(input) : input[i].schemaVersion = SchemaVersion
             PROVE  FALSE
  OBVIOUS
<1> DEFINE n == Len(input)
           below == CHOOSE b : b = [i \in 1 .. n |-> IF i = n THEN "none"
                                                    ELSE validateAtDepth(input, i + 1, t, b[i + 1])]
<1>1. below = [i \in 1 .. n |-> IF i = n THEN "none" ELSE validateAtDepth(input, i + 1, t, below[i + 1])]
  BY BelowExists
<1>2. validateAtDepth(input, 1, t, below[1]) = "incompatible"
  BY DEF validateRiskDecision
<1> HIDE DEF below
<1>3. ASSUME NEW i \in 1 .. n, NEW b, validateAtDepth(input, i, t, b) = "incompatible"
      PROVE  b = "incompatible"
  BY <1>3 DEF validateAtDepth
<1> DEFINE Good == {m \in Nat : m < n => below[m + 1] = "incompatible"}
<1>4. 0 \in Good
  BY <1>2, <1>3
<1>5. ASSUME NEW m \in Nat, m \in Good PROVE m + 1 \in Good
  <2> SUFFICES ASSUME m + 1 < n PROVE below[(m + 1) + 1] = "incompatible"
    OBVIOUS
  <2>1. below[m + 1] = "incompatible" /\ m + 1 \in 1 .. n /\ m + 1 # n /\ (m + 1) + 1 \in 1 .. n
    BY <1>5
  <2>2. below[m + 1] = validateAtDepth(input, (m + 1) + 1, t, below[(m + 1) + 1])
    BY <1>1, <2>1
  <2> QED
    BY <1>3, <2>1, <2>2
<1> HIDE DEF Good
<1>6. n - 1 \in Good
  BY <1>4, <1>5, NatSteps
<1>7. below[(n - 1) + 1] = "incompatible" /\ (n - 1) + 1 = n
  BY <1>6 DEF Good
<1>8. below[n] = "none"
  BY <1>1
<1> QED
  BY <1>7, <1>8

\* A producer's answer ends as a number or an error of its own: a number only of
\* an outcome that has one, and no number only for one of four reasons.
LEMMA ScoreConverted ==
  ASSUME NEW layer, layer.outcome \in RiskDecisionOutcome
  PROVE  /\ toLegacyScore(layer) \in {"score", "incompatible", "unrecognized", "unavailable"}
         /\ toLegacyScore(layer) = "score" =>
              layer.outcome = "verified" \/ (layer.outcome = "degraded" /\ AcceptDegraded)
         /\ toLegacyScore(layer) = "incompatible" =>
              layer.outcome \in {"degraded", "policy-blocked", "incompatible"}
BY DEF toLegacyScore, RiskDecisionOutcome

\* A scored layer that has been checked is sound evidence: a time that is not
\* there is not from the future either.
LEMMA ScoredSound ==
  ASSUME NEW layer \in Layer, DateNow \in Int, FieldsValid(layer, DateNow), isScoredRiskDecision(layer),
         layer.isObject, layer.schemaVersion = SchemaVersion
  PROVE  SoundEvidence(layer)
<1>1. layer.observedAt \in Int /\ layer.expiresAt \in Int /\ MaxSkew \in Int
  BY DecisionAssumption DEF Layer
<1>2. layer.observedAt >= 0 /\ layer.observedAt <= DateNow + MaxSkew /\ layer.score \in 0 .. 100
  BY DEF FieldsValid, requireTimestamp
<1>3. ASSUME layer.outcome = "verified" PROVE layer.expiresAt <= DateNow + MaxSkew
  <2>1. CASE layer.expiresAt # Absent
    BY <1>3, <2>1 DEF FieldsValid, requireTimestamp
  <2>2. CASE layer.expiresAt = Absent
    BY <1>1, <1>2, <2>2 DEF Absent
  <2> QED
    BY <2>1, <2>2
<1>4. layer.outcome = "degraded" =>
        layer.evidenceAt <= DateNow + MaxSkew /\ layer.evidenceAt <= layer.observedAt + MaxSkew
  BY DEF FieldsValid, requireTimestamp, EvidenceObserved
<1> QED
  BY <1>2, <1>3, <1>4 DEF SoundEvidence

\* The last part of FailsClosed: a decision without an honest number is said to
\* be one only if it is what it claims.
LEMMA Incompatible ==
  ASSUME NEW input, input[1] \in Layer, DateNow \in Int,
         validateRiskDecision(input, DateNow) = "valid", toLegacyScore(input[1]) = "incompatible"
  PROVE  \/ HonestVeto(input) \/ input[1].outcome = "incompatible"
         \/ input[1].outcome = "degraded" /\ SoundEvidence(input[1])
<1>1. /\ input[1].isObject /\ input[1].schemaVersion = SchemaVersion
      /\ FieldsValid(input[1], DateNow)
  BY ValidLayer
<1>2. input[1].outcome \in {"degraded", "policy-blocked", "incompatible"}
  BY <1>1, ScoreConverted DEF FieldsValid
<1>3. CASE input[1].outcome = "degraded"
  BY <1>1, <1>3, ScoredSound DEF isScoredRiskDecision
<1>4. CASE input[1].outcome = "policy-blocked"
  BY <1>4, VetoOutermost DEF HonestVeto, isScoredRiskDecision
<1> QED
  BY <1>2, <1>3, <1>4

\* However the adapter settles on what the producer has, it fails closed.
LEMMA Converted ==
  ASSUME kind \in Adapted, NEW input \in Seq(Layer) \ {<<>>}, DateNow \in Int,
         kind = "legacy" => IsRiskDecision(input[1])
  PROVE  LET how == toLegacyRiskOracle(input)
         IN  /\ how \notin {"LoggerError", "pending"}
             /\ how = "score" =>
                  input[1].outcome = "verified" \/ (input[1].outcome = "degraded" /\ AcceptDegraded)
             /\ how = "score" /\ kind = "validated" => SoundEvidence(input[1])
             /\ how = "incompatible" /\ kind = "validated" =>
                  \/ \E i \in 1 .. Len(input) : input[i].schemaVersion # SchemaVersion
                  \/ HonestVeto(input)
                  \/ input[1].outcome = "incompatible"
                  \/ input[1].outcome = "degraded" /\ SoundEvidence(input[1])
<1> DEFINE how == toLegacyRiskOracle(input)
           verdict == validateRiskDecision(input, DateNow)
<1>0. Len(input) \in Nat \ {0} /\ input[1] \in Layer
  OBVIOUS
<1>1. CASE kind = "legacy"
  <2>1. how = toLegacyScore(input[1]) /\ input[1].outcome \in RiskDecisionOutcome
    BY <1>1 DEF toLegacyRiskOracle, IsRiskDecision
  <2> QED
    BY <1>1, <2>1, ScoreConverted
<1>2. CASE kind = "validated" /\ verdict # "valid"
  <2>1. how = verdict /\ verdict \in {"malformed", "incompatible"}
    BY <1>2 DEF toLegacyRiskOracle, validateRiskDecision, validateAtDepth
  <2> QED
    BY <1>0, <2>1, OtherSchema
<1>3. CASE kind = "validated" /\ verdict = "valid"
  <2>1. how = toLegacyScore(input[1])
    BY <1>3 DEF toLegacyRiskOracle
  <2>2. input[1].isObject /\ input[1].schemaVersion = SchemaVersion /\ FieldsValid(input[1], DateNow)
    BY <1>3, ValidLayer
  <2>3. input[1].outcome \in RiskDecisionOutcome
    BY <2>2 DEF FieldsValid
  <2>4. /\ how \in {"score", "incompatible", "unrecognized", "unavailable"}
        /\ how = "score" =>
             input[1].outcome = "verified" \/ (input[1].outcome = "degraded" /\ AcceptDegraded)
    BY <2>1, <2>3, ScoreConverted
  <2>5. how = "score" => SoundEvidence(input[1])
    BY <1>0, <2>2, <2>4, ScoredSound DEF isScoredRiskDecision
  <2>6. how = "incompatible" =>
          \/ HonestVeto(input) \/ input[1].outcome = "incompatible"
          \/ input[1].outcome = "degraded" /\ SoundEvidence(input[1])
    BY <1>0, <1>3, <2>1, Incompatible
  <2> QED
    BY <2>4, <2>5, <2>6
<1> QED
  BY <1>1, <1>2, <1>3 DEF Adapted

-----------------------------------------------------------------------------
\* A step that tells the caller nothing keeps what has been established.
LEMMA Untold ==
  ASSUME IInv, phase # "done", phase' # "done", UNCHANGED <<kind, told>>
  PROVE  NothingToldYet' /\ Told'
BY DEF IInv, NothingToldYet, Told, ScoreIsFinal, LiveIsRecent, FailsClosed, AuditMatches, told

\* A settlement with an error that says nothing of a decision is no score, and
\* is recorded as an error.
LEMMA Failure ==
  ASSUME IInv, phase # "done", kind' = kind,
         NEW how, how \notin {"LoggerError", "pending", "score", "incompatible"}, Settle(how)
  PROVE  NothingToldYet' /\ Told'
<1>1. journal = <<>>
  BY DEF IInv, NothingToldYet
<1>2. /\ phase' = "done" /\ result' \notin {"score", "incompatible"} /\ cacheStatus' = "none"
      /\ kind # "cancellable" => TrailOf(how, result', journal')
  BY <1>1, Settlement
<1> QED
  BY <1>2 DEF TrailOf, NothingToldYet, Told, ScoreIsFinal, LiveIsRecent, FailsClosed, AuditMatches

\* What is told when a response arrives.
LEMMA Delivered ==
  ASSUME IInv, Deliver
  PROVE  NothingToldYet' /\ Told'
<1> DEFINE how == Resolve(response)
<1>1. /\ phase = "replied" /\ kind \notin Adapted /\ Settle(how)
      /\ UNCHANGED <<now, closedAt, kind, response>>
  BY DEF Deliver, IInv, TypeOK, world, ask, reply
<1>2. how \notin {"LoggerError", "pending", "incompatible"}
  BY DEF Resolve
<1>3. journal = <<>>
  BY <1>1 DEF IInv, NothingToldYet
<1>4. CASE how # "score"
  BY <1>1, <1>2, <1>4, Failure
<1>5. CASE how = "score"
  <2>1. /\ phase' = "done" /\ result' \in {"score", "LoggerError"}
        /\ cacheStatus' \in {"none", CacheStatus(response)}
        /\ kind # "cancellable" => TrailOf(how, result', journal')
    BY <1>1, <1>2, <1>3, <1>5, Settlement DEF CacheStatus, Age, DateNow
  <2>2. Truthful(response)' <=> Truthful(response)
    BY <1>1 DEF Truthful, Height
  <2>3. ScoreIsFinal'
    <3>1. ASSUME Truthful(response) PROVE Height - response.sequence >= config.minConfirmations
      <4>1. ~ (observedConfirmations(response) < config.minConfirmations)
        BY <1>5, ScoreResolved
      <4>2. /\ response.sequence \in Int /\ response.latestSeen \in Int /\ Height \in Int
            /\ response.sequence <= Height /\ response.latestSeen <= Height
        BY <3>1 DEF Truthful, IInv, Numeric, TypeOK, Height
      <4> QED
        BY <4>1, <4>2, PolicyAssumption DEF observedConfirmations
    <3> QED
      BY <1>1, <2>2, <3>1 DEF ScoreIsFinal, Height
  <2>4. LiveIsRecent'
    <3>1. ASSUME Truthful(response), cacheStatus' = "live"
          PROVE  now - closedAt[response.sequence] <= config.maxResultAgeMs - ClockOffset
      <4>1. response.closeTime = closedAt[response.sequence] /\ closedAt[response.sequence] \in Int /\ now \in Int
        BY <3>1 DEF Truthful, IInv, TypeOK, Height
      <4>2. CacheStatus(response) = "live"
        BY <2>1, <3>1
      <4> QED
        BY <4>1, <4>2, PolicyAssumption, WorldAssumption DEF CacheStatus, Age, DateNow
    <3> QED
      BY <1>1, <2>2, <3>1 DEF LiveIsRecent
  <2>5. FailsClosed'
    BY <1>1, <2>1 DEF FailsClosed, Adapted
  <2>6. AuditMatches'
    <3>1. Resolve(response') = "score"
      BY <1>1, <1>5
    <3>2. Found'
      BY <1>1, <3>1 DEF Found, Resolve, observedConfirmations
    <3> QED
      BY <1>1, <2>1, <3>2 DEF AuditMatches, TrailOf
  <2> QED
    BY <2>1, <2>3, <2>4, <2>5, <2>6 DEF NothingToldYet, Told
<1> QED
  BY <1>4, <1>5

\* What is told when a decision arrives.
LEMMA Decided ==
  ASSUME IInv, DecisionArrives
  PROVE  NothingToldYet' /\ Told'
<1> DEFINE how == toLegacyRiskOracle(decision')
<1>1. /\ phase = "asked" /\ kind \in Adapted /\ Settle(how)
      /\ kind = "legacy" => IsRiskDecision(decision'[1])
      /\ UNCHANGED <<now, kind>>
  BY DEF DecisionArrives, world, ask
<1>2. decision' \in Seq(Layer) \ {<<>>} /\ DateNow \in Int
  BY ProducerAssumption, WorldAssumption DEF DecisionArrives, IInv, TypeOK, DateNow
<1>3. /\ how \notin {"LoggerError", "pending"}
      /\ how = "score" =>
           decision'[1].outcome = "verified" \/ (decision'[1].outcome = "degraded" /\ AcceptDegraded)
      /\ how = "score" /\ kind = "validated" => SoundEvidence(decision'[1])
      /\ how = "incompatible" /\ kind = "validated" =>
           \/ \E i \in 1 .. Len(decision') : decision'[i].schemaVersion # SchemaVersion
           \/ HonestVeto(decision')
           \/ decision'[1].outcome = "incompatible"
           \/ decision'[1].outcome = "degraded" /\ SoundEvidence(decision'[1])
  BY <1>1, <1>2, Converted
<1>4. journal = <<>>
  BY <1>1 DEF IInv, NothingToldYet
<1> HIDE DEF how
<1>5. /\ phase' = "done" /\ result' \in {how, "LoggerError"} /\ cacheStatus' \in {"none", "unknown"}
      /\ kind # "cancellable" => TrailOf(how, result', journal')
  BY <1>1, <1>3, <1>4, Settlement
<1>6. \A layer : SoundEvidence(layer)' <=> SoundEvidence(layer)
  BY <1>1 DEF SoundEvidence, DateNow
<1>7. FailsClosed'
  BY <1>1, <1>3, <1>5, <1>6 DEF FailsClosed, HonestVeto, SoundEvidence, DateNow
<1>8. how = "score" => Found'
  BY <1>1 DEF how, Found, toLegacyRiskOracle, DateNow
<1>9. AuditMatches'
  BY <1>1, <1>5, <1>8 DEF AuditMatches, TrailOf
<1> QED
  BY <1>1, <1>5, <1>7, <1>9 DEF NothingToldYet, Told, ScoreIsFinal, LiveIsRecent

\* The inductive invariant of a lookup.
LEMMA Inductive == Spec => []IInv
<1>1. Init => IInv
  <2> SUFFICES ASSUME Init PROVE IInv
    OBVIOUS
  <2>1. TypeOK
    BY DEF Init, TypeOK
  <2>2. NothingToldYet
    BY DEF Init, NothingToldYet
  <2>3. Numeric(NoResponse)
    BY DEF Numeric, NoResponse
  <2>4. response = NoResponse
    BY DEF Init
  <2> QED
    BY <2>1, <2>2, <2>3, <2>4 DEF Init, IInv, Told, ScoreIsFinal, LiveIsRecent, FailsClosed, AuditMatches
<1>2. IInv /\ [Next]_vars => IInv'
  <2> SUFFICES ASSUME IInv, [Next]_vars PROVE IInv'
    OBVIOUS
  <2>1. CASE UNCHANGED vars
    <3>1. TypeOK' /\ NothingToldYet' /\ Numeric(response)' /\ ScoreIsFinal' /\ LiveIsRecent'
      BY <2>1 DEF vars, world, ask, reply, told, IInv, TypeOK, NothingToldYet, Numeric, Told,
        ScoreIsFinal, LiveIsRecent, Truthful, Height
    <3>2. FailsClosed'
      BY <2>1 DEF vars, world, ask, reply, told, IInv, Told, FailsClosed, SoundEvidence, HonestVeto, DateNow
    <3>3. Found' <=> Found
      BY <2>1 DEF vars, world, ask, reply, Found, toLegacyRiskOracle, DateNow
    <3>4. AuditMatches'
      BY <2>1, <3>3 DEF vars, ask, told, IInv, Told, AuditMatches
    <3> QED
      BY <3>1, <3>2, <3>4 DEF IInv, Told
  <2>2. CASE Ask
    <3>1. TypeOK' /\ Numeric(response)' /\ phase # "done" /\ phase' # "done"
      BY <2>2 DEF Ask, IInv, TypeOK, Numeric, world, reply
    <3> QED
      BY <2>2, <3>1, Untold DEF Ask, IInv
  <2>3. CASE LedgerCloses
    <3>1. TypeOK' /\ Numeric(response)' /\ phase # "done" /\ phase' # "done"
      BY <2>3 DEF LedgerCloses, Underway, IInv, TypeOK, Numeric, ask, reply
    <3> QED
      BY <2>3, <3>1, Untold DEF LedgerCloses, IInv, ask
  <2>4. CASE Tick
    <3>1. TypeOK' /\ Numeric(response)' /\ phase # "done" /\ phase' # "done"
      BY <2>4 DEF Tick, Underway, IInv, TypeOK, Numeric, ask, reply
    <3> QED
      BY <2>4, <3>1, Untold DEF Tick, IInv, ask
  <2>5. CASE NodeAnswers
    <3>1. TypeOK' /\ phase # "done" /\ phase' # "done"
      BY <2>5 DEF NodeAnswers, IInv, TypeOK, world, ask
    <3>2. Numeric(response)'
      BY <2>5, ResponsesNumeric DEF NodeAnswers, IInv, TypeOK, Numeric
    <3> QED
      BY <2>5, <3>1, <3>2, Untold DEF NodeAnswers, IInv, ask
  <2>6. ASSUME NEW how, Settle(how), UNCHANGED <<now, closedAt, kind, response>>,
               NothingToldYet' /\ Told'
        PROVE  IInv'
    <3>1. phase' = "done"
      BY <2>6 DEF Settle, Audit, Answer
    <3> QED
      BY <2>6, <3>1 DEF IInv, TypeOK, Numeric
  <2>7. ASSUME NEW how, how \notin {"LoggerError", "pending", "score", "incompatible"}, Settle(how),
               phase # "done", UNCHANGED <<world, ask, reply>>
        PROVE  IInv'
    <3>1. NothingToldYet' /\ Told'
      BY <2>7, Failure DEF ask
    <3> QED
      BY <2>6, <2>7, <3>1 DEF world, ask, reply
  <2>8. CASE Reject
    BY <2>7, <2>8 DEF Reject
  <2>9. CASE Cancel
    BY <2>7, <2>9 DEF Cancel
  <2>10. CASE SourceFails
    BY <2>7, <2>10 DEF SourceFails, Errors
  <2>11. CASE Deliver
    BY <2>6, <2>11, Delivered DEF Deliver, world, ask, reply
  <2>12. CASE DecisionArrives
    BY <2>6, <2>12, Decided DEF DecisionArrives, world, ask
  <2> QED
    BY <2>1, <2>2, <2>3, <2>4, <2>5, <2>8, <2>9, <2>10, <2>11, <2>12 DEF Next, Done
<1> QED
  BY <1>1, <1>2, PTL DEF Spec

\* What is told is final, however far the nodes lag behind the chain, if the one
\* that answered did not claim more of it than there is.
THEOREM Finality == Spec => []ScoreIsFinal
<1>1. IInv => ScoreIsFinal
  BY DEF IInv, Told
<1> QED
  BY <1>1, Inductive, PTL

\* What is told to be live is recent, give or take the local clock's error, if
\* the node that answered did not lie about the time.
THEOREM Recency == Spec => []LiveIsRecent
<1>1. IInv => LiveIsRecent
  BY DEF IInv, Told
<1> QED
  BY <1>1, Inductive, PTL

\* The legacy adapter makes a number only of an outcome that has one; and over
\* a producer that validates what it fetched, only of sound evidence.
THEOREM NumericFailsClosed == Spec => []FailsClosed
<1>1. IInv => FailsClosed
  BY DEF IInv, Told
<1> QED
  BY <1>1, Inductive, PTL

\* The trail holds one record, of what the caller was told, unless the logger
\* has thrown and the caller was told that; and never a success that was none.
THEOREM TrailMatches == Spec => []AuditMatches
<1>1. IInv => AuditMatches
  BY DEF IInv, Told
<1> QED
  BY <1>1, Inductive, PTL

-----------------------------------------------------------------------------
\* Words: sequences of a known length.

\* A sequence of n elements of S.
IsWord(s, n, S) == s \in [1 .. n -> S]

\* joined is first and then second; part is the stretch of whole from i to j.
Glued(joined, first, m, second, n) ==
  (\A i \in 1 .. m : joined[i] = first[i]) /\ (\A i \in 1 .. n : joined[m + i] = second[i])
Taken(part, whole, i, j) == \A k \in 1 .. j - i + 1 : part[k] = whole[i + k - 1]

\* A function on the first n numbers is a sequence of n, and the other way.
LEMMA SeqOfLength ==
  ASSUME NEW S, NEW n \in Nat, NEW f
  PROVE  IsWord(f, n, S) <=> f \in Seq(S) /\ Len(f) = n
<1>1. ASSUME f \in [1 .. n -> S] PROVE f \in Seq(S) /\ Len(f) = n
  <2> DEFINE m == Len(f)
  <2>1. f \in Seq(S)
    BY <1>1, SeqDef, Zenon
  <2>2. m \in Nat /\ DOMAIN f = 1 .. m
    BY <2>1, LenProperties, Zenon
  <2> HIDE DEF m
  <2>3. 1 .. n = 1 .. m
    BY <1>1, <2>2
  <2>4. m = n
    <3>1. n # 0 => n \in 1 .. n
      OBVIOUS
    <3>2. m # 0 => m \in 1 .. n
      BY <2>2, <2>3
    <3>3. n # 0 => n \in 1 .. m
      BY <2>3, <3>1, Zenon
    <3> QED
      BY <2>2, <3>2, <3>3
  <2> QED
    BY <2>1, <2>4, Zenon DEF m
<1>2. ASSUME f \in Seq(S), Len(f) = n PROVE f \in [1 .. n -> S]
  BY <1>2, LenProperties
<1> QED
  BY <1>1, <1>2 DEF IsWord

\* Two of them, one after the other.
LEMMA Joined ==
  ASSUME NEW S, NEW m \in Nat, NEW n \in Nat, NEW s, NEW t, IsWord(s, m, S), IsWord(t, n, S)
  PROVE  IsWord(s \o t, m + n, S) /\ Glued(s \o t, s, m, t, n)
<1> DEFINE st == s \o t
<1>1. s \in Seq(S) /\ Len(s) = m
  BY SeqOfLength, Zenon
<1>2. t \in Seq(S) /\ Len(t) = n
  BY SeqOfLength, Zenon
<1>3. /\ s \o t \in Seq(S)
      /\ Len(s \o t) = Len(s) + Len(t)
      /\ \A i \in 1 .. Len(s) + Len(t) : (s \o t)[i] = IF i <= Len(s) THEN s[i] ELSE t[i - Len(s)]
  BY <1>1, <1>2, ConcatProperties, Zenon
<1>4. /\ st \in Seq(S) /\ Len(st) = m + n
      /\ \A i \in 1 .. m + n : st[i] = IF i <= m THEN s[i] ELSE t[i - m]
  BY <1>1, <1>2, <1>3, Zenon
<1> HIDE DEF st
<1>5. m + n \in Nat
  OBVIOUS
<1>6. IsWord(st, m + n, S)
  BY <1>4, <1>5, SeqOfLength, Zenon
<1>7. \A i \in 1 .. m : st[i] = s[i]
  BY <1>4
<1>8. \A i \in 1 .. n : st[m + i] = t[i]
  <2> TAKE i \in 1 .. n
  <2>1. m + i \in 1 .. m + n /\ ~ (m + i <= m) /\ (m + i) - m = i
    OBVIOUS
  <2>2. st[m + i] = IF m + i <= m THEN s[m + i] ELSE t[(m + i) - m]
    BY <1>4, <2>1, Zenon
  <2> QED
    BY <2>1, <2>2, Zenon
<1> QED
  BY <1>6, <1>7, <1>8 DEF st, Glued

\* A stretch of one.
LEMMA Stretch ==
  ASSUME NEW S, NEW n \in Nat, NEW s, IsWord(s, n, S),
         NEW i \in 1 .. n + 1, NEW j \in 0 .. n, i <= j + 1
  PROVE  IsWord(SubSeq(s, i, j), j - i + 1, S) /\ Taken(SubSeq(s, i, j), s, i, j)
<1> DEFINE sub == SubSeq(s, i, j)
           m == j - i + 1
<1>1. i \in Int /\ j \in Int /\ m \in Nat /\ \A k \in i .. j : s[k] \in S
  BY DEF IsWord
<1>2. /\ SubSeq(s, i, j) \in Seq(S)
      /\ Len(SubSeq(s, i, j)) = IF i <= j THEN j - i + 1 ELSE 0
      /\ \A k \in 1 .. j - i + 1 : SubSeq(s, i, j)[k] = s[i + k - 1]
  BY <1>1, SubSeqProperties, SMT
<1>3. (IF i <= j THEN j - i + 1 ELSE 0) = m
  OBVIOUS
<1>4. sub \in Seq(S) /\ Len(sub) = m
  BY <1>2, <1>3, Zenon
<1> HIDE DEF m
<1>5. IsWord(sub, m, S)
  BY <1>1, <1>4, SeqOfLength, Zenon
<1> QED
  BY <1>2, <1>5, Zenon DEF m, Taken

\* What agrees with a stretch is that stretch.
LEMMA IsStretch ==
  ASSUME NEW S, NEW n \in Nat, NEW s, IsWord(s, n, S),
         NEW i \in 1 .. n + 1, NEW j \in 0 .. n, i <= j + 1,
         NEW part, IsWord(part, j - i + 1, S), Taken(part, s, i, j)
  PROVE  SubSeq(s, i, j) = part
<1> DEFINE sub == SubSeq(s, i, j)
           m == j - i + 1
<1>1. IsWord(sub, m, S) /\ Taken(sub, s, i, j)
  BY Stretch, Zenon
<1> HIDE DEF sub
<1>2. \A k \in 1 .. m : sub[k] = part[k]
  BY <1>1, Zenon DEF Taken
<1> HIDE DEF m
<1>3. sub = part
  BY <1>1, <1>2 DEF IsWord, m
<1> QED
  BY <1>3 DEF sub

-----------------------------------------------------------------------------
\* The checksum of a string of bits.

\* A register of the checksum, most significant bit first.
Bit == {0, 1}
Register == [1 .. 16 -> Bit]

\* Feedback comes out at the low end, and flips what the polynomial says.
LEMMA ShiftAt ==
  ASSUME NEW crc \in Register, NEW bit \in Bit
  PROVE  /\ Shift(crc, bit) \in Register
         /\ Shift(crc, bit)[16] = IF crc[1] = bit THEN 0 ELSE 1
         /\ \A k \in 1 .. 15 : Shift(crc, bit)[k] =
              IF crc[1] # bit /\ k \in {4, 11} THEN 1 - crc[k + 1] ELSE crc[k + 1]
<1> DEFINE shifted == Tail(crc) \o <<0>>
<1>1. crc \in Seq(Bit) /\ Len(crc) = 16
  BY SeqOfLength DEF Register, IsWord
<1>2. IsWord(Tail(crc), 15, Bit) /\ \A k \in 1 .. 15 : Tail(crc)[k] = crc[k + 1]
  <2>1. crc # <<>>
    <3>1. Len(<<>>) = 0
      BY EmptySeq
    <3>2. 16 # 0
      OBVIOUS
    <3> QED
      BY <1>1, <3>1, <3>2, Zenon
  <2>2. /\ Tail(crc) \in Seq(Bit) /\ Len(Tail(crc)) = 16 - 1
        /\ \A k \in 1 .. Len(Tail(crc)) : Tail(crc)[k] = crc[k + 1]
    BY <1>1, <2>1, HeadTailProperties, Zenon
  <2>3. 16 - 1 = 15 /\ 15 \in Nat
    OBVIOUS
  <2> QED
    BY <2>2, <2>3, SeqOfLength, Zenon
<1>3. shifted \in Register /\ shifted[16] = 0 /\ \A k \in 1 .. 15 : shifted[k] = crc[k + 1]
  <2> DEFINE one == <<0>>
  <2>1. IsWord(one, 1, Bit) /\ one[1] = 0
    BY DEF Bit, IsWord
  <2>2. 15 \in Nat /\ 1 \in Nat /\ 15 + 1 = 16 /\ 1 \in 1 .. 1
    OBVIOUS
  <2> HIDE DEF one
  <2>3. IsWord(Tail(crc) \o one, 15 + 1, Bit) /\ Glued(Tail(crc) \o one, Tail(crc), 15, one, 1)
    BY <1>2, <2>1, <2>2, Joined, Zenon
  <2> QED
    BY <1>2, <2>1, <2>2, <2>3, Zenon DEF one, Register, IsWord, Glued
<1>4. \A k \in 1 .. 16 : shifted[k] \in Bit
  BY <1>3 DEF Register
<1>6. Shift(crc, bit) = IF crc[1] = bit THEN shifted
        ELSE [k \in 1 .. 16 |-> IF k \in {4, 11, 16} THEN 1 - shifted[k] ELSE shifted[k]]
  BY DEF Shift
<1> HIDE DEF shifted
<1>7. CASE crc[1] = bit
  BY <1>3, <1>6, <1>7
<1>8. CASE crc[1] # bit
  <2>1. Shift(crc, bit) \in Register
    BY <1>4, <1>6, <1>8 DEF Register, Bit
  <2> QED
    BY <1>3, <1>6, <1>8, <2>1
<1> QED
  BY <1>7, <1>8

\* The registers from the first bit on.
Run(bits, n, c) ==
  /\ c \in [0 .. n -> Register]
  /\ c[0] = Zeros(16)
  /\ \A i \in 1 .. n : c[i] = Shift(c[i - 1], bits[i])

\* The register it starts from.
LEMMA ZerosRegister == Zeros(16) \in Register
BY DEF Zeros, Register, Bit

\* There is a recursion.
LEMMA RunExists ==
  ASSUME NEW bits, NEW n \in Nat
  PROVE  \E c : c = [i \in 0 .. n |-> IF i = 0 THEN Zeros(16) ELSE Shift(c[i - 1], bits[i])]
<1> DEFINE Good == {m \in Nat : \E c : c = [i \in 0 .. m |-> IF i = 0 THEN Zeros(16) ELSE Shift(c[i - 1], bits[i])]}
<1>1. 0 \in Good
  <2> DEFINE c == [i \in 0 .. 0 |-> Zeros(16)]
  <2>1. c = [i \in 0 .. 0 |-> IF i = 0 THEN Zeros(16) ELSE Shift(c[i - 1], bits[i])]
    OBVIOUS
  <2> QED
    BY <2>1
<1>2. \A m \in Nat : m \in Good => m + 1 \in Good
  <2> SUFFICES ASSUME NEW m \in Nat, m \in Good PROVE m + 1 \in Good
    OBVIOUS
  <2>1. PICK c : c = [i \in 0 .. m |-> IF i = 0 THEN Zeros(16) ELSE Shift(c[i - 1], bits[i])]
    OBVIOUS
  <2> DEFINE d == [i \in 0 .. m + 1 |-> IF i <= m THEN c[i] ELSE Shift(c[m], bits[m + 1])]
  <2>2. \A i \in 0 .. m : d[i] = c[i]
    OBVIOUS
  <2>3. \A i \in 0 .. m + 1 : d[i] = IF i = 0 THEN Zeros(16) ELSE Shift(d[i - 1], bits[i])
    <3> SUFFICES ASSUME NEW i \in 0 .. m + 1
                 PROVE  d[i] = IF i = 0 THEN Zeros(16) ELSE Shift(d[i - 1], bits[i])
      OBVIOUS
    <3>1. CASE i = 0
      BY <2>1, <2>2, <3>1
    <3>2. CASE i \in 1 .. m
      <4>1. d[i] = c[i] /\ d[i - 1] = c[i - 1] /\ i # 0 /\ i \in 0 .. m
        BY <2>2, <3>2
      <4>2. c[i] = Shift(c[i - 1], bits[i])
        BY <2>1, <4>1
      <4> QED
        BY <4>1, <4>2
    <3>3. CASE i = m + 1
      <4>1. d[i] = Shift(c[m], bits[m + 1]) /\ i - 1 = m /\ d[m] = c[m] /\ i # 0
        BY <3>3
      <4> QED
        BY <3>3, <4>1
    <3> QED
      BY <3>1, <3>2, <3>3
  <2>4. d = [i \in 0 .. m + 1 |-> d[i]]
    OBVIOUS
  <2> HIDE DEF d
  <2>5. d = [i \in 0 .. m + 1 |-> IF i = 0 THEN Zeros(16) ELSE Shift(d[i - 1], bits[i])]
    BY <2>3, <2>4
  <2>6. m + 1 \in Nat
    OBVIOUS
  <2> QED
    BY <2>5, <2>6
<1> HIDE DEF Good
<1>3. n \in Good
  BY <1>1, <1>2, NatSteps
<1> QED
  BY <1>3 DEF Good

\* The checksum is the last register of a run.
LEMMA RunOfCrc ==
  ASSUME NEW n \in Nat, NEW bits, IsWord(bits, n, Bit)
  PROVE  \E c : Run(bits, n, c) /\ crc16XModem(bits) = c[n]
<1> DEFINE c == CHOOSE c : c = [i \in 0 .. n |-> IF i = 0 THEN Zeros(16) ELSE Shift(c[i - 1], bits[i])]
<1>0. Len(bits) = n
  BY SeqOfLength
<1>1. c = [i \in 0 .. n |-> IF i = 0 THEN Zeros(16) ELSE Shift(c[i - 1], bits[i])]
  <2>1. \E d : d = [i \in 0 .. n |-> IF i = 0 THEN Zeros(16) ELSE Shift(d[i - 1], bits[i])]
    BY <1>0, RunExists
  <2> QED
    BY <2>1, Zenon
<1>2. crc16XModem(bits) = c[n]
  BY <1>0, Zenon DEF crc16XModem
<1> HIDE DEF c
<1>3. c[0] = Zeros(16)
  BY <1>0, <1>1
<1>4. \A i \in 1 .. n : c[i] = Shift(c[i - 1], bits[i])
  <2> TAKE i \in 1 .. n
  <2>1. i \in 0 .. n /\ i # 0
    BY <1>0
  <2> QED
    BY <1>1, <2>1
<1>5. \A i \in 0 .. n : c[i] \in Register
  <2> DEFINE Good == {i \in Nat : i <= n => c[i] \in Register}
  <2>1. 0 \in Good
    BY <1>3, ZerosRegister
  <2>2. \A i \in Nat : i \in Good => i + 1 \in Good
    <3> SUFFICES ASSUME NEW i \in Nat, i \in Good, i + 1 <= n PROVE c[i + 1] \in Register
      OBVIOUS
    <3>1. i + 1 \in 1 .. n /\ (i + 1) - 1 = i /\ c[i] \in Register
      BY <1>0
    <3>2. bits[i + 1] \in Bit
      BY <3>1 DEF IsWord
    <3>3. c[i + 1] = Shift(c[i], bits[i + 1])
      BY <1>4, <3>1
    <3> QED
      BY <3>1, <3>2, <3>3, ShiftAt
  <2> HIDE DEF Good
  <2>3. Nat \subseteq Good
    BY <2>1, <2>2, NatSteps
  <2> QED
    BY <1>0, <2>3 DEF Good
<1>6. c \in [0 .. n -> Register]
  <2>1. c = [i \in 0 .. n |-> c[i]]
    BY <1>1
  <2> QED
    BY <1>5, <2>1
<1> QED
  BY <1>2, <1>3, <1>4, <1>6, Zenon DEF Run

\* A register that fills in one place, told from another by its positions.
LEMMA ShiftsCompared ==
  ASSUME NEW a \in Register, NEW b \in Register, NEW s \in Bit, NEW t \in Bit
  PROVE  /\ Shift(a, s)[16] = Shift(b, t)[16] =>
              \A k \in 1 .. 15 : Shift(a, s)[k] = Shift(b, t)[k] <=> a[k + 1] = b[k + 1]
         /\ Shift(a, s)[16] = Shift(b, t)[16] /\ s = t => a[1] = b[1]
         /\ a = b /\ s # t => \A k \in {4, 11, 16} : Shift(a, s)[k] # Shift(b, t)[k]
         /\ \A k \in {3, 10} : Shift(a, s)[k] = Shift(b, t)[k] <=> a[k + 1] = b[k + 1]
<1>1. /\ Shift(a, s)[16] = IF a[1] = s THEN 0 ELSE 1
      /\ \A k \in 1 .. 15 : Shift(a, s)[k] = IF a[1] # s /\ k \in {4, 11} THEN 1 - a[k + 1] ELSE a[k + 1]
  BY ShiftAt
<1>2. /\ Shift(b, t)[16] = IF b[1] = t THEN 0 ELSE 1
      /\ \A k \in 1 .. 15 : Shift(b, t)[k] = IF b[1] # t /\ k \in {4, 11} THEN 1 - b[k + 1] ELSE b[k + 1]
  BY ShiftAt
<1>3. /\ \A k \in 1 .. 16 : a[k] \in {0, 1} /\ b[k] \in {0, 1}
      /\ s \in {0, 1} /\ t \in {0, 1}
  BY DEF Register, Bit
<1>4. Shift(a, s)[16] = Shift(b, t)[16] <=> (a[1] = s <=> b[1] = t)
  BY <1>1, <1>2
<1>5. Shift(a, s)[16] = Shift(b, t)[16] =>
        \A k \in 1 .. 15 : Shift(a, s)[k] = Shift(b, t)[k] <=> a[k + 1] = b[k + 1]
  BY <1>1, <1>2, <1>3, <1>4
<1>6. Shift(a, s)[16] = Shift(b, t)[16] /\ s = t => a[1] = b[1]
  BY <1>3, <1>4
<1>7. a = b /\ s # t => \A k \in {4, 11, 16} : Shift(a, s)[k] # Shift(b, t)[k]
  BY <1>1, <1>2, <1>3, <1>4
<1>8. \A k \in {3, 10} : Shift(a, s)[k] = Shift(b, t)[k] <=> a[k + 1] = b[k + 1]
  BY <1>1, <1>2
<1> QED
  BY <1>5, <1>6, <1>7, <1>8

\* w is a string of bits up to the n-th.
AreBits(w, n) == \A i \in 1 .. n : w[i] \in Bit

\* Two runs agree at position k after i bits.
Agree(a, b, i, k) == a[i][k] = b[i][k]

\* As long as what has come out at the low end agrees, the registers agree
\* where they agreed before, moved up.
LEMMA LookBack ==
  ASSUME NEW n \in Nat, NEW u, NEW v, AreBits(u, n), AreBits(v, n),
         NEW a, NEW b, Run(u, n, a), Run(v, n, b),
         NEW i \in 0 .. n, NEW j \in 0 .. 15, j <= i, \A k \in 17 - j .. 16 : Agree(a, b, i, k)
  PROVE  \A m \in 1 .. 16 - j : Agree(a, b, i, m) <=> Agree(a, b, i - j, m + j)
<1> DEFINE Low(x) == \A k \in 17 - x .. 16 : Agree(a, b, i, k)
           Moved(x) == \A m \in 1 .. 16 - x : Agree(a, b, i, m) <=> Agree(a, b, i - x, m + x)
           Good == {x \in Nat : x <= 15 /\ x <= i /\ Low(x) => Moved(x)}
<1>1. 0 \in Good
  BY DEF Agree
<1>2. \A x \in Nat : x \in Good => x + 1 \in Good
  <2> SUFFICES ASSUME NEW x \in Nat, x \in Good, x + 1 <= 15, x + 1 <= i, Low(x + 1)
               PROVE  Moved(x + 1)
    OBVIOUS
  <2>1. Low(x)
    OBVIOUS
  <2>2. Moved(x)
    BY <2>1
  <2>3. Agree(a, b, i, 16 - x)
    OBVIOUS
  <2>4. Agree(a, b, i - x, 16)
    <3>1. 16 - x \in 1 .. 16 - x /\ (16 - x) + x = 16
      OBVIOUS
    <3>2. Agree(a, b, i, 16 - x) <=> Agree(a, b, i - x, (16 - x) + x)
      BY <2>2, <3>1
    <3> QED
      BY <2>3, <3>1, <3>2
  <2> DEFINE p == i - x
  <2>5. p \in 1 .. n /\ p - 1 \in 0 .. n /\ i - (x + 1) = p - 1
    OBVIOUS
  <2>6. /\ a[p - 1] \in Register /\ b[p - 1] \in Register /\ u[p] \in Bit /\ v[p] \in Bit
        /\ a[p] = Shift(a[p - 1], u[p]) /\ b[p] = Shift(b[p - 1], v[p])
    BY <2>5 DEF Run, AreBits
  <2>7. \A k \in 1 .. 15 : Agree(a, b, p, k) <=> Agree(a, b, p - 1, k + 1)
    BY <2>4, <2>6, ShiftsCompared DEF Agree
  <2> HIDE DEF p
  <2> SUFFICES ASSUME NEW m \in 1 .. 16 - (x + 1)
               PROVE  Agree(a, b, i, m) <=> Agree(a, b, i - (x + 1), m + (x + 1))
    OBVIOUS
  <2>8. m \in 1 .. 16 - x /\ m + x \in 1 .. 15 /\ m + (x + 1) = (m + x) + 1
    OBVIOUS
  <2>9. Agree(a, b, i, m) <=> Agree(a, b, p, m + x)
    BY <2>2, <2>8 DEF p
  <2>10. Agree(a, b, p, m + x) <=> Agree(a, b, p - 1, (m + x) + 1)
    BY <2>7, <2>8
  <2> QED
    BY <2>5, <2>8, <2>9, <2>10
<1> HIDE DEF Good
<1>3. j \in Good
  BY <1>1, <1>2, NatSteps
<1> QED
  BY <1>3 DEF Good

\* Registers that end alike after the same bits began alike.
LEMMA SameBefore ==
  ASSUME NEW n \in Nat, NEW u, NEW v, AreBits(u, n), AreBits(v, n),
         NEW a, NEW b, Run(u, n, a), Run(v, n, b),
         NEW i \in 0 .. n, \A k \in i + 1 .. n : u[k] = v[k], a[n] = b[n]
  PROVE  a[i] = b[i]
<1> DEFINE Good == {x \in Nat : x <= n - i => a[n - x] = b[n - x]}
<1>1. 0 \in Good
  OBVIOUS
<1>2. \A x \in Nat : x \in Good => x + 1 \in Good
  <2> SUFFICES ASSUME NEW x \in Nat, x \in Good, x + 1 <= n - i PROVE a[n - (x + 1)] = b[n - (x + 1)]
    OBVIOUS
  <2> DEFINE p == n - x
  <2>1. p \in 1 .. n /\ p - 1 \in 0 .. n /\ n - (x + 1) = p - 1 /\ p \in i + 1 .. n
    OBVIOUS
  <2>2. a[p] = b[p] /\ u[p] = v[p]
    BY <2>1
  <2> HIDE DEF p
  <2>3. /\ a[p - 1] \in Register /\ b[p - 1] \in Register /\ u[p] \in Bit /\ v[p] \in Bit
        /\ a[p] = Shift(a[p - 1], u[p]) /\ b[p] = Shift(b[p - 1], v[p])
    BY <2>1 DEF Run, AreBits
  <2>4. /\ a[p - 1][1] = b[p - 1][1]
        /\ \A k \in 1 .. 15 : a[p - 1][k + 1] = b[p - 1][k + 1]
    <3> DEFINE c == a[p - 1]
               d == b[p - 1]
               s == u[p]
               t == v[p]
    <3>1. c \in Register /\ d \in Register /\ s \in Bit /\ t \in Bit /\ s = t /\ Shift(c, s) = Shift(d, t)
      BY <2>2, <2>3
    <3> HIDE DEF c, d, s, t
    <3>2. c[1] = d[1] /\ \A k \in 1 .. 15 : c[k + 1] = d[k + 1]
      BY <3>1, ShiftsCompared
    <3> QED
      BY <3>2 DEF c, d
  <2>5. \A k \in 1 .. 16 : a[p - 1][k] = b[p - 1][k]
    <3> TAKE k \in 1 .. 16
    <3>1. k = 1 \/ (k - 1 \in 1 .. 15 /\ k = (k - 1) + 1)
      OBVIOUS
    <3> QED
      BY <2>4, <3>1
  <2> QED
    BY <2>1, <2>3, <2>5 DEF Register
<1> HIDE DEF Good
<1>3. n - i \in Good
  <2>1. n - i \in Nat
    OBVIOUS
  <2> QED
    BY <1>1, <1>2, <2>1, NatSteps
<1>4. n - i <= n - i /\ n - (n - i) = i
  OBVIOUS
<1> QED
  BY <1>3, <1>4 DEF Good

\* Registers are alike as long as the bits are.
LEMMA SameAfter ==
  ASSUME NEW n \in Nat, NEW u, NEW v, AreBits(u, n), AreBits(v, n),
         NEW a, NEW b, Run(u, n, a), Run(v, n, b),
         NEW i \in 0 .. n, \A k \in 1 .. i : u[k] = v[k]
  PROVE  a[i] = b[i]
<1> DEFINE Good == {x \in Nat : x <= i => a[x] = b[x]}
<1>1. 0 \in Good
  BY DEF Run
<1>2. \A x \in Nat : x \in Good => x + 1 \in Good
  <2> SUFFICES ASSUME NEW x \in Nat, x \in Good, x + 1 <= i PROVE a[x + 1] = b[x + 1]
    OBVIOUS
  <2>1. x + 1 \in 1 .. n /\ (x + 1) - 1 = x /\ x + 1 \in 1 .. i
    OBVIOUS
  <2>2. a[x + 1] = Shift(a[(x + 1) - 1], u[x + 1]) /\ b[x + 1] = Shift(b[(x + 1) - 1], v[x + 1])
    BY <2>1 DEF Run
  <2> QED
    BY <2>1, <2>2
<1> HIDE DEF Good
<1>3. i \in Good
  BY <1>1, <1>2, NatSteps
<1> QED
  BY <1>3 DEF Good

\* The checksum of the first n bits is stored behind them.
Stored(w, n, c) == \A k \in 1 .. 8 : w[n + k] = c[n][8 + k] /\ w[n + 8 + k] = c[n][k]

\* Two strings with a checksum do not differ within ten bits only: not in what
\* is covered, nor in the checksum, nor across the two.
THEOREM ShortBurstsFound ==
  ASSUME NEW n \in Nat, NEW u, NEW v, AreBits(u, n), AreBits(v, n),
         NEW a, NEW b, Run(u, n, a), Run(v, n, b), Stored(u, n, a), Stored(v, n, b),
         NEW q \in 1 .. n + 16, \A i \in 1 .. n + 16 : i \notin q .. q + 9 => u[i] = v[i]
  PROVE  u[q] = v[q]
<1> SUFFICES ASSUME u[q] # v[q] PROVE FALSE
  OBVIOUS
<1>1. \A k \in 1 .. 8 : n + k \notin q .. q + 9 => Agree(a, b, n, 8 + k)
  <2> TAKE k \in 1 .. 8
  <2>1. n + k \in 1 .. n + 16
    OBVIOUS
  <2> QED
    BY <2>1 DEF Stored, Agree
<1>2. \A k \in 1 .. 8 : n + 8 + k \notin q .. q + 9 => Agree(a, b, n, k)
  <2> TAKE k \in 1 .. 8
  <2>1. n + 8 + k \in 1 .. n + 16
    OBVIOUS
  <2> QED
    BY <2>1 DEF Stored, Agree
<1>3. CASE q > n
  <2>1. a[n] = b[n]
    <3>1. n \in 0 .. n /\ \A k \in 1 .. n : u[k] = v[k]
      BY <1>3
    <3> QED
      BY <3>1, SameAfter
  <2>2. q - n \in 1 .. 8 \/ q - n - 8 \in 1 .. 8
    BY <1>3
  <2>3. CASE q - n \in 1 .. 8
    <3>1. u[n + (q - n)] = v[n + (q - n)] /\ n + (q - n) = q
      BY <2>1, <2>3 DEF Stored
    <3> QED
      BY <3>1
  <2>4. CASE q - n - 8 \in 1 .. 8
    <3>1. u[n + 8 + (q - n - 8)] = v[n + 8 + (q - n - 8)] /\ n + 8 + (q - n - 8) = q
      BY <2>1, <2>4 DEF Stored
    <3> QED
      BY <3>1
  <2> QED
    BY <2>2, <2>3, <2>4
<1>4. CASE q <= n
  <2>1. a[q - 1] = b[q - 1]
    <3>1. q - 1 \in 0 .. n /\ \A k \in 1 .. q - 1 : u[k] = v[k]
      BY <1>4
    <3> QED
      BY <3>1, SameAfter
  <2>2. \A p \in 1 .. n :
          /\ a[p - 1] \in Register /\ b[p - 1] \in Register /\ u[p] \in Bit /\ v[p] \in Bit
          /\ a[p] = Shift(a[p - 1], u[p]) /\ b[p] = Shift(b[p - 1], v[p])
    <3> TAKE p \in 1 .. n
    <3>1. p - 1 \in 0 .. n
      OBVIOUS
    <3> QED
      BY <3>1 DEF Run, AreBits
  <2>3. ~ Agree(a, b, q, 4) /\ ~ Agree(a, b, q, 11) /\ ~ Agree(a, b, q, 16)
    <3>1. q \in 1 .. n
      BY <1>4
    <3> QED
      BY <2>1, <2>2, <3>1, ShiftsCompared DEF Agree
  <2>4. CASE q + 9 <= n
    <3>1. a[n] \in Register /\ b[n] \in Register
      BY DEF Run
    <3>2. \A k \in 1 .. 16 : a[n][k] = b[n][k]
      <4> TAKE k \in 1 .. 16
      <4>1. CASE k \in 1 .. 8
        BY <1>2, <2>4, <4>1 DEF Agree
      <4>2. CASE k \in 9 .. 16
        <5>1. k - 8 \in 1 .. 8 /\ 8 + (k - 8) = k /\ n + (k - 8) \notin q .. q + 9
          BY <2>4, <4>2
        <5> QED
          BY <1>1, <5>1 DEF Agree
      <4> QED
        BY <4>1, <4>2
    <3>3. a[n] = b[n]
      BY <3>1, <3>2 DEF Register
    <3>4. a[q + 9] = b[q + 9]
      <4>1. q + 9 \in 0 .. n /\ \A k \in (q + 9) + 1 .. n : u[k] = v[k]
        BY <2>4
      <4> QED
        BY <3>3, <4>1, SameBefore
    <3>5. \A m \in 1 .. 16 - 9 : Agree(a, b, q + 9, m) <=> Agree(a, b, (q + 9) - 9, m + 9)
      <4>1. q + 9 \in 0 .. n /\ 9 \in 0 .. 15 /\ 9 <= q + 9
        BY <2>4
      <4>2. \A k \in 17 - 9 .. 16 : Agree(a, b, q + 9, k)
        BY <3>4 DEF Agree
      <4> QED
        BY <4>1, <4>2, LookBack
    <3>6. 7 \in 1 .. 16 - 9 /\ (q + 9) - 9 = q /\ 7 + 9 = 16 /\ Agree(a, b, q + 9, 7)
      BY <3>4 DEF Agree
    <3>7. Agree(a, b, q, 16)
      BY <3>5, <3>6
    <3> QED
      BY <2>3, <3>7
  <2>5. CASE q = n
    <3>1. 4 \in 1 .. 8 /\ n + 8 + 4 \notin q .. q + 9
      BY <2>5
    <3> QED
      BY <1>2, <2>3, <2>5, <3>1
  <2>6. CASE q < n /\ n < q + 9
    <3> DEFINE t == q + 9 - n
    <3>1. t \in 1 .. 8 /\ q + 1 \in 1 .. n /\ (q + 1) - 1 = q /\ n - (8 - t) = q + 1 /\ n + t = q + 9
      BY <2>6
    <3> HIDE DEF t
    <3>2. ~ Agree(a, b, q + 1, 3) /\ ~ Agree(a, b, q + 1, 10)
      <4>1. /\ a[q] \in Register /\ b[q] \in Register /\ u[q + 1] \in Bit /\ v[q + 1] \in Bit
            /\ a[q + 1] = Shift(a[q], u[q + 1]) /\ b[q + 1] = Shift(b[q], v[q + 1])
        BY <2>2, <3>1
      <4>2. \A k \in {3, 10} : Agree(a, b, q + 1, k) <=> Agree(a, b, q, k + 1)
        BY <4>1, ShiftsCompared DEF Agree
      <4> QED
        BY <2>3, <4>2
    <3>3. \A k \in 17 - (8 - t) .. 16 : Agree(a, b, n, k)
      <4> TAKE k \in 17 - (8 - t) .. 16
      <4>1. k - 8 \in 1 .. 8 /\ 8 + (k - 8) = k /\ n + (k - 8) \notin q .. q + 9
        BY <3>1
      <4> QED
        BY <1>1, <4>1
    <3>4. \A k \in 1 .. 8 : Agree(a, b, n, k)
      <4> TAKE k \in 1 .. 8
      <4>1. n + 8 + k \notin q .. q + 9
        BY <3>1
      <4> QED
        BY <1>2, <4>1
    <3>5. \A m \in 1 .. 16 - (8 - t) : Agree(a, b, n, m) <=> Agree(a, b, q + 1, m + (8 - t))
      <4>1. n \in 0 .. n /\ 8 - t \in 0 .. 15 /\ 8 - t <= n
        BY <3>1
      <4>2. \A m \in 1 .. 16 - (8 - t) : Agree(a, b, n, m) <=> Agree(a, b, n - (8 - t), m + (8 - t))
        BY <3>3, <4>1, LookBack
      <4> QED
        BY <3>1, <4>2
    <3>6. CASE t <= 6
      <4>1. 2 + t \in 1 .. 16 - (8 - t) /\ 2 + t \in 1 .. 8 /\ (2 + t) + (8 - t) = 10
        BY <3>1, <3>6
      <4> QED
        BY <3>2, <3>4, <3>5, <4>1
    <3>7. CASE t > 6
      <4>1. t - 5 \in 1 .. 16 - (8 - t) /\ t - 5 \in 1 .. 8 /\ (t - 5) + (8 - t) = 3
        BY <3>1, <3>7
      <4> QED
        BY <3>2, <3>4, <3>5, <4>1
    <3> QED
      BY <3>1, <3>6, <3>7
  <2> QED
    BY <1>4, <2>4, <2>5, <2>6
<1> QED
  BY <1>3, <1>4

-----------------------------------------------------------------------------
\* The bits of a text.

\* The j-th of the five bits of a character.
Digit(x, j) == (x \div (2 ^ (5 - j))) % 2

\* A character is told by its five digits.
LEMMA Digits ==
  /\ \A x \in Base32 : \A j \in 1 .. 5 : Digit(x, j) \in Bit
  /\ \A x, y \in Base32 : (\A j \in 1 .. 5 : Digit(x, j) = Digit(y, j)) => x = y
<1>1. \A x : /\ Digit(x, 1) = (x \div 16) % 2 /\ Digit(x, 2) = (x \div 8) % 2 /\ Digit(x, 3) = (x \div 4) % 2
             /\ Digit(x, 4) = (x \div 2) % 2 /\ Digit(x, 5) = (x \div 1) % 2
  BY DEF Digit
<1>2. \A x \in Base32 : \A j \in 1 .. 5 : Digit(x, j) \in Bit
  <2> TAKE x \in Base32
  <2> TAKE j \in 1 .. 5
  <2>1. x \in Int
    BY DEF Base32
  <2>2. j = 1 \/ j = 2 \/ j = 3 \/ j = 4 \/ j = 5
    OBVIOUS
  <2> QED
    BY <1>1, <2>1, <2>2 DEF Bit
<1>3. ASSUME NEW x \in Base32, NEW y \in Base32, \A j \in 1 .. 5 : Digit(x, j) = Digit(y, j)
      PROVE  x = y
  <2>1. x \in 0 .. 31 /\ y \in 0 .. 31
    BY DEF Base32
  <2>2. /\ (x \div 16) % 2 = (y \div 16) % 2 /\ (x \div 8) % 2 = (y \div 8) % 2 /\ (x \div 4) % 2 = (y \div 4) % 2
        /\ (x \div 2) % 2 = (y \div 2) % 2 /\ (x \div 1) % 2 = (y \div 1) % 2
    BY <1>1, <1>3
  <2> QED
    BY <2>1, <2>2
<1> QED
  BY <1>2, <1>3

\* The bits of a text are the digits of its characters.
LEMMA BitsOfText ==
  ASSUME NEW l \in Nat, NEW text, IsWord(text, l, Base32)
  PROVE  /\ IsWord(Bits(text, 5), 5 * l, Bit)
         /\ \A i \in 1 .. 5 * l : Bits(text, 5)[i] = Digit(text[(i - 1) \div 5 + 1], ((i - 1) % 5) + 1)
<1> DEFINE bits == Bits(text, 5)
<1>1. Len(text) = l
  BY SeqOfLength
<1>2. bits = [i \in 1 .. 5 * l |-> (text[(i - 1) \div 5 + 1] \div (2 ^ (5 - 1 - ((i - 1) % 5)))) % 2]
  BY <1>1, Zenon DEF Bits
<1> HIDE DEF bits
<1>3. ASSUME NEW i \in 1 .. 5 * l
      PROVE  bits[i] = Digit(text[(i - 1) \div 5 + 1], ((i - 1) % 5) + 1) /\ bits[i] \in Bit
  <2> DEFINE j == ((i - 1) % 5) + 1
             m == (i - 1) \div 5 + 1
  <2>1. j \in 1 .. 5 /\ m \in 1 .. l /\ (i - 1) % 5 = j - 1
    OBVIOUS
  <2>2. bits[i] = (text[m] \div (2 ^ (5 - 1 - (j - 1)))) % 2
    BY <1>2, <2>1
  <2> HIDE DEF j, m
  <2>3. 5 - 1 - (j - 1) = 5 - j
    BY <2>1
  <2>4. bits[i] = Digit(text[m], j)
    BY <2>2, <2>3, Zenon DEF Digit
  <2>5. text[m] \in Base32
    BY <2>1 DEF IsWord
  <2> QED
    <3>1. Digit(text[m], j) \in Bit
      BY <2>1, <2>5, Digits
    <3>2. bits[i] \in Bit
      BY <2>4, <3>1
    <3> QED
      BY <2>4, <3>2 DEF j, m
<1>4. bits = [i \in 1 .. 5 * l |-> bits[i]]
  BY <1>2
<1> QED
  BY <1>3, <1>4 DEF bits, IsWord

\* The bytes of a text, and what is left over.
LEMMA Decoded ==
  ASSUME NEW l \in Nat, NEW text, IsWord(text, l, 0 .. 34), IsBase32(text)
  PROVE  /\ IsWord(text, l, Base32)
         /\ (5 * l) % 8 \in 0 .. 4
         /\ \A i \in 5 * l - ((5 * l) % 8) + 1 .. 5 * l : Bits(text, 5)[i] = 0
         /\ IsWord(decodeBase32(text), 5 * l - ((5 * l) % 8), Bit)
         /\ \A i \in 1 .. 5 * l - ((5 * l) % 8) : decodeBase32(text)[i] = Bits(text, 5)[i]
<1>1. IsWord(text, l, Base32)
  <2>1. \A i \in 1 .. l : text[i] \in Base32
    BY DEF IsBase32, IsWord
  <2> QED
    BY <2>1 DEF IsWord
<1> DEFINE bits == Bits(text, 5)
           r == (5 * l) % 8
           m == 5 * l - r
<1>2. IsWord(bits, 5 * l, Bit)
  BY <1>1, BitsOfText
<1>3. Len(bits) = 5 * l
  <2> DEFINE size == 5 * l
  <2>1. size \in Nat /\ IsWord(bits, size, Bit)
    BY <1>2
  <2> HIDE DEF size, bits
  <2>2. Len(bits) = size
    BY <2>1, SeqOfLength
  <2> QED
    BY <2>2 DEF size
<1>4. r \in 0 .. 7 /\ m \in 0 .. 5 * l /\ 5 * l \in Nat
  OBVIOUS
<1>5. Len(bits) % 8 < 5 /\ \A i \in Len(bits) - (Len(bits) % 8) + 1 .. Len(bits) : bits[i] = 0
  BY Zenon DEF IsBase32, ZeroPadding
<1>6. r < 5 /\ \A i \in m + 1 .. 5 * l : bits[i] = 0
  BY <1>3, <1>5, Zenon
<1>7. decodeBase32(text) = SubSeq(bits, 1, m)
  BY <1>3, Zenon DEF decodeBase32
<1> HIDE DEF bits, r, m
<1>8. IsWord(SubSeq(bits, 1, m), m - 1 + 1, Bit) /\ Taken(SubSeq(bits, 1, m), bits, 1, m)
  <2>1. 1 \in 1 .. 5 * l + 1 /\ 1 <= m + 1
    BY <1>4
  <2> QED
    BY <1>2, <1>4, <2>1, Stretch
<1>9. m - 1 + 1 = m /\ \A i \in 1 .. m : 1 + i - 1 = i
  BY <1>4
<1>10. \A i \in 1 .. m : SubSeq(bits, 1, m)[i] = bits[i]
  BY <1>8, <1>9, Zenon DEF Taken
<1>11. r \in 0 .. 4
  BY <1>4, <1>6
<1> QED
  BY <1>1, <1>6, <1>7, <1>8, <1>9, <1>10, <1>11, Zenon DEF bits, r, m

\* The checksum is the register, low byte first.
LowFirst(sum, crc) == \A k \in 1 .. 8 : sum[k] = crc[8 + k] /\ sum[8 + k] = crc[k]

\* So is the checksum of any string.
LEMMA ChecksumAt ==
  ASSUME NEW n \in Nat, NEW bits, NEW c, IsWord(bits, n, Bit), Run(bits, n, c), crc16XModem(bits) = c[n]
  PROVE  /\ IsWord(Checksum(bits), 16, Bit)
         /\ LowFirst(Checksum(bits), c[n])
<1> DEFINE crc == c[n]
           low == SubSeq(crc, 9, 16)
           high == SubSeq(crc, 1, 8)
<1>1. IsWord(crc, 16, Bit)
  BY DEF Run, Register, IsWord
<1> HIDE DEF crc
<1>2. /\ 16 \in Nat /\ 9 \in 1 .. 16 + 1 /\ 16 \in 0 .. 16 /\ 9 <= 16 + 1 /\ 16 - 9 + 1 = 8
      /\ 1 \in 1 .. 16 + 1 /\ 8 \in 0 .. 16 /\ 1 <= 8 + 1 /\ 8 - 1 + 1 = 8 /\ 8 \in Nat
  OBVIOUS
<1>3. IsWord(low, 16 - 9 + 1, Bit) /\ Taken(low, crc, 9, 16)
  BY <1>1, <1>2, Stretch, Zenon
<1>4. IsWord(high, 8 - 1 + 1, Bit) /\ Taken(high, crc, 1, 8)
  BY <1>1, <1>2, Stretch, Zenon
<1> HIDE DEF low, high
<1>5. IsWord(low \o high, 8 + 8, Bit) /\ Glued(low \o high, low, 8, high, 8)
  BY <1>2, <1>3, <1>4, Joined, Zenon
<1>6. Checksum(bits) = low \o high
  BY Zenon DEF Checksum, low, high, crc
<1>7. 8 + 8 = 16 /\ \A k \in 1 .. 8 : k \in 1 .. 16 - 9 + 1 /\ 9 + k - 1 = 8 + k /\ 1 + k - 1 = k
  OBVIOUS
<1>8. \A k \in 1 .. 8 : low[k] = crc[8 + k]
  BY <1>3, <1>7, Zenon DEF Taken
<1>9. \A k \in 1 .. 8 : high[k] = crc[k]
  BY <1>2, <1>4, <1>7, Zenon DEF Taken
<1> QED
  BY <1>5, <1>6, <1>7, <1>8, <1>9, Zenon DEF Glued, LowFirst, crc

-----------------------------------------------------------------------------
\* Strkeys.

\* The bits under the checksum of a strkey.
Covered(type) == 8 * payloadLength(type) + 8

\* A strkey has a payload.
LEMMA CoveredNat == \A type \in StrKeyType : payloadLength(type) \in Nat \ {0} /\ Covered(type) \in Nat
BY LengthAssumption DEF payloadLength, Covered

\* A strkey is decoded to a version and a payload, and the checksum of these.
Unpacks(type, bits, body) ==
  /\ IsWord(bits, Covered(type) + 16, Bit)
  /\ IsWord(body, Covered(type), Bit)
  /\ \A i \in 1 .. Covered(type) : body[i] = bits[i]
  /\ bits = body \o Checksum(body)
  /\ SubSeq(bits, 1, 8) = VersionBits(type)

LEMMA Unpacked ==
  ASSUME NEW l \in Nat, NEW text, IsWord(text, l, 0 .. 34), NEW type \in StrKeyType, isValidStrKey(text, type)
  PROVE  /\ 5 * l - ((5 * l) % 8) = Covered(type) + 16
         /\ \E body : Unpacks(type, decodeBase32(text), body)
<1> DEFINE bits == decodeBase32(text)
           m == 5 * l - ((5 * l) % 8)
           body == SubSeq(bits, 1, m - 16)
           n == Covered(type)
<1>1. IsBase32(text)
  BY DEF isValidStrKey
<1>2. IsWord(bits, m, Bit)
  BY <1>1, Decoded
<1>3. m \in Nat
  OBVIOUS
<1> HIDE DEF bits, m
<1>4. Len(bits) = m
  BY <1>2, <1>3, SeqOfLength, Zenon
<1>5. /\ m >= 24 /\ SubSeq(bits, 1, 8) = VersionBits(type)
      /\ Len(body) - 8 = 8 * payloadLength(type) /\ bits = body \o Checksum(body)
  BY <1>4, Zenon DEF isValidStrKey, bits
<1>6. IsWord(body, m - 16, Bit) /\ \A i \in 1 .. m - 16 : body[i] = bits[i]
  <2>1. /\ 1 \in 1 .. m + 1 /\ m - 16 \in 0 .. m /\ 1 <= (m - 16) + 1
        /\ (m - 16) - 1 + 1 = m - 16 /\ \A i \in 1 .. m - 16 : 1 + i - 1 = i
    BY <1>3, <1>5
  <2>2. IsWord(body, (m - 16) - 1 + 1, Bit) /\ Taken(body, bits, 1, m - 16)
    BY <1>2, <1>3, <2>1, Stretch, Zenon
  <2> QED
    BY <2>1, <2>2, Zenon DEF Taken
<1>7. n = m - 16 /\ n + 16 = m
  <2> DEFINE size == m - 16
  <2>1. size \in Nat
    BY <1>3, <1>5
  <2>2. IsWord(body, size, Bit)
    BY <1>6
  <2> HIDE DEF size, body
  <2>3. Len(body) = size
    BY <2>1, <2>2, SeqOfLength, Zenon
  <2>4. size - 8 = 8 * payloadLength(type)
    BY <1>5, <2>3, Zenon
  <2>5. payloadLength(type) \in Nat
    BY CoveredNat
  <2> QED
    BY <1>3, <2>1, <2>4, <2>5 DEF Covered, size
<1> HIDE DEF body, n
<1>8. Unpacks(type, bits, body)
  BY <1>2, <1>5, <1>6, <1>7, Zenon DEF Unpacks, n
<1> QED
  BY <1>7, <1>8, Zenon DEF bits, m, n

\* What a valid strkey is made of: a version, a checksum, and zeros after it.
LEMMA Framed ==
  ASSUME NEW l \in Nat, NEW text, IsWord(text, l, 0 .. 34), NEW type \in StrKeyType, isValidStrKey(text, type)
  PROVE  /\ IsWord(text, l, Base32)
         /\ Covered(type) + 16 <= 5 * l /\ 5 * l < Covered(type) + 21
         /\ AreBits(Bits(text, 5), Covered(type))
         /\ \E c : Run(Bits(text, 5), Covered(type), c) /\ Stored(Bits(text, 5), Covered(type), c)
         /\ \A i \in Covered(type) + 17 .. 5 * l : Bits(text, 5)[i] = 0
         /\ \A j \in 1 .. 8 : Bits(text, 5)[j] = VersionBits(type)[j]
<1> DEFINE bits == decodeBase32(text)
           all == Bits(text, 5)
           m == 5 * l - ((5 * l) % 8)
           n == Covered(type)
<1>1. IsBase32(text)
  BY DEF isValidStrKey
<1>2. /\ IsWord(text, l, Base32) /\ (5 * l) % 8 \in 0 .. 4
      /\ \A i \in m + 1 .. 5 * l : all[i] = 0
      /\ IsWord(bits, m, Bit) /\ \A i \in 1 .. m : bits[i] = all[i]
  BY <1>1, Decoded
<1>3. m \in Nat /\ m <= 5 * l /\ 5 * l < m + 5
  BY <1>2
<1>4. m = n + 16 /\ \E body : Unpacks(type, bits, body)
  BY Unpacked, Zenon
<1> HIDE DEF bits, m, all
<1>5. PICK body : Unpacks(type, bits, body)
  BY <1>4
<1>6. SubSeq(bits, 1, 8) = VersionBits(type) /\ bits = body \o Checksum(body)
  BY <1>5 DEF Unpacks
<1>7. n = m - 16 /\ n \in Nat
  BY <1>4, CoveredNat
<1>8. IsWord(body, n, Bit) /\ \A i \in 1 .. n : body[i] = bits[i]
  BY <1>5, Zenon DEF Unpacks
<1>9. PICK c : Run(body, n, c) /\ crc16XModem(body) = c[n]
  BY <1>7, <1>8, RunOfCrc, Zenon
<1>10. /\ IsWord(Checksum(body), 16, Bit)
       /\ LowFirst(Checksum(body), c[n])
  BY <1>7, <1>8, <1>9, ChecksumAt, Zenon
<1>11. Glued(bits, body, n, Checksum(body), 16)
  <2>1. 16 \in Nat
    OBVIOUS
  <2> QED
    BY <1>6, <1>7, <1>8, <1>10, <2>1, Joined, Zenon
<1> HIDE DEF n
<1>12. \A i \in 1 .. n : all[i] = body[i]
  BY <1>2, <1>3, <1>7, <1>8
<1>13. AreBits(all, n)
  BY <1>8, <1>12 DEF AreBits, IsWord
<1>14. Run(all, n, c)
  BY <1>9, <1>12, Zenon DEF Run
<1>15. Stored(all, n, c)
  <2> SUFFICES ASSUME NEW k \in 1 .. 8
               PROVE  all[n + k] = c[n][8 + k] /\ all[n + 8 + k] = c[n][k]
    BY DEF Stored
  <2>1. /\ k \in 1 .. 16 /\ 8 + k \in 1 .. 16 /\ n + k \in 1 .. m /\ n + (8 + k) \in 1 .. m
        /\ n + (8 + k) = n + 8 + k
    BY <1>3, <1>7
  <2>2. bits[n + k] = Checksum(body)[k] /\ bits[n + (8 + k)] = Checksum(body)[8 + k]
    BY <1>11, <2>1, Zenon DEF Glued
  <2>3. all[n + k] = bits[n + k] /\ all[n + (8 + k)] = bits[n + (8 + k)]
    BY <1>2, <2>1, Zenon
  <2> QED
    BY <1>10, <2>1, <2>2, <2>3, Zenon DEF LowFirst
<1>16. \A i \in n + 17 .. 5 * l : all[i] = 0
  BY <1>2, <1>3, <1>7
<1>17. \A j \in 1 .. 8 : all[j] = VersionBits(type)[j]
  <2>1. /\ 1 \in 1 .. m + 1 /\ 8 \in 0 .. m /\ 1 <= 8 + 1
        /\ \A j \in 1 .. 8 : j \in 1 .. 8 - 1 + 1 /\ 1 + j - 1 = j /\ j \in 1 .. m
    BY <1>3, <1>7
  <2>2. Taken(SubSeq(bits, 1, 8), bits, 1, 8)
    BY <1>2, <1>3, <2>1, Stretch, Zenon
  <2> QED
    BY <1>2, <1>6, <2>1, <2>2, Zenon DEF Taken
<1>18. n + 16 <= 5 * l /\ 5 * l < n + 21
  BY <1>3, <1>7
<1> QED
  BY <1>2, <1>13, <1>14, <1>15, <1>16, <1>17, <1>18, Zenon DEF all, n

\* s and t of length l differ in the characters k and k + 1 at most.
AlikeBut(s, t, l, k) == k \in 1 .. l /\ \A i \in 1 .. l : i \notin {k, k + 1} => s[i] = t[i]

\* Two strkeys of a length that differ in two neighbouring characters at most
\* are the same: checksums find every slip, also across types.
THEOREM SlipFound ==
  ASSUME NEW l \in Nat, NEW s, NEW t, IsWord(s, l, 0 .. 34), IsWord(t, l, 0 .. 34),
         NEW one \in StrKeyType, isValidStrKey(s, one),
         NEW other \in StrKeyType, isValidStrKey(t, other),
         NEW k, AlikeBut(s, t, l, k)
  PROVE  s = t
<1>0. k \in 1 .. l /\ \A i \in 1 .. l : i \notin {k, k + 1} => s[i] = t[i]
  BY DEF AlikeBut
<1> DEFINE u == Bits(s, 5)
           v == Bits(t, 5)
           n == Covered(one)
<1>1. /\ IsWord(s, l, Base32) /\ n + 16 <= 5 * l /\ 5 * l < n + 21 /\ AreBits(u, n)
      /\ \E c : Run(u, n, c) /\ Stored(u, n, c)
      /\ \A i \in n + 17 .. 5 * l : u[i] = 0
  BY Framed, Zenon
<1>2. /\ IsWord(t, l, Base32) /\ Covered(other) + 16 <= 5 * l /\ 5 * l < Covered(other) + 21
      /\ AreBits(v, Covered(other))
      /\ \E c : Run(v, Covered(other), c) /\ Stored(v, Covered(other), c)
      /\ \A i \in Covered(other) + 17 .. 5 * l : v[i] = 0
  BY Framed, Zenon
<1>3. n \in Nat /\ Covered(other) = n
  BY <1>1, <1>2, CoveredNat DEF Covered
<1>4. /\ \A i \in 1 .. 5 * l : u[i] = Digit(s[(i - 1) \div 5 + 1], ((i - 1) % 5) + 1)
      /\ \A i \in 1 .. 5 * l : v[i] = Digit(t[(i - 1) \div 5 + 1], ((i - 1) % 5) + 1)
  BY <1>1, <1>2, BitsOfText, Zenon
<1> HIDE DEF u, v, n
<1>5. \A i \in 1 .. 5 * l : i \notin 5 * k - 4 .. 5 * k + 5 => u[i] = v[i]
  <2> SUFFICES ASSUME NEW i \in 1 .. 5 * l, i \notin 5 * k - 4 .. 5 * k + 5
               PROVE  u[i] = v[i]
    OBVIOUS
  <2>1. (i - 1) \div 5 + 1 \in 1 .. l /\ (i - 1) \div 5 + 1 \notin {k, k + 1}
    BY <1>0
  <2>2. s[(i - 1) \div 5 + 1] = t[(i - 1) \div 5 + 1]
    BY <1>0, <2>1
  <2> QED
    BY <1>4, <2>2
<1>6. \A i \in 1 .. 5 * l : u[i] = v[i]
  <2> DEFINE T == {i \in 1 .. 5 * l : u[i] # v[i]}
  <2> SUFFICES ASSUME T # {} PROVE FALSE
    OBVIOUS
  <2>1. PICK q \in T : \A x \in T : q <= x
    <3>1. T \subseteq Nat
      OBVIOUS
    <3> HIDE DEF T
    <3> QED
      BY <3>1, LeastNat
  <2>2. q \in 1 .. 5 * l /\ u[q] # v[q] /\ q >= 5 * k - 4
    BY <1>0, <1>5
  <2>3. \A i \in 1 .. 5 * l : i \notin q .. q + 9 => u[i] = v[i]
    <3> SUFFICES ASSUME NEW i \in 1 .. 5 * l, i \notin q .. q + 9, u[i] # v[i] PROVE FALSE
      OBVIOUS
    <3>1. q <= i
      BY <2>1
    <3>2. i \notin 5 * k - 4 .. 5 * k + 5
      BY <1>0, <2>2, <3>1
    <3> QED
      BY <1>5, <3>2
  <2> HIDE DEF T
  <2>4. q \in 1 .. n + 16
    BY <1>1, <1>2, <1>3, <2>2
  <2>5. \A i \in 1 .. n + 16 : i \notin q .. q + 9 => u[i] = v[i]
    BY <1>1, <1>3, <2>3
  <2>6. PICK a : Run(u, n, a) /\ Stored(u, n, a)
    BY <1>1
  <2>7. PICK b : Run(v, n, b) /\ Stored(v, n, b)
    BY <1>2, <1>3
  <2>8. AreBits(u, n) /\ AreBits(v, n)
    BY <1>1, <1>2, <1>3
  <2>9. u[q] = v[q]
    BY <1>3, <2>4, <2>5, <2>6, <2>7, <2>8, ShortBurstsFound
  <2> QED
    BY <2>2, <2>9
<1>7. \A i \in 1 .. l : s[i] = t[i]
  <2> TAKE i \in 1 .. l
  <2>1. s[i] \in Base32 /\ t[i] \in Base32
    BY <1>1, <1>2 DEF IsWord
  <2>2. \A j \in 1 .. 5 : Digit(s[i], j) = Digit(t[i], j)
    <3> TAKE j \in 1 .. 5
    <3> DEFINE p == 5 * (i - 1) + j
    <3>1. p \in 1 .. 5 * l /\ (p - 1) \div 5 + 1 = i /\ ((p - 1) % 5) + 1 = j
      OBVIOUS
    <3> HIDE DEF p
    <3>2. u[p] = Digit(s[i], j) /\ v[p] = Digit(t[i], j)
      BY <1>4, <3>1
    <3> QED
      BY <1>6, <3>1, <3>2
  <2> QED
    BY <2>1, <2>2, Digits
<1> QED
  BY <1>1, <1>2, <1>7 DEF IsWord

-----------------------------------------------------------------------------
\* The character an address begins with tells its kind.
Letter(type) == versionByte[type] \div 8

\* The first five bits of a version byte are the digits of that character.
LEMMA VersionDigits ==
  /\ \A type \in StrKeyType : Letter(type) \in Base32
  /\ \A type \in StrKeyType : IsWord(VersionBits(type), 8, Bit)
  /\ \A type \in StrKeyType : \A j \in 1 .. 5 : VersionBits(type)[j] = Digit(Letter(type), j)
<1>1. \A type \in StrKeyType : versionByte[type] \in {48, 96, 16, 88}
  BY DEF StrKeyType, versionByte
<1>2. ASSUME NEW type \in StrKeyType PROVE Letter(type) \in Base32
  BY <1>1 DEF Letter, Base32
<1>3. ASSUME NEW type \in StrKeyType
      PROVE  /\ IsWord(VersionBits(type), 8, Bit)
             /\ \A j \in 1 .. 5 : VersionBits(type)[j] = Digit(Letter(type), j)
  <2> DEFINE byte == versionByte[type]
  <2>1. Len(<<byte>>) = 1 /\ <<byte>>[1] = byte
    OBVIOUS
  <2>2. VersionBits(type) = [i \in 1 .. 8 * 1 |-> (<<byte>>[(i - 1) \div 8 + 1] \div (2 ^ (8 - 1 - ((i - 1) % 8)))) % 2]
    BY <2>1, Zenon DEF VersionBits, Bits
  <2>3. \A i \in 1 .. 8 * 1 : (i - 1) \div 8 + 1 = 1 /\ (i - 1) % 8 = i - 1 /\ 8 - 1 - (i - 1) = 8 - i
    OBVIOUS
  <2>4. VersionBits(type) = [i \in 1 .. 8 |-> (byte \div (2 ^ (8 - i))) % 2]
    BY <2>1, <2>2, <2>3
  <2>5. byte \in {48, 96, 16, 88}
    BY <1>1
  <2> HIDE DEF byte
  <2>6. \A i \in 1 .. 8 : (byte \div (2 ^ (8 - i))) % 2 \in Bit
    <3> TAKE i \in 1 .. 8
    <3>1. i = 1 \/ i = 2 \/ i = 3 \/ i = 4 \/ i = 5 \/ i = 6 \/ i = 7 \/ i = 8
      OBVIOUS
    <3>2. byte \in Int
      BY <2>5
    <3> QED
      BY <3>1, <3>2 DEF Bit
  <2>7. \A j \in 1 .. 5 : (byte \div (2 ^ (8 - j))) % 2 = Digit(byte \div 8, j)
    <3> TAKE j \in 1 .. 5
    <3>1. j = 1 \/ j = 2 \/ j = 3 \/ j = 4 \/ j = 5
      OBVIOUS
    <3>2. byte \in Nat
      BY <2>5
    <3>3. /\ (byte \div 128) % 2 = ((byte \div 8) \div 16) % 2 /\ (byte \div 64) % 2 = ((byte \div 8) \div 8) % 2
          /\ (byte \div 32) % 2 = ((byte \div 8) \div 4) % 2 /\ (byte \div 16) % 2 = ((byte \div 8) \div 2) % 2
          /\ (byte \div 8) % 2 = ((byte \div 8) \div 1) % 2
      BY <2>5
    <3>4. CASE j = 1
      <4>1. Digit(byte \div 8, 1) = ((byte \div 8) \div 16) % 2 /\ (2 ^ (8 - 1)) = 128
        BY DEF Digit
      <4> QED
        BY <3>3, <3>4, <4>1, Zenon
    <3>5. CASE j = 2
      <4>1. Digit(byte \div 8, 2) = ((byte \div 8) \div 8) % 2 /\ (2 ^ (8 - 2)) = 64
        BY DEF Digit
      <4> QED
        BY <3>3, <3>5, <4>1, Zenon
    <3>6. CASE j = 3
      <4>1. Digit(byte \div 8, 3) = ((byte \div 8) \div 4) % 2 /\ (2 ^ (8 - 3)) = 32
        BY DEF Digit
      <4> QED
        BY <3>3, <3>6, <4>1, Zenon
    <3>7. CASE j = 4
      <4>1. Digit(byte \div 8, 4) = ((byte \div 8) \div 2) % 2 /\ (2 ^ (8 - 4)) = 16
        BY DEF Digit
      <4> QED
        BY <3>3, <3>7, <4>1, Zenon
    <3>8. CASE j = 5
      <4>1. Digit(byte \div 8, 5) = ((byte \div 8) \div 1) % 2 /\ (2 ^ (8 - 5)) = 8
        BY DEF Digit
      <4> QED
        BY <3>3, <3>8, <4>1, Zenon
    <3> QED
      BY <3>1, <3>4, <3>5, <3>6, <3>7, <3>8
  <2> QED
    BY <2>4, <2>6, <2>7 DEF IsWord, Letter, byte
<1> QED
  BY <1>2, <1>3

\* A strkey of a type begins with its character.
LEMMA FirstCharacter ==
  ASSUME NEW l \in Nat, NEW text, IsWord(text, l, 0 .. 34), NEW type \in StrKeyType, isValidStrKey(text, type)
  PROVE  text[1] = Letter(type)
<1>1. /\ IsWord(text, l, Base32) /\ Covered(type) + 16 <= 5 * l
      /\ \A j \in 1 .. 8 : Bits(text, 5)[j] = VersionBits(type)[j]
  BY Framed, Zenon
<1>2. 1 \in 1 .. l
  BY <1>1, CoveredNat
<1>3. text[1] \in Base32
  BY <1>1, <1>2 DEF IsWord
<1>4. \A j \in 1 .. 5 : Digit(text[1], j) = Digit(Letter(type), j)
  <2> TAKE j \in 1 .. 5
  <2>1. j \in 1 .. 5 * l /\ j \in 1 .. 8 /\ (j - 1) \div 5 + 1 = 1 /\ ((j - 1) % 5) + 1 = j
    BY <1>2
  <2>2. Bits(text, 5)[j] = Digit(text[(j - 1) \div 5 + 1], ((j - 1) % 5) + 1)
    BY <1>1, <2>1, BitsOfText, Zenon
  <2> QED
    BY <1>1, <2>1, <2>2, VersionDigits, Zenon
<1> QED
  BY <1>3, <1>4, VersionDigits, Digits

\* A character alone has its five digits for bits, and any five bits are the
\* digits of a character.
LEMMA OneCharacter ==
  /\ \A x \in Base32 : /\ IsWord(Bits(<<x>>, 5), 5, Bit)
                       /\ \A j \in 1 .. 5 : Bits(<<x>>, 5)[j] = Digit(x, j)
  /\ \A b \in [1 .. 5 -> Bit] : \E x \in Base32 : \A j \in 1 .. 5 : b[j] = Digit(x, j)
<1>1. ASSUME NEW x \in Base32
      PROVE  IsWord(Bits(<<x>>, 5), 5, Bit) /\ \A j \in 1 .. 5 : Bits(<<x>>, 5)[j] = Digit(x, j)
  <2> DEFINE single == <<x>>
  <2>1. IsWord(single, 1, Base32) /\ single[1] = x
    BY DEF IsWord
  <2> HIDE DEF single
  <2>2. 1 \in Nat /\ 5 * 1 = 5 /\ \A j \in 1 .. 5 : (j - 1) \div 5 + 1 = 1 /\ ((j - 1) % 5) + 1 = j
    OBVIOUS
  <2>3. /\ IsWord(Bits(single, 5), 5 * 1, Bit)
        /\ \A j \in 1 .. 5 * 1 : Bits(single, 5)[j] = Digit(single[(j - 1) \div 5 + 1], ((j - 1) % 5) + 1)
    BY <2>1, <2>2, BitsOfText, Zenon
  <2>4. \A j \in 1 .. 5 : Bits(single, 5)[j] = Digit(x, j)
    BY <2>1, <2>2, <2>3, Zenon
  <2> QED
    BY <2>2, <2>3, <2>4, Zenon DEF single
<1>2. ASSUME NEW b \in [1 .. 5 -> Bit] PROVE \E x \in Base32 : \A j \in 1 .. 5 : b[j] = Digit(x, j)
  <2> DEFINE x == 16 * b[1] + 8 * b[2] + 4 * b[3] + 2 * b[4] + b[5]
  <2>1. b[1] \in 0 .. 1 /\ b[2] \in 0 .. 1 /\ b[3] \in 0 .. 1 /\ b[4] \in 0 .. 1 /\ b[5] \in 0 .. 1
    BY DEF Bit
  <2>2. x \in 0 .. 31
    BY <2>1
  <2>3. (x \div 16) % 2 = b[1] /\ (x \div 8) % 2 = b[2] /\ (x \div 4) % 2 = b[3]
    BY <2>1
  <2>4. (x \div 2) % 2 = b[4] /\ (x \div 1) % 2 = b[5]
    BY <2>1
  <2> HIDE DEF x
  <2>5. /\ Digit(x, 1) = (x \div 16) % 2 /\ Digit(x, 2) = (x \div 8) % 2 /\ Digit(x, 3) = (x \div 4) % 2
        /\ Digit(x, 4) = (x \div 2) % 2 /\ Digit(x, 5) = (x \div 1) % 2
    BY DEF Digit
  <2>6. \A j \in 1 .. 5 : b[j] = Digit(x, j)
    <3> TAKE j \in 1 .. 5
    <3>1. j = 1 \/ j = 2 \/ j = 3 \/ j = 4 \/ j = 5
      OBVIOUS
    <3> QED
      BY <2>3, <2>4, <2>5, <3>1, Zenon
  <2> QED
    BY <2>2, <2>6 DEF Base32
<1> QED
  BY <1>1, <1>2

\* The i-th of the n bits of w, and zeros behind them.
PaddedAt(w, n, i) == IF i <= n THEN w[i] ELSE 0

\* The k-th character of what is encoded has the k-th five bits for its digits.
Spells(text, w, n, k) == \A j \in 1 .. 5 : Digit(text[k], j) = PaddedAt(w, n, 5 * k - 5 + j)

\* Encoding is by five bits a character, the last one filled up with zeros.
LEMMA Encoded ==
  ASSUME NEW n \in Nat, NEW w, IsWord(w, n, Bit)
  PROVE  /\ IsWord(encodeBase32(w), (n + 4) \div 5, Base32)
         /\ \A k \in 1 .. (n + 4) \div 5 : Spells(encodeBase32(w), w, n, k)
<1> DEFINE padded == w \o Zeros(4)
           size == n + 4
           q == size \div 5
           Five(k) == SubSeq(padded, 5 * k - 4, 5 * k)
           Is(y, k) == Bits(<<y>>, 5) = Five(k)
<1>1. IsWord(Zeros(4), 4, Bit) /\ \A i \in 1 .. 4 : Zeros(4)[i] = 0
  BY DEF Zeros, IsWord, Bit
<1>2. IsWord(padded, size, Bit) /\ Glued(padded, w, n, Zeros(4), 4)
  <2>1. 4 \in Nat
    OBVIOUS
  <2> QED
    BY <1>1, <2>1, Joined, Zenon
<1>3. size \in Nat /\ q \in Nat /\ 5 * q <= size
  OBVIOUS
<1>4. \A i \in 1 .. size : padded[i] = PaddedAt(w, n, i)
  <2> TAKE i \in 1 .. size
  <2>1. CASE i <= n
    <3>1. i \in 1 .. n
      BY <2>1
    <3> QED
      BY <1>2, <2>1, <3>1, Zenon DEF Glued, PaddedAt
  <2>2. CASE ~ (i <= n)
    <3>1. i - n \in 1 .. 4 /\ n + (i - n) = i
      BY <2>2
    <3>2. padded[n + (i - n)] = Zeros(4)[i - n]
      BY <1>2, <3>1, Zenon DEF Glued
    <3> QED
      BY <1>1, <2>2, <3>1, <3>2, Zenon DEF PaddedAt
  <2> QED
    BY <2>1, <2>2
<1> HIDE DEF padded, size
<1>5. Len(padded) = size
  BY <1>2, <1>3, SeqOfLength, Zenon
<1>6. encodeBase32(w) = [k \in 1 .. q |-> CHOOSE y \in Base32 : Is(y, k)]
  BY <1>5, Zenon DEF encodeBase32, padded
<1> HIDE DEF q
<1>7. ASSUME NEW k \in 1 .. q
      PROVE  /\ IsWord(Five(k), 5, Bit)
             /\ \A j \in 1 .. 5 : Five(k)[j] = PaddedAt(w, n, 5 * k - 5 + j)
  <2>1. /\ 5 * k - 4 \in 1 .. size + 1 /\ 5 * k \in 0 .. size /\ 5 * k - 4 <= 5 * k + 1
        /\ 5 * k - (5 * k - 4) + 1 = 5
        /\ \A j \in 1 .. 5 : (5 * k - 4) + j - 1 = 5 * k - 5 + j /\ 5 * k - 5 + j \in 1 .. size
    BY <1>3
  <2>2. IsWord(Five(k), 5 * k - (5 * k - 4) + 1, Bit) /\ Taken(Five(k), padded, 5 * k - 4, 5 * k)
    BY <1>2, <1>3, <2>1, Stretch, Zenon
  <2>3. \A j \in 1 .. 5 : Five(k)[j] = padded[5 * k - 5 + j]
    BY <2>1, <2>2, Zenon DEF Taken
  <2> QED
    BY <1>4, <2>1, <2>2, <2>3, Zenon
<1> HIDE DEF Five
<1>8. ASSUME NEW k \in 1 .. q PROVE encodeBase32(w)[k] \in Base32 /\ Spells(encodeBase32(w), w, n, k)
  <2>1. \E y \in Base32 : Is(y, k)
    <3>1. PICK y \in Base32 : \A j \in 1 .. 5 : Five(k)[j] = Digit(y, j)
      BY <1>7, OneCharacter, Zenon DEF IsWord
    <3>2. IsWord(Bits(<<y>>, 5), 5, Bit) /\ \A j \in 1 .. 5 : Bits(<<y>>, 5)[j] = Digit(y, j)
      BY OneCharacter, Zenon
    <3>3. Bits(<<y>>, 5) = Five(k)
      BY <1>7, <3>1, <3>2 DEF IsWord
    <3> QED
      BY <3>3
  <2>2. encodeBase32(w)[k] = CHOOSE y \in Base32 : Is(y, k)
    BY <1>6
  <2> DEFINE x == encodeBase32(w)[k]
  <2> HIDE DEF Is
  <2>3. x \in Base32 /\ Is(x, k)
    BY <2>1, <2>2, Zenon
  <2> HIDE DEF x
  <2>4. \A j \in 1 .. 5 : Bits(<<x>>, 5)[j] = Digit(x, j)
    BY <2>3, OneCharacter, Zenon
  <2>5. \A j \in 1 .. 5 : Digit(x, j) = PaddedAt(w, n, 5 * k - 5 + j)
    BY <1>7, <2>3, <2>4, Zenon DEF Is
  <2> QED
    BY <2>3, <2>5, Zenon DEF Spells, x
<1>9. encodeBase32(w) = [k \in 1 .. q |-> encodeBase32(w)[k]]
  BY <1>6, Zenon
<1> QED
  BY <1>8, <1>9 DEF IsWord, q, size

\* What is decoded is encoded as it was: characters are wasted on nothing but
\* zeros.
LEMMA Reencoded ==
  ASSUME NEW l \in Nat, NEW text, IsWord(text, l, 0 .. 34), IsBase32(text)
  PROVE  encodeBase32(decodeBase32(text)) = text
<1> DEFINE all == Bits(text, 5)
           bits == decodeBase32(text)
           m == 5 * l - ((5 * l) % 8)
           again == encodeBase32(bits)
<1>1. /\ IsWord(text, l, Base32) /\ (5 * l) % 8 \in 0 .. 4
      /\ \A i \in m + 1 .. 5 * l : all[i] = 0
      /\ IsWord(bits, m, Bit) /\ \A i \in 1 .. m : bits[i] = all[i]
  BY Decoded
<1>2. \A i \in 1 .. 5 * l : all[i] = Digit(text[(i - 1) \div 5 + 1], ((i - 1) % 5) + 1)
  BY <1>1, BitsOfText
<1>3. m \in Nat /\ m <= 5 * l /\ 5 * l <= m + 4 /\ (m + 4) \div 5 = l
  BY <1>1
<1> HIDE DEF all, bits, m
<1>4. IsWord(again, l, Base32) /\ \A k \in 1 .. l : Spells(again, bits, m, k)
  BY <1>1, <1>3, Encoded, Zenon
<1> HIDE DEF again
<1>5. ASSUME NEW k \in 1 .. l PROVE again[k] = text[k]
  <2>1. ASSUME NEW j \in 1 .. 5 PROVE Digit(again[k], j) = Digit(text[k], j)
    <3> DEFINE i == 5 * k - 5 + j
    <3>1. i \in 1 .. 5 * l /\ (i - 1) \div 5 + 1 = k /\ ((i - 1) % 5) + 1 = j
      OBVIOUS
    <3>2. i \in 1 .. m \/ (i \in m + 1 .. 5 * l /\ ~ (i <= m))
      BY <1>3, <3>1
    <3>3. i \in 1 .. m => i <= m
      OBVIOUS
    <3> HIDE DEF i
    <3>4. PaddedAt(bits, m, i) = all[i]
      BY <1>1, <3>2, <3>3, Zenon DEF PaddedAt
    <3>5. Digit(again[k], j) = PaddedAt(bits, m, i)
      BY <1>4, Zenon DEF Spells, i
    <3> QED
      BY <1>2, <3>1, <3>4, <3>5, Zenon
  <2>2. again[k] \in Base32 /\ text[k] \in Base32
    BY <1>1, <1>4 DEF IsWord
  <2> QED
    BY <2>1, <2>2, Digits
<1> QED
  BY <1>1, <1>4, <1>5 DEF IsWord, again, bits

\* Whole bytes come back as they were.
LEMMA Redecoded ==
  ASSUME NEW n \in Nat, n % 8 = 0, n # 0, NEW w, IsWord(w, n, Bit)
  PROVE  /\ IsWord(encodeBase32(w), (n + 4) \div 5, Base32)
         /\ IsBase32(encodeBase32(w))
         /\ decodeBase32(encodeBase32(w)) = w
<1> DEFINE text == encodeBase32(w)
           q == (n + 4) \div 5
           all == Bits(text, 5)
<1>1. IsWord(text, q, Base32) /\ \A k \in 1 .. q : Spells(text, w, n, k)
  BY Encoded
<1>2. q \in Nat /\ q >= 1 /\ n <= 5 * q /\ 5 * q <= n + 4
  OBVIOUS
<1>3. (5 * q) % 8 = 5 * q - n
  BY <1>2
<1> HIDE DEF text, q
<1>4. IsWord(all, 5 * q, Bit) /\ \A i \in 1 .. 5 * q : all[i] = Digit(text[(i - 1) \div 5 + 1], ((i - 1) % 5) + 1)
  BY <1>1, <1>2, BitsOfText, Zenon
<1> HIDE DEF all
<1>5. ASSUME NEW i \in 1 .. 5 * q PROVE all[i] = PaddedAt(w, n, i)
  <2> DEFINE k == (i - 1) \div 5 + 1
             j == ((i - 1) % 5) + 1
  <2>1. k \in 1 .. q /\ j \in 1 .. 5 /\ 5 * k - 5 + j = i
    BY <1>2
  <2>2. all[i] = Digit(text[k], j)
    BY <1>4
  <2> HIDE DEF k, j
  <2>3. Digit(text[k], j) = PaddedAt(w, n, 5 * k - 5 + j)
    BY <1>1, <2>1, Zenon DEF Spells
  <2> QED
    BY <2>1, <2>2, <2>3, Zenon
<1>6. 5 * q \in Nat
  BY <1>2
<1>7. Len(all) = 5 * q
  <2> DEFINE size == 5 * q
  <2>1. size \in Nat /\ IsWord(all, size, Bit)
    BY <1>4, <1>6
  <2> HIDE DEF size
  <2>2. Len(all) = size
    BY <2>1, SeqOfLength, Zenon
  <2> QED
    BY <2>2 DEF size
<1>8. IsBase32(text)
  <2>1. text # <<>>
    <3>1. 1 \in DOMAIN text
      BY <1>1, <1>2 DEF IsWord
    <3> QED
      BY <3>1
  <2>2. \A i \in DOMAIN text : text[i] \in Base32
    BY <1>1 DEF IsWord
  <2>3. ZeroPadding(all)
    <3>1. (5 * q) % 8 < 5 /\ 5 * q - ((5 * q) % 8) = n
      BY <1>2, <1>3
    <3>2. ASSUME NEW i \in n + 1 .. 5 * q PROVE all[i] = 0
      <4>1. i \in 1 .. 5 * q /\ ~ (i <= n)
        BY <1>2
      <4> QED
        BY <1>5, <4>1, Zenon DEF PaddedAt
    <3> QED
      BY <1>7, <3>1, <3>2, Zenon DEF ZeroPadding
  <2> QED
    BY <2>1, <2>2, <2>3, Zenon DEF IsBase32, all
<1>9. /\ IsWord(decodeBase32(text), n, Bit)
      /\ \A i \in 1 .. n : decodeBase32(text)[i] = all[i]
  <2>1. 5 * q - ((5 * q) % 8) = n
    BY <1>2, <1>3
  <2>2. IsWord(text, q, 0 .. 34)
    BY <1>1 DEF IsWord, Base32
  <2> QED
    BY <1>2, <1>8, <2>1, <2>2, Decoded, Zenon DEF all
<1>10. \A i \in 1 .. n : decodeBase32(text)[i] = w[i]
  <2> TAKE i \in 1 .. n
  <2>1. i \in 1 .. 5 * q /\ i <= n
    BY <1>2
  <2> QED
    BY <1>5, <1>9, <2>1, Zenon DEF PaddedAt
<1>11. decodeBase32(text) = w
  BY <1>9, <1>10 DEF IsWord
<1> QED
  BY <1>1, <1>8, <1>11, Zenon DEF text, q

\* A valid strkey is the encoding of its payload: there is no other spelling,
\* with other characters, with other bits left over or with more of them.
LEMMA Respelled ==
  ASSUME NEW l \in Nat, NEW text, IsWord(text, l, 0 .. 34), NEW type \in StrKeyType, isValidStrKey(text, type)
  PROVE  /\ IsWord(Payload(text), 8 * payloadLength(type), Bit)
         /\ encodeStrKey(type, Payload(text)) = text
<1> DEFINE bits == decodeBase32(text)
           n == Covered(type)
           size == 8 * payloadLength(type)
           key == Payload(text)
           version == VersionBits(type)
<1>1. IsBase32(text)
  BY DEF isValidStrKey
<1>2. encodeBase32(bits) = text
  BY <1>1, Reencoded, Zenon
<1>3. PICK body : Unpacks(type, bits, body)
  BY Unpacked, Zenon
<1> HIDE DEF bits
<1>4. /\ IsWord(bits, n + 16, Bit) /\ IsWord(body, n, Bit) /\ \A i \in 1 .. n : body[i] = bits[i]
      /\ bits = body \o Checksum(body) /\ SubSeq(bits, 1, 8) = version
  BY <1>3, Zenon DEF Unpacks
<1>5. n = 8 + size /\ size \in Nat /\ n \in Nat /\ n + 16 \in Nat
  BY CoveredNat DEF Covered
<1> HIDE DEF n, size
<1>6. Len(bits) = n + 16
  <2> DEFINE m == n + 16
  <2>1. m \in Nat /\ IsWord(bits, m, Bit)
    BY <1>4, <1>5
  <2> HIDE DEF m
  <2>2. Len(bits) = m
    BY <2>1, SeqOfLength, Zenon
  <2> QED
    BY <2>2 DEF m
<1>7. key = SubSeq(bits, 9, n)
  <2>1. (n + 16) - 16 = n
    BY <1>5
  <2> QED
    BY <1>6, <2>1, Zenon DEF Payload, bits
<1> HIDE DEF key
<1>8. IsWord(key, size, Bit) /\ \A i \in 1 .. size : key[i] = bits[8 + i]
  <2>1. /\ 9 \in 1 .. (n + 16) + 1 /\ n \in 0 .. n + 16 /\ 9 <= n + 1 /\ n - 9 + 1 = size
        /\ \A i \in 1 .. size : 9 + i - 1 = 8 + i
    BY <1>5
  <2>2. IsWord(SubSeq(bits, 9, n), n - 9 + 1, Bit) /\ Taken(SubSeq(bits, 9, n), bits, 9, n)
    BY <1>4, <1>5, <2>1, Stretch, Zenon
  <2> QED
    BY <1>7, <2>1, <2>2, Zenon DEF Taken
<1>9. IsWord(version, 8, Bit) /\ \A i \in 1 .. 8 : version[i] = bits[i]
  <2>1. /\ 1 \in 1 .. (n + 16) + 1 /\ 8 \in 0 .. n + 16 /\ 1 <= 8 + 1 /\ 8 - 1 + 1 = 8
        /\ \A i \in 1 .. 8 : 1 + i - 1 = i
    BY <1>5
  <2>2. IsWord(SubSeq(bits, 1, 8), 8 - 1 + 1, Bit) /\ Taken(SubSeq(bits, 1, 8), bits, 1, 8)
    BY <1>4, <1>5, <2>1, Stretch, Zenon
  <2> QED
    BY <1>4, <2>1, <2>2, Zenon DEF Taken
<1> HIDE DEF version
<1>10. version \o key = body
  <2> DEFINE framed == version \o key
  <2>1. IsWord(framed, 8 + size, Bit) /\ Glued(framed, version, 8, key, size)
    <3>1. 8 \in Nat
      OBVIOUS
    <3> QED
      BY <1>5, <1>8, <1>9, <3>1, Joined, Zenon
  <2> HIDE DEF framed
  <2>2. ASSUME NEW i \in 1 .. n PROVE framed[i] = body[i]
    <3>1. CASE i <= 8
      <4>1. i \in 1 .. 8
        BY <3>1
      <4> QED
        BY <1>4, <1>9, <2>1, <4>1, Zenon DEF Glued
    <3>2. CASE ~ (i <= 8)
      <4>1. i - 8 \in 1 .. size /\ 8 + (i - 8) = i
        BY <1>5, <3>2
      <4>2. framed[8 + (i - 8)] = key[i - 8] /\ key[i - 8] = bits[8 + (i - 8)]
        BY <1>8, <2>1, <4>1, Zenon DEF Glued
      <4> QED
        BY <1>4, <4>1, <4>2, Zenon
    <3> QED
      BY <3>1, <3>2
  <2>3. framed = body
    BY <1>4, <1>5, <2>1, <2>2 DEF IsWord
  <2> QED
    BY <2>3 DEF framed
<1>11. encodeStrKey(type, key) = encodeBase32(body \o Checksum(body))
  BY <1>10, Zenon DEF encodeStrKey, version
<1> QED
  BY <1>2, <1>4, <1>8, <1>11, Zenon DEF key, size

\* What encodeStrKey makes of a payload of the right length is a valid strkey
\* of the type, and holds that payload.
THEOREM EncodedIsValid ==
  ASSUME NEW type \in StrKeyType, NEW payload, IsWord(payload, 8 * payloadLength(type), Bit)
  PROVE  /\ \E l \in Nat : IsWord(encodeStrKey(type, payload), l, Base32)
         /\ isValidStrKey(encodeStrKey(type, payload), type)
         /\ Payload(encodeStrKey(type, payload)) = payload
<1> DEFINE version == VersionBits(type)
           size == 8 * payloadLength(type)
           framed == version \o payload
           n == 8 + size
           sum == Checksum(framed)
           bits == framed \o sum
           m == n + 16
           text == encodeBase32(bits)
<1>1. size \in Nat /\ size % 8 = 0
  BY CoveredNat
<1>2. IsWord(version, 8, Bit) /\ 8 \in Nat /\ 16 \in Nat
  BY VersionDigits
<1>3. IsWord(payload, size, Bit)
  OBVIOUS
<1> HIDE DEF version, size
<1>4. IsWord(framed, n, Bit) /\ Glued(framed, version, 8, payload, size)
  BY <1>1, <1>2, <1>3, Joined, Zenon
<1>5. n \in Nat /\ m \in Nat /\ m % 8 = 0 /\ m # 0 /\ m >= 24 /\ n >= 8 /\ m - 16 = n /\ n - 8 = size
  BY <1>1
<1> HIDE DEF framed, n
<1>6. IsWord(sum, 16, Bit)
  <2>1. PICK c : Run(framed, n, c) /\ crc16XModem(framed) = c[n]
    BY <1>4, <1>5, RunOfCrc, Zenon
  <2> QED
    BY <1>4, <1>5, <2>1, ChecksumAt, Zenon
<1> HIDE DEF sum
<1>7. IsWord(bits, m, Bit) /\ Glued(bits, framed, n, sum, 16)
  BY <1>2, <1>4, <1>5, <1>6, Joined, Zenon
<1> HIDE DEF m
<1>8. \A i \in 1 .. n : bits[i] = framed[i]
  BY <1>7, Zenon DEF Glued
<1>9. bits = framed \o sum
  OBVIOUS
<1> HIDE DEF bits
<1>10. /\ IsWord(text, (m + 4) \div 5, Base32)
       /\ IsBase32(text) /\ decodeBase32(text) = bits
  BY <1>5, <1>7, Redecoded
<1> HIDE DEF text
<1>11. Len(bits) = m /\ Len(framed) = n
  BY <1>4, <1>5, <1>7, SeqOfLength, Zenon
<1>12. SubSeq(bits, 1, 8) = version
  <2>1. /\ 1 \in 1 .. m + 1 /\ 8 \in 0 .. m /\ 1 <= 8 + 1 /\ 8 - 1 + 1 = 8
        /\ \A i \in 1 .. 8 : 1 + i - 1 = i /\ i \in 1 .. n
    BY <1>5
  <2>2. \A i \in 1 .. 8 : version[i] = bits[1 + i - 1]
    BY <1>4, <1>8, <2>1, Zenon DEF Glued
  <2>3. IsWord(version, 8 - 1 + 1, Bit) /\ Taken(version, bits, 1, 8)
    BY <1>2, <2>1, <2>2, Zenon DEF Taken
  <2> QED
    BY <1>5, <1>7, <2>1, <2>3, IsStretch, Zenon
<1>13. SubSeq(bits, 1, m - 16) = framed
  <2>1. /\ 1 \in 1 .. m + 1 /\ n \in 0 .. m /\ 1 <= n + 1 /\ n - 1 + 1 = n
        /\ \A i \in 1 .. n : 1 + i - 1 = i
    BY <1>5
  <2>2. \A i \in 1 .. n : framed[i] = bits[1 + i - 1]
    BY <1>8, <2>1, Zenon
  <2>3. IsWord(framed, n - 1 + 1, Bit) /\ Taken(framed, bits, 1, n)
    BY <1>4, <2>1, <2>2, Zenon DEF Taken
  <2>4. SubSeq(bits, 1, n) = framed
    BY <1>5, <1>7, <2>1, <2>3, IsStretch, Zenon
  <2> QED
    BY <1>5, <2>4
<1>14. SubSeq(bits, 9, m - 16) = payload
  <2>1. /\ 9 \in 1 .. m + 1 /\ n \in 0 .. m /\ 9 <= n + 1 /\ n - 9 + 1 = size
        /\ \A i \in 1 .. size : 9 + i - 1 = 8 + i /\ 8 + i \in 1 .. n
    BY <1>1, <1>5
  <2>2. \A i \in 1 .. size : payload[i] = bits[9 + i - 1]
    BY <1>4, <1>8, <2>1, Zenon DEF Glued
  <2>3. IsWord(payload, n - 9 + 1, Bit) /\ Taken(payload, bits, 9, n)
    BY <1>3, <2>1, <2>2, Zenon DEF Taken
  <2>4. SubSeq(bits, 9, n) = payload
    BY <1>5, <1>7, <2>1, <2>3, IsStretch, Zenon
  <2> QED
    BY <1>5, <2>4
<1>15. encodeStrKey(type, payload) = text
  BY Zenon DEF encodeStrKey, text, bits, sum, framed, version
<1>16. isValidStrKey(text, type)
  <2>1. Len(SubSeq(bits, 1, Len(bits) - 16)) - 8 = 8 * payloadLength(type)
    BY <1>5, <1>11, <1>13, Zenon DEF size
  <2>2. bits = SubSeq(bits, 1, Len(bits) - 16) \o Checksum(SubSeq(bits, 1, Len(bits) - 16))
    BY <1>9, <1>11, <1>13, Zenon DEF sum
  <2> QED
    BY <1>5, <1>10, <1>11, <1>12, <2>1, <2>2, Zenon DEF isValidStrKey, version
<1>17. Payload(text) = payload
  BY <1>10, <1>11, <1>14, Zenon DEF Payload
<1>18. (m + 4) \div 5 \in Nat
  BY <1>5
<1> QED
  BY <1>10, <1>15, <1>16, <1>17, <1>18, Zenon

\* No two strkeys of a type are the same key: the bits left over at the end of
\* one, and its checksum, leave nothing to choose.
THEOREM OneSpelling ==
  ASSUME NEW s \in Seq(0 .. 34), NEW t \in Seq(0 .. 34), NEW type \in StrKeyType,
         isValidStrKey(s, type), isValidStrKey(t, type), Payload(s) = Payload(t)
  PROVE  s = t
<1>1. \A text \in Seq(0 .. 34) : \E l \in Nat : IsWord(text, l, 0 .. 34)
  <2> TAKE text \in Seq(0 .. 34)
  <2>1. Len(text) \in Nat
    BY LenProperties, Zenon
  <2> QED
    BY <2>1, SeqOfLength, Zenon
<1>2. \A text \in Seq(0 .. 34) : isValidStrKey(text, type) => encodeStrKey(type, Payload(text)) = text
  BY <1>1, Respelled, Zenon
<1> QED
  BY <1>2, Zenon

\* A subaccount is looked up under the address of the account it belongs to.
LEMMA CanonicalAccount ==
  ASSUME NEW l \in Nat, NEW text, IsWord(text, l, 0 .. 34), isValidStrKey(text, "med25519PublicKey")
  PROVE  /\ \E k \in Nat : IsWord(canonical(text), k, Base32)
         /\ isValidStrKey(canonical(text), "ed25519PublicKey")
         /\ Payload(canonical(text)) = SubSeq(Payload(text), 1, 8 * KeyLength)
<1> DEFINE med == "med25519PublicKey"
           ed == "ed25519PublicKey"
           whole == Payload(text)
           p == 8 * payloadLength(med)
           size == 8 * KeyLength
           key == SubSeq(whole, 1, size)
<1>1. med \in StrKeyType /\ ed \in StrKeyType
  BY DEF StrKeyType
<1>2. IsWord(whole, p, Bit)
  BY <1>1, Respelled, Zenon
<1>3. /\ p \in Nat /\ 1 \in 1 .. p + 1 /\ size \in 0 .. p /\ 1 <= size + 1 /\ size - 1 + 1 = size
      /\ 8 * payloadLength(ed) = size
  BY LengthAssumption DEF payloadLength
<1> HIDE DEF whole, p, size
<1>4. IsWord(key, 8 * payloadLength(ed), Bit)
  <2>1. IsWord(key, size - 1 + 1, Bit)
    BY <1>2, <1>3, Stretch, Zenon
  <2> QED
    BY <1>3, <2>1
<1>5. canonical(text) = encodeStrKey(ed, key)
  BY Zenon DEF canonical, whole, size
<1> HIDE DEF key
<1>6. /\ \E k \in Nat : IsWord(canonical(text), k, Base32)
      /\ isValidStrKey(canonical(text), ed) /\ Payload(canonical(text)) = key
  BY <1>1, <1>4, <1>5, EncodedIsValid, Zenon
<1> QED
  BY <1>6, Zenon DEF key, whole, size

-----------------------------------------------------------------------------
\* Destinations.

\* A slip changes two neighbouring characters at most, of the address.
LEMMA SlipShape ==
  ASSUME NEW l \in Nat, NEW text, IsWord(text, l, 0 .. 34), NEW slip \in Mistyped(text)
  PROVE  /\ IsWord(slip, l, 0 .. 34)
         /\ \E k \in AddressPart(text) : \A i \in 1 .. l : i \notin {k, k + 1} => slip[i] = text[i]
<1>1. DOMAIN text = 1 .. l /\ AddressPart(text) \subseteq 1 .. l
  BY DEF IsWord, AddressPart
<1>2. CASE \E k \in AddressPart(text), x \in 0 .. 34 : slip = [text EXCEPT ![k] = x]
  BY <1>1, <1>2 DEF IsWord
<1>3. CASE \E k \in {j \in AddressPart(text) : j + 1 \in DOMAIN text} :
             slip = [text EXCEPT ![k] = text[k + 1], ![k + 1] = text[k]]
  <2>1. PICK k \in AddressPart(text) : k + 1 \in 1 .. l /\ slip = [text EXCEPT ![k] = text[k + 1], ![k + 1] = text[k]]
    BY <1>1, <1>3
  <2>2. k \in 1 .. l
    BY <1>1
  <2> QED
    BY <2>1, <2>2 DEF IsWord
<1> QED
  BY <1>2, <1>3 DEF Mistyped

\* What is meant is a text.
LEMMA IntendedWord == \A text \in Intended : Len(text) \in Nat /\ IsWord(text, Len(text), 0 .. 34)
<1> TAKE text \in Intended
<1> DEFINE l == Len(text)
<1>1. text \in Seq(0 .. 34)
  BY IntendedAssumption
<1>2. l \in Nat
  BY <1>1, LenProperties, Zenon
<1> HIDE DEF l
<1>3. l = Len(text)
  BY DEF l
<1> QED
  BY <1>1, <1>2, <1>3, SeqOfLength, Zenon

\* A slip that is accepted changed nothing, or made an asset of a subaccount.
LEMMA SlipRefused ==
  ASSUME NEW text \in Intended, NEW slip \in Mistyped(text), validateDestination(slip)
  PROVE  \/ slip = text
         \/ Colons(slip) # {} /\ isValidStrKey(text, "med25519PublicKey")
<1> DEFINE l == Len(text)
<1>1. l \in Nat /\ IsWord(text, l, 0 .. 34) /\ validateDestination(text)
  BY IntendedWord, IntendedAssumption
<1> HIDE DEF l
<1>2. IsWord(slip, l, 0 .. 34)
  BY <1>1, SlipShape, Zenon
<1>3. PICK k \in AddressPart(text) : \A i \in 1 .. l : i \notin {k, k + 1} => slip[i] = text[i]
  BY <1>1, SlipShape, Zenon
<1>4. k \in 1 .. l /\ \A c \in Colons(text) : c < k
  BY <1>1 DEF AddressPart, IsWord
<1>5. Len(text) = l /\ Len(slip) = l
  <2> DEFINE S == 0 .. 34
  <2>1. l \in Nat /\ IsWord(text, l, S) /\ IsWord(slip, l, S)
    BY <1>1, <1>2
  <2> HIDE DEF S
  <2> QED
    BY <2>1, SeqOfLength, Zenon
<1>6. ASSUME NEW c \in 1 .. l
      PROVE  /\ l - c \in Nat
             /\ IsWord(SubSeq(text, c + 1, l), l - c, 0 .. 34) /\ IsWord(SubSeq(slip, c + 1, l), l - c, 0 .. 34)
             /\ \A i \in 1 .. l - c : SubSeq(text, c + 1, l)[i] = text[c + i] /\ SubSeq(slip, c + 1, l)[i] = slip[c + i]
  <2>1. /\ c + 1 \in 1 .. l + 1 /\ l \in 0 .. l /\ c + 1 <= l + 1 /\ l - (c + 1) + 1 = l - c /\ l - c \in Nat
        /\ \A i \in 1 .. l - c : (c + 1) + i - 1 = c + i
    BY <1>1
  <2>2. IsWord(SubSeq(text, c + 1, l), l - (c + 1) + 1, 0 .. 34) /\ Taken(SubSeq(text, c + 1, l), text, c + 1, l)
    BY <1>1, <2>1, Stretch, Zenon
  <2>3. IsWord(SubSeq(slip, c + 1, l), l - (c + 1) + 1, 0 .. 34) /\ Taken(SubSeq(slip, c + 1, l), slip, c + 1, l)
    BY <1>1, <1>2, <2>1, Stretch, Zenon
  <2> QED
    BY <2>1, <2>2, <2>3, Zenon DEF Taken
<1>7. CASE Colons(text) # {}
  <2>1. PICK c \in Colons(text) :
          Colons(text) = {c} /\ isValidStrKey(SubSeq(text, c + 1, l), "ed25519PublicKey")
    BY <1>1, <1>5, <1>7 DEF validateDestination, validateAsset
  <2>2. c \in 1 .. l /\ c < k /\ text[c] = Colon
    BY <1>1, <1>4 DEF Colons, IsWord
  <2>3. slip[c] = text[c] /\ DOMAIN slip = 1 .. l
    BY <1>2, <1>3, <1>4, <2>2 DEF IsWord
  <2>4. c \in Colons(slip)
    BY <2>2, <2>3 DEF Colons
  <2>5. isValidStrKey(SubSeq(slip, c + 1, l), "ed25519PublicKey")
    <3>1. PICK d \in Colons(slip) :
            Colons(slip) = {d} /\ isValidStrKey(SubSeq(slip, d + 1, l), "ed25519PublicKey")
      BY <1>5, <2>4 DEF validateDestination, validateAsset
    <3>2. d = c
      BY <2>4, <3>1
    <3> QED
      BY <3>1, <3>2
  <2> DEFINE s == SubSeq(text, c + 1, l)
             t == SubSeq(slip, c + 1, l)
             n == l - c
             p == k - c
  <2>6. /\ n \in Nat /\ IsWord(s, n, 0 .. 34) /\ IsWord(t, n, 0 .. 34)
        /\ \A i \in 1 .. n : s[i] = text[c + i] /\ t[i] = slip[c + i]
    BY <1>6, <2>2
  <2>7. isValidStrKey(s, "ed25519PublicKey") /\ isValidStrKey(t, "ed25519PublicKey")
    BY <2>1, <2>5
  <2>8. "ed25519PublicKey" \in StrKeyType
    BY DEF StrKeyType
  <2> HIDE DEF s, t
  <2>9. AlikeBut(s, t, n, p)
    <3>1. p \in 1 .. n
      BY <1>1, <1>4, <2>2
    <3>2. ASSUME NEW i \in 1 .. n, i \notin {p, p + 1} PROVE s[i] = t[i]
      <4>1. c + i \in 1 .. l /\ c + i \notin {k, k + 1}
        BY <1>1, <1>4, <2>2, <3>2
      <4> QED
        BY <1>3, <2>6, <4>1
    <3> QED
      BY <3>1, <3>2 DEF AlikeBut
  <2> HIDE DEF n, p
  <2>10. s = t
    BY <2>6, <2>7, <2>8, <2>9, SlipFound, Zenon
  <2>11. \A i \in 1 .. l : slip[i] = text[i]
    <3> TAKE i \in 1 .. l
    <3>1. CASE i <= c
      BY <1>3, <1>4, <2>2, <3>1
    <3>2. CASE i > c
      <4>1. i - c \in 1 .. n /\ c + (i - c) = i
        BY <1>1, <2>2, <3>2 DEF n
      <4> QED
        BY <2>6, <2>10, <4>1
    <3> QED
      BY <2>2, <3>1, <3>2
  <2> QED
    BY <1>1, <1>2, <2>11 DEF IsWord
<1>8. CASE Colons(text) = {}
  <2>1. PICK type \in StrKeyType : isValidStrKey(text, type)
    BY <1>1, <1>8 DEF validateDestination
  <2>2. CASE Colons(slip) = {}
    <3>1. PICK other \in StrKeyType : isValidStrKey(slip, other)
      BY <2>2 DEF validateDestination
    <3>2. AlikeBut(text, slip, l, k)
      BY <1>3, <1>4 DEF AlikeBut
    <3>3. text = slip
      BY <1>1, <1>2, <2>1, <3>1, <3>2, SlipFound, Zenon
    <3> QED
      BY <3>3
  <2>3. CASE Colons(slip) # {} /\ type # "med25519PublicKey"
    <3>1. PICK c \in Colons(slip) : isValidStrKey(SubSeq(slip, c + 1, l), "ed25519PublicKey")
      BY <1>5, <2>3 DEF validateDestination, validateAsset
    <3>2. c \in 1 .. l
      BY <1>2 DEF Colons, IsWord
    <3> DEFINE t == SubSeq(slip, c + 1, l)
               n == l - c
    <3>3. n \in Nat /\ IsWord(t, n, 0 .. 34) /\ isValidStrKey(t, "ed25519PublicKey")
      BY <1>6, <3>1, <3>2
    <3>4. "ed25519PublicKey" \in StrKeyType /\ Covered("ed25519PublicKey") = Covered(type)
      BY <2>3 DEF StrKeyType, Covered, payloadLength
    <3> HIDE DEF t, n
    <3>5. Covered("ed25519PublicKey") + 16 <= 5 * n
      BY <3>3, <3>4, Framed, Zenon
    <3>6. 5 * l < Covered(type) + 21
      BY <1>1, <2>1, Framed, Zenon
    <3>7. Covered(type) \in Nat
      BY CoveredNat
    <3> QED
      BY <1>1, <3>2, <3>4, <3>5, <3>6, <3>7 DEF n
  <2> QED
    BY <2>1, <2>2, <2>3
<1> QED
  BY <1>7, <1>8

\* What the contract is asked about has a colon or a key of its own kind.
LEMMA AskedForScorable ==
  ASSUME NEW l \in Nat, NEW text, IsWord(text, l, 0 .. 34), validateDestination(text)
  PROVE  Colons(canonical(text)) # {} \/ canonical(text)[1] \in Scorable
<1>1. CASE isValidStrKey(text, "med25519PublicKey")
  <2>1. "ed25519PublicKey" \in StrKeyType \ {"med25519PublicKey"}
    BY DEF StrKeyType
  <2>2. canonical(text)[1] = Letter("ed25519PublicKey")
    <3>1. PICK k \in Nat : IsWord(canonical(text), k, 0 .. 34)
      BY <1>1, CanonicalAccount DEF IsWord, Base32
    <3> QED
      BY <1>1, <2>1, <3>1, CanonicalAccount, FirstCharacter
  <2> QED
    BY <2>1, <2>2, Zenon DEF Scorable, Letter
<1>2. CASE ~ isValidStrKey(text, "med25519PublicKey")
  <2>1. canonical(text) = text
    BY <1>2 DEF canonical
  <2>2. CASE Colons(text) = {}
    <3>1. PICK type \in StrKeyType : isValidStrKey(text, type)
      BY <2>2 DEF validateDestination
    <3>2. type \in StrKeyType \ {"med25519PublicKey"}
      BY <1>2, <3>1
    <3>3. text[1] = Letter(type)
      BY <3>1, FirstCharacter
    <3> QED
      BY <2>1, <3>2, <3>3, Zenon DEF Scorable, Letter
  <2> QED
    BY <2>1, <2>2
<1> QED
  BY <1>1, <1>2

\* There is no colon in an address.
LEMMA NoColon ==
  ASSUME NEW k \in Nat, NEW text, IsWord(text, k, Base32)
  PROVE  IsWord(text, k, 0 .. 34) /\ Colons(text) = {}
<1>1. \A i \in 1 .. k : text[i] \in 0 .. 31
  BY DEF IsWord, Base32
<1>2. \A i \in 1 .. k : text[i] # 32
  BY <1>1
<1>3. DOMAIN text = 1 .. k
  BY DEF IsWord
<1>4. IsWord(text, k, 0 .. 34)
  BY DEF IsWord, Base32
<1> QED
  BY <1>2, <1>3, <1>4, Zenon DEF Colons, Colon

\* The canonical form of a destination is a destination, and its own canonical
\* form: a lookup never leads on to another one.
THEOREM CanonicalForm ==
  ASSUME NEW l \in Nat, NEW text, IsWord(text, l, 0 .. 34), validateDestination(text)
  PROVE  validateDestination(canonical(text)) /\ canonical(canonical(text)) = canonical(text)
<1> DEFINE ed == "ed25519PublicKey"
           med == "med25519PublicKey"
<1>1. CASE isValidStrKey(text, med)
  <2>1. ed \in StrKeyType /\ med \in StrKeyType
    BY DEF StrKeyType
  <2>2. PICK k \in Nat : IsWord(canonical(text), k, Base32)
    BY <1>1, CanonicalAccount, Zenon
  <2>3. isValidStrKey(canonical(text), ed)
    BY <1>1, CanonicalAccount, Zenon
  <2> DEFINE account == canonical(text)
  <2> HIDE DEF account
  <2>4. IsWord(account, k, 0 .. 34) /\ Colons(account) = {}
    BY <2>2, NoColon DEF account
  <2>5. validateDestination(account)
    BY <2>1, <2>3, <2>4, Zenon DEF validateDestination, account
  <2>6. ~ isValidStrKey(account, med)
    <3> SUFFICES ASSUME isValidStrKey(account, med) PROVE FALSE
      OBVIOUS
    <3>1. account[1] = Letter(ed) /\ account[1] = Letter(med)
      BY <2>1, <2>3, <2>4, FirstCharacter, Zenon DEF account
    <3>2. Letter(ed) = 6 /\ Letter(med) = 12
      BY DEF Letter, versionByte
    <3> QED
      BY <3>1, <3>2
  <2>7. canonical(account) = account
    BY <2>6 DEF canonical
  <2> QED
    BY <2>5, <2>7 DEF account
<1>2. CASE ~ isValidStrKey(text, med)
  <2>1. canonical(text) = text
    BY <1>2 DEF canonical
  <2> QED
    BY <2>1
<1> QED
  BY <1>1, <1>2

\* What is typed is what is meant but for a slip, until it is asked for.
AskInv ==
  /\ intended \in Intended
  /\ typed \in {intended} \cup Mistyped(intended)
  /\ kind \in Adapted => typed = intended
  /\ phase = "ready" => request = <<>>
  /\ OnlyIntendedAsked

\* Only the destination the caller means is looked up, whatever the lengths of
\* keys and of subaccount ids: a slip is refused, or is the one kind that may
\* make an asset of a subaccount; and a subaccount is looked up as its account.
THEOREM WrongPayeeNeverAsked == Spec => []OnlyIntendedAsked
<1>1. Init => AskInv
  BY DEF Init, AskInv, OnlyIntendedAsked
<1>2. AskInv /\ [Next]_vars => AskInv'
  <2> SUFFICES ASSUME AskInv, [Next]_vars PROVE AskInv'
    OBVIOUS
  <2>1. ASSUME UNCHANGED ask, phase' = phase \/ phase' # "ready" PROVE AskInv'
    BY <2>1 DEF ask, AskInv, OnlyIntendedAsked, MisreadAsAsset
  <2>2. CASE Ask
    <3>1. UNCHANGED <<kind, intended, typed>> /\ phase' = "asked"
      BY <2>2 DEF Ask
    <3>2. OnlyIntendedAsked' => AskInv'
      BY <3>1 DEF AskInv
    <3>3. CASE kind \in Adapted
      BY <3>1, <3>2, <3>3 DEF AskInv, OnlyIntendedAsked
    <3>4. CASE kind \notin Adapted
      <4>1. validateDestination(typed) /\ request' = canonical(typed)
        BY <2>2, <3>4 DEF Ask
      <4>2. typed = intended \/ MisreadAsAsset
        <5>1. intended \in Intended /\ (typed = intended \/ typed \in Mistyped(intended))
          BY DEF AskInv
        <5> QED
          BY <4>1, <5>1, SlipRefused, Zenon DEF MisreadAsAsset
      <4>3. Len(intended) \in Nat /\ IsWord(typed, Len(intended), 0 .. 34)
        <5>1. intended \in Intended /\ (typed = intended \/ typed \in Mistyped(intended))
          BY DEF AskInv
        <5> QED
          BY <5>1, IntendedWord, SlipShape, Zenon
      <4>4. Colons(canonical(typed)) # {} \/ canonical(typed)[1] \in Scorable
        BY <4>1, <4>3, AskedForScorable, Zenon
      <4>5. MisreadAsAsset' <=> MisreadAsAsset
        BY <3>1 DEF MisreadAsAsset
      <4>6. typed' = intended' \/ MisreadAsAsset'
        BY <3>1, <4>2, <4>5
      <4>7. Colons(request)' # {} \/ request'[1] \in Scorable
        BY <4>1, <4>4 DEF Colons
      <4> QED
        BY <3>1, <3>2, <4>6, <4>7 DEF OnlyIntendedAsked
    <3> QED
      BY <3>3, <3>4
  <2>3. CASE Reject
    BY <2>1, <2>3 DEF Reject, Settle, Audit, Answer
  <2>4. CASE Cancel
    BY <2>1, <2>4 DEF Cancel, Settle, Audit, Answer
  <2>5. CASE LedgerCloses \/ Tick
    BY <2>1, <2>5 DEF LedgerCloses, Tick
  <2>6. CASE NodeAnswers
    BY <2>1, <2>6 DEF NodeAnswers
  <2>7. CASE Deliver \/ SourceFails \/ DecisionArrives
    BY <2>1, <2>7 DEF Deliver, SourceFails, DecisionArrives, Settle, Audit, Answer
  <2>8. CASE UNCHANGED vars
    BY <2>1, <2>8 DEF vars
  <2> QED
    BY <2>2, <2>3, <2>4, <2>5, <2>6, <2>7, <2>8 DEF Next, Done
<1>3. AskInv => OnlyIntendedAsked
  BY DEF AskInv
<1> QED
  BY <1>1, <1>2, <1>3, PTL DEF Spec

\* What SorobanOracle asks the contract about is a destination, in the form
\* under which the contract keeps the score.
AskedInCanonicalForm ==
  request # <<>> /\ kind \notin Adapted => validateDestination(request) /\ canonical(request) = request

\* Whatever is typed, only valid destinations in canonical form are asked about.
THEOREM AskedCanonically == Spec => []AskedInCanonicalForm
<1> DEFINE Inv == /\ intended \in Intended
                  /\ typed \in {intended} \cup Mistyped(intended)
                  /\ AskedInCanonicalForm
<1>1. Init => Inv
  BY DEF Init, AskedInCanonicalForm
<1>2. Inv /\ [Next]_vars => Inv'
  <2> SUFFICES ASSUME Inv, [Next]_vars PROVE Inv'
    OBVIOUS
  <2>1. CASE UNCHANGED ask
    BY <2>1 DEF ask, AskedInCanonicalForm
  <2>2. CASE Ask
    <3>1. UNCHANGED <<kind, intended, typed>>
      BY <2>2 DEF Ask
    <3>2. CASE kind \in Adapted
      BY <3>1, <3>2 DEF AskedInCanonicalForm
    <3>3. CASE kind \notin Adapted
      <4>1. validateDestination(typed) /\ request' = canonical(typed)
        BY <2>2, <3>3 DEF Ask
      <4>2. Len(intended) \in Nat /\ IsWord(typed, Len(intended), 0 .. 34)
        BY IntendedWord, SlipShape, Zenon
      <4>3. validateDestination(canonical(typed)) /\ canonical(canonical(typed)) = canonical(typed)
        BY <4>1, <4>2, CanonicalForm, Zenon
      <4> QED
        BY <3>1, <4>1, <4>3 DEF AskedInCanonicalForm
    <3> QED
      BY <3>2, <3>3
  <2>3. Ask \/ UNCHANGED ask
    BY DEF Next, Reject, Cancel, LedgerCloses, Tick, NodeAnswers, Deliver, SourceFails, DecisionArrives,
       Done, vars
  <2> QED
    BY <2>1, <2>2, <2>3
<1> QED
  BY <1>1, <1>2, PTL DEF Spec

=============================================================================
