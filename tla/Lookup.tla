-------------------------------- MODULE Lookup --------------------------------
(***************************************************************************)
(* One lookup, from the text a caller typed to the score it is told.  It   *)
(* goes to SorobanOracle (src/src/SorobanOracle.ts) with a signal, or to   *)
(* a ProvenanceOracle (ProvenanceOracle.ts) around a SorobanOracle or      *)
(* around a legacy numeric adapter.  The adapter's producer either hands   *)
(* on what it has, or validates what it fetched.                           *)
(*                                                                         *)
(* Around it is what the answer is about: a chain of ledgers that goes on  *)
(* closing, nodes that lag behind it and behind each other or make things  *)
(* up, and a local clock that is off by ClockOffset.                       *)
(***************************************************************************)
EXTENDS StrKey, RiskDecision

CONSTANTS
  Intended,     \* the destinations callers mean, valid texts
  config,       \* SorobanOracleConfig
  transport,    \* its SorobanRpcTransport, what the constructor reads of it
  ClockOffset,  \* Date.now() minus the time on the network
  Decision,     \* the values a decision producer may have or fetch
  MaxHeight, MaxTime    \* bounds on the chain and the clock

-----------------------------------------------------------------------------
(* The constructor throws, or the configuration has been checked.          *)

validateConfig ==
  /\ config.environment \in {"production", "staging", "development", "test"}
  /\ config.networkPassphrase # ""
  /\ config.rpcEndpoints # {} /\ config.rpcEndpoints \subseteq {"http", "https"}
  /\ isValidStrKey(config.contractId, "contract")
  /\ config.minVersion \in Nat \ {0} /\ config.maxVersion \in Nat
  /\ config.minVersion <= config.maxVersion
  /\ config.minConfirmations \in Nat
  /\ config.maxResultAgeMs > 0
  /\ config.requestBudgetMs > 0

validateTransport ==
  /\ transport \in {"live", "fixture"}
  /\ config.environment = "production" => transport # "fixture"

ASSUME IntendedAssumption == \A text \in Intended : text \in Seq(0 .. 34) /\ validateDestination(text)
ASSUME ConfigAssumption == validateConfig /\ validateTransport
ASSUME PolicyAssumption == config.minConfirmations \in Nat /\ config.maxResultAgeMs \in Nat
ASSUME ProducerAssumption == Decision \subseteq Seq(Layer) \ {<<>>}
ASSUME WorldAssumption  == ClockOffset \in Int /\ MaxHeight \in Nat /\ MaxTime \in Nat

VARIABLES
  now,        \* the time on the network
  closedAt,   \* when each ledger of the chain closed
  kind,       \* which oracle is asked
  intended,   \* the destination the caller means
  typed,      \* the text it passes, maybe mistyped
  phase,      \* ready, asked, replied, done
  request,    \* the destination the contract is asked about
  response,   \* the transport's answer
  decision,   \* the producer's answer
  result,     \* "score", or the error the caller gets
  cacheStatus,
  journal     \* the score_provenance records the logger took

world == <<now, closedAt>>
ask   == <<kind, intended, typed, request>>
reply == <<response, decision>>
told  == <<result, cacheStatus, journal>>
vars  == <<world, ask, phase, reply, told>>

Height  == Len(closedAt)
DateNow == now + ClockOffset

\* The lookups through toLegacyRiskOracle: over a producer that has decisions
\* of its own, or one that validates, at a trust boundary, what it fetched.
Adapted == {"legacy", "validated"}
Kinds   == {"cancellable", "audited"} \cup Adapted

-----------------------------------------------------------------------------
(* What may be typed: the address, or the part of it after the colon, has  *)
(* one character replaced or two neighbours exchanged.                     *)

AddressPart(text) == {i \in DOMAIN text : \A j \in Colons(text) : j < i}

Mistyped(text) ==
  {[text EXCEPT ![i] = x] : i \in AddressPart(text), x \in 0 .. 34}
  \cup {[text EXCEPT ![i] = text[i + 1], ![i + 1] = text[i]] :
          i \in {j \in AddressPart(text) : j + 1 \in DOMAIN text}}

-----------------------------------------------------------------------------
(* What may be answered: the score as of some ledger, by a node that has   *)
(* seen some ledger, or a response with one thing wrong or made up.        *)

OtherContract == <<34>>
NotFinite     == 0 - 99

Report(sequence, latest) ==
  [interfaceVersion |-> config.maxVersion, networkPassphrase |-> config.networkPassphrase,
   contractId |-> config.contractId, variant |-> "scored", score |-> 50,
   sequence |-> sequence, latestSeen |-> latest, closeTime |-> closedAt[sequence]]

NoResponse ==
  [interfaceVersion |-> 0, networkPassphrase |-> "", contractId |-> <<>>, variant |-> "pending",
   score |-> 0, sequence |-> 0, latestSeen |-> 0, closeTime |-> 0]

Wrong(r) ==
  {[r EXCEPT !.interfaceVersion = v] : v \in {0, config.minVersion - 1, config.maxVersion + 1}}
  \cup {[r EXCEPT !.networkPassphrase = n] : n \in {"", "another network"}}
  \cup {[r EXCEPT !.contractId = c] : c \in {<<>>, OtherContract}}
  \cup {[r EXCEPT !.variant = v] : v \in {"unscored", "pending", "?"}}
  \cup {[r EXCEPT !.score = s] : s \in {0 - 1, 0, 100, 101}}
  \cup {[r EXCEPT !.sequence = 0 - 1], [r EXCEPT !.latestSeen = 0 - 1], [r EXCEPT !.closeTime = NotFinite]}

\* Well formed, but not so: ledgers that nobody has closed, another close time.
MadeUp(r) ==
  {[r EXCEPT !.latestSeen = l] : l \in {Height + 1, Height + config.minConfirmations}}
  \cup {[r EXCEPT !.closeTime = @ - 1], [r EXCEPT !.closeTime = @ + 1], [r EXCEPT !.sequence = Height + 1]}

Responses ==
  LET good == {Report(s, l) : s \in 1 .. Height, l \in 0 .. Height}
  IN  good \cup UNION {Wrong(r) \cup MadeUp(r) : r \in good}

-----------------------------------------------------------------------------
(* SorobanOracle.resolve, after the transport has answered.                *)

decodeSorobanRawResponse(r) ==
  /\ r.interfaceVersion >= 1
  /\ r.networkPassphrase # "" /\ r.contractId # <<>>
  /\ r.sequence >= 0 /\ r.latestSeen >= 0 /\ r.closeTime # NotFinite
  /\ \/ r.variant = "scored" /\ r.score \in 0 .. 100
     \/ r.variant \in {"unscored", "pending"}

isInterfaceVersionSupported(v) == v >= config.minVersion /\ v <= config.maxVersion

\* The ledgers closed on top, as the node saw it: a result from ahead of what
\* it saw has none.  Mutant: the distance between the two.
Distance(r) == IF r.latestSeen >= r.sequence THEN r.latestSeen - r.sequence
                                             ELSE r.sequence - r.latestSeen
observedConfirmations(r) == IF r.latestSeen >= r.sequence THEN r.latestSeen - r.sequence ELSE 0

Resolve(r) ==
  IF ~ decodeSorobanRawResponse(r) THEN "MalformedOracleResponse"
  ELSE IF ~ isInterfaceVersionSupported(r.interfaceVersion) THEN "UnsupportedInterfaceVersion"
  ELSE IF r.networkPassphrase # config.networkPassphrase THEN "WrongNetwork"
  ELSE IF r.contractId # config.contractId THEN "WrongContract"
  ELSE IF r.variant = "unscored" THEN "UnrecognizedDestination"
  ELSE IF r.variant = "pending" THEN "ScoreNotYetComputed"
  ELSE IF observedConfirmations(r) < config.minConfirmations THEN "InsufficientFinality"
  ELSE "score"

\* The age of the result.  Mutant: which way round?
AgeReversed(r) == r.closeTime - DateNow
Age(r)         == DateNow - r.closeTime

CacheStatus(r) == IF Age(r) > config.maxResultAgeMs THEN "cache-stale" ELSE "live"

-----------------------------------------------------------------------------
(* ProvenanceOracle.resolveWithProvenance, after the inner oracle.         *)

Answer(how) ==
  /\ phase' = "done"
  /\ result' = how
  /\ cacheStatus' = IF how # "score" THEN "none"
                    ELSE IF kind \in Adapted THEN "unknown" ELSE CacheStatus(response')

\* The record of a lookup that ended so.  Mutant: logged before it is awaited.
TrailAhead(how) == "success"
Trail(how)      == IF how = "score" THEN "success" ELSE "error"

\* A logger that throws may have taken the record before.
Attempt(trail, record) == {trail, Append(trail, record)}

\* What it throws at the success record, inside the try, is caught and logged
\* as an error, and is what the caller gets; so is what it throws at an error.
Audit(how) ==
  \/ journal' = Append(journal, Trail(how)) /\ Answer(how)
  \/ /\ Answer("LoggerError")
     /\ \E trail \in (IF how = "score" THEN Attempt(journal, "success") ELSE {journal}) :
          journal' \in Attempt(trail, "error")

\* The promise of the oracle that was asked settles.
Settle(how) ==
  IF kind = "cancellable" THEN Answer(how) /\ UNCHANGED journal ELSE Audit(how)

-----------------------------------------------------------------------------
Init ==
  /\ now = 0
  /\ closedAt = <<0>>
  /\ kind \in Kinds
  /\ intended \in Intended
  /\ typed \in {intended} \cup (IF kind \in Adapted THEN {} ELSE Mistyped(intended))
  /\ phase = "ready"
  /\ request = <<>>
  /\ response = NoResponse
  /\ decision = <<>>
  /\ result = "pending"
  /\ cacheStatus = "none"
  /\ journal = <<>>

\* resolve rejects what it cannot send; a legacy producer gets the raw text.
Reject ==
  /\ phase = "ready" /\ kind \notin Adapted
  /\ ~ validateDestination(typed)
  /\ Settle("InvalidDestination")
  /\ UNCHANGED <<world, ask, reply>>

Ask ==
  /\ phase = "ready"
  /\ kind \in Adapted \/ validateDestination(typed)
  /\ request' = IF kind \in Adapted THEN typed ELSE canonical(typed)
  /\ phase' = "asked"
  /\ UNCHANGED <<world, kind, intended, typed, reply, told>>

Underway == phase \in {"asked", "replied"}

\* The signal, before the call or during it: later answers find nobody.
Cancel ==
  /\ kind = "cancellable"
  /\ phase # "done"
  /\ Settle("OracleCancelled")
  /\ UNCHANGED <<world, ask, reply>>

LedgerCloses ==
  /\ Underway
  /\ Height < MaxHeight
  /\ closedAt' = Append(closedAt, now)
  /\ UNCHANGED <<now, ask, phase, reply, told>>

Tick ==
  /\ Underway
  /\ now < MaxTime
  /\ now' = now + 1
  /\ UNCHANGED <<closedAt, ask, phase, reply, told>>

\* The node answers; the answer has yet to arrive.
NodeAnswers ==
  /\ phase = "asked" /\ kind \notin Adapted
  /\ response' \in Responses
  /\ phase' = "replied"
  /\ UNCHANGED <<world, ask, decision, told>>

Deliver ==
  /\ phase = "replied"
  /\ UNCHANGED <<world, ask, reply>>
  /\ Settle(Resolve(response))

\* An OracleError of the transport passes, anything else is wrapped; what a
\* producer throws passes as it is.
Errors == IF kind \in Adapted THEN {"ProducerError"} ELSE {"OracleUnavailable", "OracleError"}

SourceFails ==
  /\ phase = "asked"
  /\ \E error \in Errors : Settle(error)
  /\ UNCHANGED <<world, ask, reply>>

\* How toLegacyRiskOracle settles on a decision.  Only a producer that calls
\* validateRiskDecision, whose error then passes, has it checked.
toLegacyRiskOracle(input) ==
  LET verdict == IF kind = "validated" THEN validateRiskDecision(input, DateNow) ELSE "valid"
  IN  IF verdict = "valid" THEN toLegacyScore(input[1]) ELSE verdict

DecisionArrives ==
  /\ phase = "asked" /\ kind \in Adapted
  /\ decision' \in Decision
  /\ kind = "legacy" => IsRiskDecision(decision'[1])
  /\ UNCHANGED <<world, ask, response>>
  /\ Settle(toLegacyRiskOracle(decision'))

Done == phase = "done" /\ UNCHANGED vars

Next ==
  \/ Reject \/ Ask \/ Cancel
  \/ LedgerCloses \/ Tick
  \/ NodeAnswers \/ Deliver \/ SourceFails \/ DecisionArrives
  \/ Done

Spec == Init /\ [][Next]_vars

-----------------------------------------------------------------------------
(* Properties                                                              *)

TypeOK ==
  /\ now \in Nat
  /\ closedAt \in Seq(Nat)
  /\ kind \in Kinds
  /\ phase \in {"ready", "asked", "replied", "done"}
  /\ phase = "replied" => kind \notin Adapted

\* What the contract keeps scores of: accounts, contracts and pools, each under
\* the one character its address begins with, but no subaccounts.
Scorable == {versionByte[t] \div 8 : t \in StrKeyType \ {"med25519PublicKey"}}

\* Whoever mistypes an address by a character, or exchanges two, the issuer's
\* in an asset included, is told so; the contract is never asked, and no score
\* given, for another payee.  (The code of an asset has no checksum: mistyped it
\* is another asset.)  The contract is asked for an asset or under a key of its
\* own kind, never a subaccount.
\* One slip in an address may pass: only a subaccount's is long enough for a colon
\* typed into it to leave, by chance, an asset whose issuer has a checksum.
MisreadAsAsset == Colons(typed) # {} /\ isValidStrKey(intended, "med25519PublicKey")
OnlyIntendedAsked ==
  request # <<>> =>
    /\ typed = intended \/ MisreadAsAsset
    /\ kind \in Adapted \/ Colons(request) # {} \/ request[1] \in Scorable

\* The response says nothing of the chain that is not so by now.  Nothing in
\* the code can tell: the last ledger seen and the close time are taken from
\* the response that they are to judge.
Truthful(r) ==
  /\ r.sequence \in 1 .. Height /\ r.latestSeen <= Height
  /\ r.closeTime = closedAt[r.sequence]

\* A numeric score is final if the node did not lie: when the caller is told
\* it, the ledger it was computed at lies under the required number of others,
\* however far the node that answered lags behind the one that computed it.
ScoreIsFinal ==
  result = "score" /\ kind \notin Adapted /\ Truthful(response) =>
    Height - response.sequence >= config.minConfirmations

\* A score told to be live is no older than the policy says when it is told,
\* not when it was asked for, give or take the error of the local clock and,
\* again, if the node did not lie.
LiveIsRecent ==
  cacheStatus = "live" /\ Truthful(response) =>
    now - closedAt[response.sequence] <= config.maxResultAgeMs - ClockOffset

\* Evidence that makes sense: of the known schema, with a score of the scale,
\* with no time from the future, and observed no earlier than it came about.
\* It may have expired: nothing looks at that.
SoundEvidence(layer) ==
  /\ layer.isObject /\ layer.schemaVersion = SchemaVersion
  /\ layer.score \in 0 .. 100
  /\ layer.observedAt >= 0 /\ layer.observedAt <= DateNow + MaxSkew
  /\ layer.outcome = "verified" => layer.expiresAt <= DateNow + MaxSkew
  /\ layer.outcome = "degraded" =>
       layer.evidenceAt <= DateNow + MaxSkew /\ layer.evidenceAt <= layer.observedAt + MaxSkew

\* A veto that may be told as such: on nothing, on evidence, or on its absence;
\* a veto on a veto is none.
HonestVeto(input) ==
  /\ input[1].outcome = "policy-blocked"
  /\ Len(input) = 1 \/ input[2].outcome \in {"verified", "degraded", "unscored"}

\* No doubt becomes a number.  The adapter makes one only of an outcome that has
\* one, and over a producer that validates, only of sound evidence.  A caller of
\* such a producer who is told that a decision has no honest number is told so
\* of one that is what it claims, or of an unknown schema: anything else is
\* malformed.
FailsClosed ==
  /\ result = "score" /\ kind \in Adapted =>
       decision[1].outcome = "verified" \/ (decision[1].outcome = "degraded" /\ AcceptDegraded)
  /\ result = "score" /\ kind = "validated" => SoundEvidence(decision[1])
  /\ result = "incompatible" /\ kind = "validated" =>
       \/ \E i \in 1 .. Len(decision) : decision[i].schemaVersion # SchemaVersion
       \/ HonestVeto(decision)
       \/ decision[1].outcome = "incompatible"
       \/ decision[1].outcome = "degraded" /\ SoundEvidence(decision[1])

\* The lookup has found a score.
Found == IF kind \in Adapted THEN toLegacyRiskOracle(decision) = "score" ELSE Resolve(response) = "score"

\* The trail and the caller are told the same: one record, a success if a score
\* was returned and an error if not, unless the logger has thrown.  The caller
\* is then told that; the trail may hold nothing, or both, but no success that
\* was none.
AuditMatches ==
  phase = "done" /\ kind # "cancellable" =>
    \/ journal = <<IF result = "score" THEN "success" ELSE "error">>
    \/ result = "LoggerError" /\ journal \in {<<>>, <<"error">>}
    \/ result = "LoggerError" /\ journal \in {<<"success">>, <<"success", "error">>} /\ Found

-----------------------------------------------------------------------------
(* What the documentation says of the class and the code does not do.      *)

\* ProvenanceOracle.ts:56, "Every getScore/getScoreDetailed call emits one
\* structured ScoreProvenance record" and "then returns (or rethrows) the inner
\* oracle's result unchanged": no second record, and a score that has been
\* recorded is returned.
OneRecordThenResult ==
  phase = "done" /\ kind # "cancellable" /\ journal # <<>> =>
    Len(journal) = 1 /\ (journal[1] = "success" => result = "score")
=============================================================================
