------------------------------- MODULE MCLookup -------------------------------
EXTENDS Lookup

\* An address of each kind, with bytes of many and of few bits, and an asset;
\* and a subaccount that is an asset once its fifth character is a colon.
Account  == encodeStrKey("ed25519PublicKey", Bits(<<3, 200>>, 8))
Muxed    == encodeStrKey("med25519PublicKey", Bits(<<255, 17, 0, 4, 210>>, 8))
Contract == encodeStrKey("contract", Bits(<<0, 0>>, 8))
Pool     == encodeStrKey("liquidityPool", Bits(<<170, 85>>, 8))
Asset    == <<20, 33, 2, Colon>> \o Account
Misread  == encodeStrKey("med25519PublicKey", Bits(<<108, 166, 24, 53, 171>>, 8))
MCIntended == {Account, Muxed, Misread, Contract, Pool, Asset}

MCConfig ==
  [environment |-> "production", networkPassphrase |-> "this network", rpcEndpoints |-> {"https"},
   contractId |-> Contract, minVersion |-> 2, maxVersion |-> 2,
   minConfirmations |-> 2, maxResultAgeMs |-> 1, requestBudgetMs |-> 1]

MCClockOffset == -1

\* Times around the clock and the allowed skew, and scores around the range.
Times   == {Absent, -1, 0, 1, 2, 3}
Scored  == {[isObject |-> TRUE, schemaVersion |-> 1, outcome |-> o, strings |-> TRUE,
             observedAt |-> t, score |-> s, numbers |-> TRUE, expiresAt |-> x, evidenceAt |-> e] :
              o \in {"verified", "degraded"}, t \in Times, s \in {Absent, 100, 101},
              x \in Times, e \in Times}
Scoreless == {[isObject |-> TRUE, schemaVersion |-> 1, outcome |-> o, strings |-> TRUE,
               observedAt |-> t, score |-> s, numbers |-> TRUE, expiresAt |-> Absent, evidenceAt |-> Absent] :
                o \in RiskDecisionOutcome \ {"verified", "degraded"}, t \in {0, 3}, s \in {Absent, 100}}
Evidence == CHOOSE l \in Scored : l.outcome = "verified" /\ l.observedAt = 0 /\ l.score = 100 /\ l.expiresAt = 1
Broken   == {[Evidence EXCEPT !.isObject = FALSE], [Evidence EXCEPT !.schemaVersion = 2],
             [Evidence EXCEPT !.outcome = "?"], [Evidence EXCEPT !.strings = FALSE],
             [Evidence EXCEPT !.numbers = FALSE]}
Veto     == CHOOSE l \in Scoreless : l.outcome = "policy-blocked" /\ l.observedAt = 0 /\ l.score = Absent

MCDecision ==
  LET layers == Scored \cup Scoreless \cup Broken
  IN  {<<l>> : l \in layers}
      \cup {<<Veto, l>> : l \in Scoreless \cup Broken \cup {Evidence}}
      \cup {<<l, Veto>> : l \in Scoreless \cup {Evidence}}
      \cup {<<Veto, Veto, l>> : l \in Scoreless \cup {Evidence}}
      \cup {<<Veto, Veto, Veto, Evidence>>}
=============================================================================
