SPECIFICATION Spec
CONSTANTS
  Call = {c1, c2}
  Source = {s1, s2, s3, s4}
  Byzantine = {s4}
  FaultTolerance = 1
  Quorum = 3
  Alpha = 1000
  MinWeight = 100
  Report = {0, 455, 1105}
  Pending = Pending
  Failed = Failed
  None = None
  Rejected = Rejected
SYMMETRY AggregatorSymmetry
INVARIANTS
  HonestRange
  DisagreementNotHidden
  DecidedAtOnce
  QuorumCounted
