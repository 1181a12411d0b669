SPECIFICATION FairSpec
CONSTANTS
  Call = {c1, c2}
  None = None
  BreakerTier = 1
  Stoppable = TRUE
  Pull = 4
  Threshold = 1
  Cooldown = 1
  MaxTime = 2
INVARIANTS
  CancelledBySignal
  ChainExhausted
  TimedReleased
PROPERTIES
  NothingStartedAfterSignal
  CancellationTeachesNothing
  EveryCallReturns
