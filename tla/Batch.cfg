SPECIFICATION FairSpec
CONSTANTS
  Requests <- MCRequests
  Deadlines = {2, 4}
  Histories <- MCHistories
  MaxConcurrency = 2
  TargetConfidence = 75
  AgingRate = 1
  PriorityNormalization = 2
  PriorityWeight = 1
  FeasibilityWeight = 1
  Capacity = 8
  MinSamples = 2
  InitialEstimateMs = 2
  MAX_POLL_MS = 3
  MaxCalls = 2
  MaxTime = 5
INVARIANTS
  SlotsAccounted
  QueueWatched
  NothingLost
PROPERTIES
  FairAdmission
  NoneQueuedForever
