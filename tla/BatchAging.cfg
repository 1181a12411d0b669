SPECIFICATION Spec
CONSTANTS
  Requests <- MCTopRequests
  Deadlines = {3, 5}
  Histories <- MCHistories
  MaxConcurrency = 1
  TargetConfidence = 50
  AgingRate = 1
  PriorityNormalization = 4
  PriorityWeight = 1
  FeasibilityWeight = 1
  Capacity = 8
  MinSamples = 2
  InitialEstimateMs = 2
  MAX_POLL_MS = 3
  MaxCalls = 3
  MaxTime = 7
PROPERTY AgedEntryWins
