SPECIFICATION Spec
CONSTANTS
  KeyLength = 2
  IdLength = 3
  MaxSkew = 1
  MaxDepth = 2
  AcceptDegraded = TRUE
  Intended <- MCIntended
  config <- MCConfig
  transport = "live"
  ClockOffset <- MCClockOffset
  Decision <- MCDecision
  MaxHeight = 3
  MaxTime = 3
INVARIANT OneRecordThenResult
