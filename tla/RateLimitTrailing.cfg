SPECIFICATION TrailingSpec
CONSTANTS
  Context = {a}
  Budget = 2
  WindowMs = 4
  BucketMs = 2
  GossipInterval = 1
  PostMayFail = TRUE
  MaxTime = 5
INVARIANT TrailingWindowBound
