SPECIFICATION Spec
CONSTANTS
  Context = {a, b}
  Budget = 2
  WindowMs = 2
  BucketMs = 1
  GossipInterval = 1
  PostMayFail = TRUE
  MaxTime = 2
SYMMETRY ContextSymmetry
INVARIANTS
  ViewNeverOvercounts
  OwnCountExact
  ViewIsJoinOfMerged
  BudgetHonoured
