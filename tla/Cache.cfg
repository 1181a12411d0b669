SPECIFICATION Spec
CONSTANTS
  Dest = {d1, d2, d3}
  Credit = {0, 2}
  NoEntry = NoEntry
  TtlMs = 1
  StaleMs = 1
  MaxEntries = 2
  MaxPending = 1
  MaxTouches = 6
  MaxTime = 2
SYMMETRY DestSymmetry
INVARIANTS
  NodePerEntry
  HeapBounded
  SingleRevalidation
PROPERTY ImplementsGreedyDual
