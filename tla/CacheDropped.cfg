SPECIFICATION Spec
CONSTANTS
  Dest = {d1, d2}
  Credit = {1}
  NoEntry = NoEntry
  TtlMs = 1
  StaleMs = 1
  MaxEntries = 1
  MaxPending = 1
  MaxTouches = 6
  MaxTime = 2
SYMMETRY DestSymmetry
PROPERTY EvictedRevalidationDropped
