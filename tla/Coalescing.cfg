SPECIFICATION FairSpec
CONSTANTS
  Call = {c1, c2, c3}
  Dest = {d1, d2}
  None = None
INVARIANTS
  SingleRunningFlight
  NobodyOnAbortedFlight
  NoFlightLeftRunning
  CountsCallers
  NoEntryLeaked
PROPERTIES
  ImplementsSingleFlight
  EveryCallSettles
