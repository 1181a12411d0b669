SPECIFICATION Spec
CONSTANTS
  Call = {c1, c2, c3, c4}
  Dest = {d1, d2}
  None = None
  Threshold = 1
  Cooldown = 1
  Fallback = "none"
  SyncThrow = FALSE
  MaxTime = 2
SYMMETRY CallSymmetry
INVARIANT SingleFlightProbe
