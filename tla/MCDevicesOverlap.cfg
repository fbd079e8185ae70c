SPECIFICATION Spec
CONSTANTS
  d1 = d1  d2 = d2  d3 = d3
  r1 = r1  r2 = r2  r3 = r3
  None = None
  MaxCount = 2
  Dev <- Devices2
  Unknown <- Nothing
  Reader <- Readers3
  IdleStops = FALSE
  Overlap = TRUE
  MaxPlug = 3
  MaxFault = 1
SYMMETRY Symmetry
INVARIANTS DistinctGamepads
CHECK_DEADLOCK FALSE
