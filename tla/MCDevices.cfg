SPECIFICATION FairSpec
CONSTANTS
  d1 = d1  d2 = d2  d3 = d3
  r1 = r1  r2 = r2  r3 = r3
  None = None
  MaxCount = 2
  Dev <- Devices3
  Unknown <- Keyboard
  Reader <- Readers2
  IdleStops = TRUE
  Overlap = FALSE
  MaxPlug = 3
  MaxFault = 1
INVARIANTS TypeOK  ConnectedHasReader SlotHasReader GrabbedIsKnown 
PROPERTY PluggedIsServed
