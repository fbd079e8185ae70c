SPECIFICATION Spec
CONSTANTS
  Device <- Gamepads
  Pressed <- Keys
  AxisValue <- Values
  MaxHeld = 2
  MaxMoved = 3
INVARIANTS TypeOK AllDriven ButtonsFollow SticksFollow  
CHECK_DEADLOCK FALSE
