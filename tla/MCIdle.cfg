SPECIFICATION FairSpec
CONSTANTS
  c1 = c1  c2 = c2
  Client <- Clients2
  Period = 5
  Strikes = 3
  Lag = 1
  Late = 2
  SetBack <- Back
  MaxSetBack = 2
  MaxAge = 16
INVARIANT TypeOK
PROPERTIES  StopsWhenUnused
CHECK_DEADLOCK FALSE
