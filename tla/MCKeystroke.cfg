SPECIFICATION FairSpec
CONSTANTS
  c1 = c1  c2 = c2
  a = a  b = b
  None = None
  UserMax = 2
  Caller <- Callers
  Group <- Groups
  Rank <- Ranks
  Position <- Positions
  MaxChange = 2
  MaxAny = 2
INVARIANTS TypeOK ToldIsState AnyRound
PROPERTY StateFollows
CHECK_DEADLOCK FALSE
