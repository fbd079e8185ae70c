SPECIFICATION FairSpec
CONSTANTS
  a = a  stick = stick  up = up  upleft = upleft
  wButtons = wButtons  sThumb = sThumb
  None = None
  Group <- Groups
  Rank <- Ranks
  Position <- Positions
  Part <- Parts
  PartOf <- Layout
  MaxState = 4
INVARIANTS TypeOK StrokesPaired MissedOnlyWhenOvertaken
PROPERTY KeysFollow
