CONSTANTS
  Players = {p1}
  Publishers = {u1}
  MaxData = 1
SPECIFICATION FairSpec
PROPERTY ClosedPlayerEnds
CHECK_DEADLOCK FALSE
