CONSTANTS
  Players = {p1, p2}
  Publishers = {u1}
  MaxData = 1
SPECIFICATION FairSpec
INVARIANTS SocketTypeOK PlayerEndsWithPeer
PROPERTY ClosedPublisherEnds
CHECK_DEADLOCK FALSE
