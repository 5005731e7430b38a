CONSTANTS
  W24 = 4
  W32 = 16
  ChunkSize0 = 1
  MinChunkSize = 1
  Pulse = TRUE
  BufferMoves = FALSE
  Cids = {6}
  Times = {1}
  Lens = {2}
  ChunkSizes = {}
  BigDeltas = FALSE
  MaxMsgs = 2
  MaxNet = 2
SPECIFICATION Spec
INVARIANT CachedMsgIsPartial
CHECK_DEADLOCK FALSE
