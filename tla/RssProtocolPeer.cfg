CONSTANTS
  W24 = 4
  W32 = 16
  ChunkSize0 = 1
  MinChunkSize = 1
  Pulse = FALSE
  BufferMoves = FALSE
  Cids = {6, 70, 400}
  Times = {1, 2, 9}
  Lens = {0, 2}
  ChunkSizes = {0, 2}
  BigDeltas = FALSE
  MaxMsgs = 3
  MaxNet = 2
SPECIFICATION Spec
INVARIANTS TypeOK ReceivedAsSent ChunkSizesAgree CachedMsgIsPartial
CHECK_DEADLOCK FALSE
