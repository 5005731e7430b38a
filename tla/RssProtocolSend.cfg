CONSTANTS
  W24 = 4
  W32 = 16
  ChunkSize0 = 1
  MinChunkSize = 1
  Pulse = FALSE
  BufferMoves = FALSE
  OutCids = {6}
  Times = {2, 3, 7}
  Lens = {0, 1, 3}
  ChunkSizes = {2}
  MaxMsgs = 3
  MaxNet = 3
SPECIFICATION FairSpec
INVARIANTS TypeOK ReceivedAsSent ChunkSizesAgree
PROPERTY SentIsReceived
CHECK_DEADLOCK FALSE
