SPECIFICATION Spec
CONSTANTS
  Messages <- MCMessages
  Kind <- MCKind
  Size <- MCSize
  HeaderLen = 2
  MaxData = 4
  UseMonitors = TRUE
  ChunkHdr = 2
  NumReadBufs = 2
  Setups <- OnlyWrite
  MaxClients = 2
INVARIANT RecvBufFree
CHECK_DEADLOCK FALSE
