SPECIFICATION FairSpec
CONSTANTS
  Messages <- MCMessages
  Kind <- MCKind
  Size <- MCSize
  HeaderLen = 2
  MaxData = 4
  UseMonitors = TRUE
  ChunkHdr = 2
  NumReadBufs = 2
  Setups <- AllSetups
  MaxClients = 2
INVARIANTS ClientStreamWhole AgentStreamWhole ReadAccounting AgentDataTaken
PROPERTY AgentDrained
CHECK_DEADLOCK FALSE
