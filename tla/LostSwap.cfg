SPECIFICATION Spec
CONSTANTS
  MaxPayload = 2
  MaxPacket = 56
  StreamCap = 6
  Layered = TRUE
  Writes = {4, 5}
  Windows = {1, 4}
  Sacks <- MCSacks
  PeerBatches <- MCPeerBatches
  ChanCap = 2
  MaxDrain = 2
  QueueCap = 1
  BufferSize = 90
  MaxBatches = 2
  MaxWritten = 4
  MaxTransports = 2
  MaxRebinds = 1
  MaxEvents = 2
INVARIANT SenderFollowsManager
CHECK_DEADLOCK FALSE
