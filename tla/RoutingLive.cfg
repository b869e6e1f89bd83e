SPECIFICATION RFairSpec
CONSTANTS
  Conn = {i, j}
  Cid = {c, d}
  Zero = Zero
  Addr = {x, y}
  Client = {p}
  None = None
  InboxCap = 1
  CommandCap = 4
  AcceptCap = 2
  MaxZeroRtt = 1
  MaxPending = 1
  MaxMoves = 0
  SlowReaders = {}
PROPERTIES
  EndedIsRemoved
  ActorReturns
CHECK_DEADLOCK FALSE
