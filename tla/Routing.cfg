SPECIFICATION RSpec
CONSTANTS
  Conn = {i, j}
  Cid = {c, d}
  Zero = Zero
  Addr = {x, y}
  Client = {p}
  None = None
  InboxCap = 1
  CommandCap = 1
  AcceptCap = 1
  MaxZeroRtt = 0
  MaxPending = 1
  MaxMoves = 1
  SlowReaders = {}
SYMMETRY Interchangeable
INVARIANTS
  RInv
  NoStrangers
  TablesAgree
PROPERTY
  CutOffForAReason
CHECK_DEADLOCK FALSE
