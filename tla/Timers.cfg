SPECIFICATION TSpec
CONSTANTS
  SlotCount = 4
  SlotDuration = 2
  Tolerance = 0
  Lanes = 2
  LaneRange = 8
  MaxTimers = 3
  Conn = {c1, c2}
  Kind = {"idle", "path"}
  Fatal = {"idle"}
  None = None
  Delay <- MCDelay
  Batch <- MCBatch
  AdvanceInterval = 3
  UpdatePeriod = 5
  MinWakeup = 1
  EventCap = 1
  CommandCap = 1
  MaxCreated = 3
  MaxTime = 8
  MaxSingle = 2
CHECK_DEADLOCK FALSE
SYMMETRY ConnSymmetry
INVARIANTS  CancelledNeverFires
PROPERTIES FiresOnTime NothingDueIsLeft BatchAsOneByOne
