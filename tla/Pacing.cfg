SPECIFICATION Spec
CONSTANTS
  CacheFor = 12
  DropAfter = 24
  MinPatterns = 2
  PatternCap = 2
  PatternRecent = 32
  PatternKeep = 40
  PredictWithin = 24
  Fallback = 16
  Step = 8
  InitialCwnd = 3
  MinCwnd = 1
  InitialSsthresh = 4
  Alpha = 1
  Beta = 2
  InitialRto = 24
  MinRto = 16
  FastRetxThreshold = 1
  MaxRetries = 1
  RetryInterval = 16
  IdleTimeout = 48
  DefaultIdle = 80
  PeerWindow = 4
  Delay = 8
  Writes = {2}
  MaxSeq = 4
  MaxCopies = 2
  MaxAcks = 1
  MaxCalls = 5
CHECK_DEADLOCK FALSE
INVARIANTS PInv
PROPERTIES NothingOverdueSleeps  OneLossPerEvent StaleAtMostTwice
