SPECIFICATION FairSpec
CONSTANTS
  t1 = t1
  t2 = t2
  Thread <- MCThread
  Kinds = {"smart", "lone", "optimized", "hybrid"}
  SlotCount = 2
  SlotCap = 2
  BatchThreshold = 4
  PoolFrom = 4
  BypassMax = 3
  PoolMax = 4
  Lanes = 2
  ChunkSize = 2
  HybridFrom = 5
  Cores = 2
  BatchSizes = {3, 4, 5}
  TakeSizes = {2}
  MaxOffered = 13
  MaxShared = 7
CHECK_DEADLOCK FALSE
INVARIANTS DInv EventsConserved
PROPERTIES LoneDropsOnlyWhenFull CallsEnd
