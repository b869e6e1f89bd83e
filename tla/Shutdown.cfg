SPECIFICATION Spec
CONSTANTS
  a = a
  b = b
  Peer = {a, b}
  Fin = Fin
  RecvCapacity = 3
  SendCapacity = 3
  InitialWindow = 3
  MinCwnd = 1
  MaxCwnd = 1
  FastRetxThreshold = 2
  MaxRetries = 0
  MaxWrites <- TwoWrites
  MaxSeq = 3
  MaxLosses = 0
  LossyKinds = {}
  Duplicating = TRUE
  Closers = {a, b}
  Droppers = {}
  IdleTimers = {}
INVARIANTS
  ClosedMeansAcked
  EofIsComplete
  
CHECK_DEADLOCK FALSE
