SPECIFICATION Spec
CONSTANTS
  a = a
  b = b
  Peer = {a, b}
  Fin = Fin
  RecvCapacity = 3
  SendCapacity = 3
  InitialWindow = 3
  MinCwnd = 2
  MaxCwnd = 2
  FastRetxThreshold = 2
  MaxRetries = 1
  MaxWrites <- OneWrite
  MaxSeq = 2
  MaxLosses = 0
  LossyKinds = {}
  Duplicating = TRUE
  Closers = {a, b}
  Droppers = {b}
  IdleTimers = {a, b}
CHECK_DEADLOCK FALSE
INVARIANTS TypeOK
PROPERTIES BothStreams
