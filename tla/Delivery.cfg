SPECIFICATION FairSpec
CONSTANTS
  a = a
  b = b
  Peer = {a, b}
  Fin = Fin
  RecvCapacity = 3
  SendCapacity = 3
  InitialWindow = 3
  MinCwnd = 2
  MaxCwnd = 2
  FastRetxThreshold = 2
  MaxRetries = 1
  MaxWrites <- ThreeWrites
  MaxSeq = 3
  MaxLosses = 1
  LossyKinds = {"frame"}
  Duplicating = FALSE
  Closers = {}
  Droppers = {}
  IdleTimers = {}
PROPERTIES
  EventuallyDelivered
