SPECIFICATION Spec
CONSTANTS
  a = a
  b = b
  Peer = {a, b}
  Fin = Fin
  RecvCapacity = 3
  SendCapacity = 2
  InitialWindow = 3
  MinCwnd = 2
  MaxCwnd = 3
  FastRetxThreshold = 2
  MaxRetries = 1
  MaxWrites <- ThreeAndOne
  MaxSeq = 4
  MaxLosses = 1
  LossyKinds = {"frame", "ack"}
  Duplicating = TRUE
  Closers = {}
  Droppers = {}
  IdleTimers = {}
INVARIANTS
  IInv
  InOrderDelivery
  AckedWasReceived
PROPERTIES
  BothStreams
