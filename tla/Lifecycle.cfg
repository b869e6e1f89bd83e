SPECIFICATION FairSpec
CONSTANTS
  None = None
  a1 = a1
  a2 = a2
  b1 = b1
  Addr = {a1, a2, b1}
  Home <- MCHome
  Start <- MCStart
  InitialData = {0, 1}
  MaxSends <- ServerOnly
  MaxEvents = 2
  MaxSeq <- MCMaxSeq
  Migrators = {"client"}
  Firing <- MCFiring
  Closers = {"client", "server"}
CHECK_DEADLOCK FALSE
INVARIANTS LInv ClosedMeansReceived
PROPERTIES PathIsLive ConnectingEnds PassiveValidationEnds
