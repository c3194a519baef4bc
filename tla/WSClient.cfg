SPECIFICATION FairSpec
CONSTANTS
  w1 = w1
  w2 = w2
  w3 = w3
  s1 = s1
  s2 = s2
  NoConn = NoConn
  ConnIds <- MCConnIds
  Subs <- MCSubs
  SubCap = 1
  OutboxCap = 1
  BackoffInitial = 1
  BackoffMax = 3
  BackoffFactor = 2
CHECK_DEADLOCK FALSE
INVARIANTS TypeOK OneSocket OutageIsVisible PanicNeedsClose
PROPERTIES BackoffShape CircuitRecovers CloseStopsLoops
