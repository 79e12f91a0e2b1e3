SPECIFICATION Spec
CONSTANTS
  d1 = d1
  d2 = d2
  w1 = w1
  w2 = w2
  None = None
  Devices = {d1, d2}
  Workers = {w1, w2}
  Rows <- TwoRows
  Tokens <- Numbers
  Links <- TwoLinks
  Seat <- BothIn
  MaxRequests = 3
  MaxFaults = 1
  MaxAgeing = 1
INVARIANTS TypeOK RevokedStayOut SignedInUntilEnded
PROPERTIES RevokedIsFinal LinkWorksOnce
SYMMETRY SwapWorkers
CHECK_DEADLOCK FALSE
