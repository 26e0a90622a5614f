CONSTANTS
  Obj = {s, a, b}
  Fds = {3, 4, 5}
  MaxDepth = 2
  MaxQueue = 1
  Server = s
SPECIFICATION PipeFairSpec
INVARIANTS Paired PartnerLive
PROPERTIES PairEnds
CHECK_DEADLOCK FALSE
