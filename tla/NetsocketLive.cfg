CONSTANTS
  Obj = {o1, o2}
  Fds = {3, 4}
  MaxDepth = 2
  MaxQueue = 1
  Server = o1
SPECIFICATION LiveSpec
PROPERTY OpeningEnds
PROPERTY DestroyHappens
PROPERTY EndNoticed
CHECK_DEADLOCK FALSE
