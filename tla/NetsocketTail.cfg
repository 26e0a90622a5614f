CONSTANTS
  Obj = {o1}
  Fds = {3}
  MaxDepth = 2
  MaxQueue = 1
  Server = o1
SPECIFICATION Spec
INVARIANT TailObjLive
CHECK_DEADLOCK FALSE
