CONSTANTS
  Obj = {o1, o2}
  Fds = {3, 4}
  MaxDepth = 2
  MaxQueue = 1
  Server = o1
SPECIFICATION Spec
SYMMETRY Symmetry
INVARIANT CallbacksCounted
INVARIANT CallbackObjLive
INVARIANT WatchersSafe
INVARIANT DescriptorsOwned
INVARIANT ReadNeverBlocks
INVARIANT TimeoutOnlyOpening
INVARIANT ConnectedAgrees
PROPERTY Contract
CHECK_DEADLOCK FALSE
