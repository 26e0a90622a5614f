CONSTANTS
  Procs = {p1, p2}
  StartIds = {2}
  DefaultStartId = 1
  IdMod = 5
  MaxOpens = 2
  MaxLines = 1
SPECIFICATION Spec
INVARIANT DistinctOpenIds
