CONSTANTS
  Procs = {p1, p2}
  StartIds = {2}
  DefaultStartId = 1
  IdMod = 5
  MaxOpens = 3
  MaxLines = 1
SPECIFICATION FairSpec
PROPERTY NoTraceLost
PROPERTY OpenReturns
