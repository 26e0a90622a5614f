CONSTANTS
  Queries = {q1, q2}
  None = None
  NServ = 2
  NTries = 1
  BaseTimeout = 1
  UintMod = 4
  NSrch = 2
  TooLong = {0}
  Ids = {1, 2}
  Edns = FALSE
  MaxBurst = 1
  OldServers = {}
  NoSearch = {q2}
SPECIFICATION FairSpec
PROPERTIES OneAnswer Resolves
