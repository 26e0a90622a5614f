CONSTANTS
  Queries = {q1, q2}
  None = None
  NServ = 2
  NTries = 2
  BaseTimeout = 1
  UintMod = 4
  NSrch = 1
  TooLong = {}
  Ids = {1}
  Edns = TRUE
  MaxBurst = 1
  OldServers = {1}
  NoSearch = {q2}
SPECIFICATION Spec
INVARIANTS QueueSorted TimerArmed SendsBounded
PROPERTIES Verdict TempfailEarned
