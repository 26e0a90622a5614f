CONSTANTS
  Subjects = {"hash", "list", "name", "packet", "answer", "text", "url", "address"}
  N = 5
  Few = 3
  Picks <- MCPicks
  Elts <- MCElts
  Rank <- MCRank
  Hashes <- MCHashes
  Null = 0
  Blooms = {0, 2}
  InitBuckets = 1
  Thresh = 2
  MaxBuckets = 16
  AddToSelected = FALSE
  Nodes <- MCNodes
  Nil = 0
  Lists = {1, 2}
  Kinds = {"LL", "DL", "CDL", "Q"}
  Deletions <- MCDeletions
  MaxDn = 7
  MaxLabel = 4
  MaxName = 29
  HSize = 2
  MaxJumps = 1
  PktBytes <- MCPktBytes
  NoDn <- MCNoDn
  Dns <- MCDns
  Rrs <- MCAnswers
  SizeOf <- MCSizeOf
  BufSize = 6
  Chars <- MCChars
  Args <- MCArgs
  Sizes <- MCSizes
  UrlChars <- MCUrlChars
  AddressWords <- MCAddressWords
SPECIFICATION MCSpec
INVARIANTS Fsck FindsAll OrderKept ListRight NamesRight PacketNamesRight RecordsFit UrlParts TextRight AddressRight
CHECK_DEADLOCK FALSE
