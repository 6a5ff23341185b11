SPECIFICATION Spec
CONSTANTS
  States = {s1, s2}
  Worlds <- MCWorlds
  Addrs <- MCAddrs
  PageSize = 2
  Segments <- MCAligned
  AddrExprs <- MCShortAddrExprs
  SizeExprs <- MCOne
  Bytes = {u, v}
  Payloads <- MCBytes
  Conditions <- MCConditions
  LoadSizes <- MCOne
  MaxOps = 5
  Merging = FALSE
  Lag = 0
  StoreAgain = TRUE
  GuardSizes = FALSE
  GuardOnImage = TRUE
INVARIANT LoadSound
CHECK_DEADLOCK FALSE
