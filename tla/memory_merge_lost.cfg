SPECIFICATION Spec
CONSTANTS
  States = {s1, s2}
  Worlds <- MCWorlds
  Addrs <- MCAddrs
  PageSize = 2
  Segments <- MCAligned
  AddrExprs <- MCPair
  SizeExprs <- MCOne
  Bytes = {u, v}
  Payloads <- MCBytes
  Conditions <- NoConditions
  LoadSizes <- MCOne
  MaxOps = 5
  Merging = TRUE
  Lag = 0
  StoreAgain = TRUE
  GuardSizes = FALSE
  GuardOnImage = FALSE
INVARIANT ItemsTell
CHECK_DEADLOCK FALSE
