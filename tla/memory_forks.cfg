SPECIFICATION Spec
CONSTANTS
  States = {s1, s2}
  Worlds <- MCWorlds
  Addrs <- MCAddrs
  PageSize = 2
  Segments <- MCStraddling
  AddrExprs <- MCLowPair
  SizeExprs <- MCSymbolicSize
  Bytes = {u, v}
  Payloads <- MCPayloads
  Conditions <- MCConditions
  LoadSizes <- MCSymbolicSize
  MaxOps = 5
  Merging = FALSE
  Lag = 0
  StoreAgain = TRUE
  GuardSizes = FALSE
  GuardOnImage = FALSE
SYMMETRY Symmetry
INVARIANTS TypeOK IInv LoadSound ItemsTell
CHECK_DEADLOCK FALSE
