SPECIFICATION Spec
CONSTANTS
  States = {s1, s2, s3}
  Worlds <- MCFourWorlds
  Addrs <- MCAddrs
  PageSize = 2
  Segments <- MCAligned
  AddrExprs <- MCSpread
  SizeExprs <- MCOneOfFour
  Bytes = {u, v}
  Payloads <- MCBytes
  Conditions <- MCCuts
  LoadSizes <- MCOneOfFour
  MaxOps = 5
  Merging = TRUE
  Lag = 1
  StoreAgain = FALSE
  GuardSizes = FALSE
  GuardOnImage = FALSE
SYMMETRY Symmetry
INVARIANTS LoadSound UniqueLatest RangesCover CInv
CHECK_DEADLOCK FALSE
