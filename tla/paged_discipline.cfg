SPECIFICATION Spec
CONSTANTS
  Handles = {h1, h2, h3}
  Values = {u, v}
  NoValue = NoValue
  NoPage = NoPage
  Default = Default
  PageSize = 2
  NumPages = 2
  LargeRange = 1
  ManyRoots = FALSE
  WriteAfterCopy = FALSE
SYMMETRY Symmetry
INVARIANTS IInv FindExactFromPage
PROPERTY IsPrivateStore
CHECK_DEADLOCK FALSE
