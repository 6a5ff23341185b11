SPECIFICATION Spec
CONSTANTS
  Handles = {h1}
  Values = {v}
  NoValue = NoValue
  NoPage = NoPage
  Default = Default
  PageSize = 2
  NumPages = 2
  LargeRange = 1
  ManyRoots = FALSE
  WriteAfterCopy = FALSE
INVARIANT FindMatchesReference
CHECK_DEADLOCK FALSE
