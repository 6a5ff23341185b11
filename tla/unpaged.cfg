SPECIFICATION Spec
CONSTANTS
  Handles = {h1, h2}
  Values = {u, v}
  NoValue = NoValue
  NotCached = NotCached
  Default = Default
  PageSize = 2
  NumPages = 2
  ManyRoots = FALSE
SYMMETRY Symmetry
INVARIANT IInv
PROPERTY IsPrivateStore
CHECK_DEADLOCK FALSE
