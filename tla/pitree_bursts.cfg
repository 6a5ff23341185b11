SPECIFICATION Spec
CONSTANTS
  Handles = {t1, t2, t3}
  Spans <- MCSpans3
  PageSize = 2
  MaxData = 5
  Interleave = FALSE
  Reupdate = FALSE
SYMMETRY Symmetry
INVARIANTS TypeOK IInv SearchIsExact UpdateFindsItem CountsMatch
PROPERTY IsUntree
CHECK_DEADLOCK FALSE
