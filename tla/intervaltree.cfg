SPECIFICATION Spec
CONSTANTS
  Handles = {t1, t2}
  Spans <- MCSpans
  MaxNodes = 6
SYMMETRY Symmetry
INVARIANTS TypeOK Balanced SearchIsExact
PROPERTY IsUntree
CHECK_DEADLOCK FALSE
