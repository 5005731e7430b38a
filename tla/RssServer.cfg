CONSTANTS
  Conns = {c1, c2, c3}
  ReportInterval = 2
  StartMayFail = TRUE
  MaxTime = 8
SPECIFICATION Spec
SYMMETRY Symmetry
INVARIANTS TypeOK ListedOnce
PROPERTY ReportsSpread
CHECK_DEADLOCK FALSE
