SPECIFICATION Spec
CONSTANTS
  Session = {s1, s2, s3}
  Walker = {w1, w2}
  NavLimit = 3
  MaxPos = 6
  NULL = NULL
SYMMETRY SessionSymmetry
INVARIANTS TypeOK HistoryWellFormed BackThenForwardReturns
PROPERTY BrowserImplemented
CHECK_DEADLOCK FALSE
