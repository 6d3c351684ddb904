SPECIFICATION Spec
CONSTANTS
  Event = {e1, e2}
  PR = {p1}
  Debounce = 1
  ConfirmWindow = 1
  MaxFailures = 2
  MaxTime = 3
  MaxByHand = 1
  MaxLost = 1
  NULL = NULL
  PRState = {"OPEN"}
SYMMETRY ActivitySymmetry
INVARIANTS TypeOK NothingSkipped LaunchesCapped
PROPERTY InboxImplemented
