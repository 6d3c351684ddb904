SPECIFICATION Spec
CONSTANTS
  Event = {e1, e2}
  PR = {p1}
  Debounce = 1
  ConfirmWindow = 1
  MaxFailures = 2
  MaxTime = 3
  MaxByHand = 0
  MaxLost = 0
  NULL = NULL
  PRState = {"OPEN"}
SYMMETRY ActivitySymmetry
INVARIANT AtCursorDelivered
