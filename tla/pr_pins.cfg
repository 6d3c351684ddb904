SPECIFICATION Spec
CONSTANTS
  Event = {e1}
  PR = {p1, p2}
  Debounce = 1
  ConfirmWindow = 1
  MaxFailures = 1
  MaxTime = 2
  MaxByHand = 0
  MaxLost = 0
  NULL = NULL
  PRState = {"OPEN", "CLOSED"}
SYMMETRY ActivitySymmetry
PROPERTIES UnpinnedAfterClose ResumedForNews
