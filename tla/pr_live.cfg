SPECIFICATION FairSpec
CONSTANTS
  Event = {e1}
  PR = {p1}
  Debounce = 1
  ConfirmWindow = 1
  MaxFailures = 2
  MaxTime = 2
  MaxByHand = 0
  MaxLost = 0
  NULL = NULL
  PRState = {"OPEN", "MERGED"}
PROPERTIES NewsIsSettled MergeUnpins
