SPECIFICATION Spec
CONSTANTS
  Session = {s1, s2}
  Pane = {p1, p2}
  Opener = {o1, o2}
  Columns = 2
  Horizon = 0
  Window = 0
  MaxEvent = 4
  MaxTime = 1
  MaxKill = 1
  NULL = NULL
SYMMETRY MigrateSymmetry
INVARIANTS TypeOK OpenedWhole
PROPERTIES SortedOnce SortedAsEnded
