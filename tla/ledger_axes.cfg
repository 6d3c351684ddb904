SPECIFICATION Spec
CONSTANTS
  NULL = NULL
  Session = {s1, s2}
  Short = {s1, s2}
  ShortOf <- DistinctShorts
  Pane = {p1}
  Kind = {"interactive", "print"}
  TurnState = {"idle_done"}
  Retention = 1
  MaxTime = 2
SYMMETRY SessionSymmetry
INVARIANTS TypeOK GoneIffEnded
PROPERTIES OpenDelegationKept WorkAxisImplemented
