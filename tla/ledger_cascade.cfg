\* Three sessions and every delegation between them, cycles included: deep
\* enough for a delegate of a delegate and for one reached through a done one.
SPECIFICATION Spec
CONSTANTS
  NULL = NULL
  Session = {s1, s2, s3}
  Short = {s1, s2, s3}
  ShortOf <- DistinctShorts
  Pane = {p1}
  Kind = {"background"}
  TurnState = {"working"}
  Retention = 0
  MaxTime = 0
SYMMETRY SessionSymmetry
PROPERTIES
  CascadeComplete
