SPECIFICATION FairSpec
CONSTANTS
  s1 = s1
  s2 = s2
  d1 = d1
  d2 = d2
  Session = {s1, s2}
  Short = {s1, s2}
  ShortOf <- DistinctShorts
  Kind = {"background"}
  TurnState = {"working"}
  Retention = 0
  MaxTime = 1
  NULL = NULL
  Dir = {d1, d2}
  DirOf <- TwoDirs
  Sweeper = {w1}
  Linked = {}
  MaxStart = 2
  MaxKill = 1
PROPERTIES VanishedBecomesGone DoneBackgroundStops
CHECK_DEADLOCK FALSE
