SPECIFICATION ListSpec
CONSTANTS
  Session = {s1}
  Picker = {k1, k2}
  Pid = {a1, a2}
  Pane = {p1, p2}
  Title = {t1, t2}
  NULL = NULL
  Ids = {1, 2, 3}
  Missing = 0
  Activity = {1, 2}
SYMMETRY PickerSymmetry
INVARIANTS TypeOK OnePerWindow EachRowOnce UnderDelegator FreshestFirst
PROPERTIES EndsUnreachableOnly ResumesAlone SwitchesToSession
