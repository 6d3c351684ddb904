SPECIFICATION FairSpec
CONSTANTS
  parent = parent
  child = child
  NULL = NULL
  Session = {parent, child}
  ParentOf <- OneDelegation
  KindOf <- TerminalAndBackground
  Pinned = {parent}
  Idle = 1
  PassLimit = 0
  Followed = {child}
INVARIANTS TypeOK
PROPERTIES
  NoTurnMissed QuestionKeepsSession DelegateKeepsDelegator WokenNotStopped
  RestingIsStopped
