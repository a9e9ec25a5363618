SPECIFICATION FairSpec
CONSTANTS
  p1 = p1
  p2 = p2
  p3 = p3
  NoProc = NoProc
  Proc = {p1, p2}
  NodeOf <- OneNode
  PidOf <- OwnPid
  MayEnd = {p1, p2}
  MayReuse = {p1, p2}
  MayFail = {}
PROPERTIES
  ImplementsLock
  LockMovesOn
  OwnLeftoverTaken
CHECK_DEADLOCK FALSE
