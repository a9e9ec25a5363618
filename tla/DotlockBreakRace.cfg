SPECIFICATION Spec
CONSTANTS
  p1 = p1
  p2 = p2
  p3 = p3
  NoProc = NoProc
  Proc = {p1, p2, p3}
  NodeOf <- OneNode
  PidOf <- OwnPid
  MayEnd = {p1}
  MayReuse = {}
  MayFail = {}
INVARIANTS
  MutualExclusion
