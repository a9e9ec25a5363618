SPECIFICATION Spec
CONSTANTS
  p1 = p1
  p2 = p2
  p3 = p3
  NoProc = NoProc
  Proc = {p1, p2, p3}
  NodeOf <- TwoNodes
  PidOf <- SharedPid
  MayEnd = {}
  MayReuse = {}
  MayFail = {p1}
INVARIANTS
  TypeOK
  MutualExclusion
  LockedIsOwner
PROPERTIES
  OnlyOwnerUnlinks
