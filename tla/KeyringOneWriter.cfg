SPECIFICATION Spec
CONSTANTS
  p1 = p1
  p2 = p2
  k1 = k1
  k2 = k2
  NoProc = NoProc
  NoFile = NoFile
  Proc = {p1, p2}
  Key = {k1, k2}
  Item = {1, 2}
  MaxCalls = 2
  Ops <- OneWriter
  Secret = {FALSE}
  MayFail = {p1}
  MayCrash = {p1}
  MayRestart = {}
INVARIANTS
  TypeOK
  RingIntact
  Recoverable
CHECK_DEADLOCK FALSE
