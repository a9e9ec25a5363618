SPECIFICATION Spec
CONSTANTS
  p1 = p1
  p2 = p2
  k1 = k1
  k2 = k2
  NoProc = NoProc
  NoFile = NoFile
  Proc = {p1, p2}
  Key = {k1, k2}
  Item = {1}
  MaxCalls = 2
  Ops <- Importers
  Secret = {TRUE}
  MayFail = {}
  MayCrash = {}
  MayRestart = {}
INVARIANTS
  NothingLost
CHECK_DEADLOCK FALSE
