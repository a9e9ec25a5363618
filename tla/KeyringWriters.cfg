SPECIFICATION FairSpec
CONSTANTS
  p1 = p1
  p2 = p2
  k1 = k1
  k2 = k2
  NoProc = NoProc
  NoFile = NoFile
  Proc = {p1, p2}
  Key = {k1, k2}
  Item = {1}
  MaxCalls = 3
  Ops <- Generators
  Secret = {FALSE, TRUE}
  MayFail = {}
  MayCrash = {p1, p2}
  MayRestart = {p1, p2}
INVARIANTS
  NothingLost
  CopyUnderLock
PROPERTIES
  LockComes
CHECK_DEADLOCK FALSE
