SPECIFICATION LastSpec
CONSTANTS
  Thread = {t1, t2}
  Slot = {s1, s2, s3, s4}
  NoSlot = NoSlot
  Key = {k}
  Data = {d1, d2}
  NoData = NoData
  Start = 5
  MaxTime = 7
  DefTtl <- Default
  MaxTtl <- Maximum
  Request <- Requests
  SlotAge = 0
  Delay = 1
SYMMETRY Symmetry
INVARIANTS
  TypeOK
  HeldStays
  LockcountExact
  FewDuplicates
  OnlyLast
PROPERTIES
  ServedInTime
CHECK_DEADLOCK FALSE
