SPECIFICATION Spec
CONSTANTS
  k1 = k1
  k2 = k2
  k3 = k3
  k4 = k4
  u = u
  w = w
  Key = {k1, k2, k3, k4}
  Trust = {u, w}
  Bucket = {1, 2}
  BucketOf <- Hash
  NoTrust = NoTrust
  Failed = Failed
  MaxRec = 6
  MaxPending = 2
  Soft = 2
  Slots = 2
SYMMETRY Alike
INVARIANTS
  TypeOK
  ViewRight
  FileRight
  CacheKnown
CHECK_DEADLOCK FALSE
