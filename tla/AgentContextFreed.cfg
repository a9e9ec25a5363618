SPECIFICATION Spec
CONSTANTS
  Session = {s1, s2}
  Ssh = {s2}
  NoSession = NoSession
  MaxCount = 2
INVARIANTS
  InUseStays
