SPECIFICATION FairSpec
CONSTANTS
  Session = {s1, s2}
  App = {a1, a2}
  NoApp = NoApp
  Card = {c1, c2}
  NoCard = NoCard
  None = None
INVARIANTS
  TypeOK
  AppsCounted
  NoLeak
  LastUserUndisturbed
  LockOwnerLives
  SavedIsFresh
PROPERTIES
  CommandsEnd
