SPECIFICATION FairSpec
CONSTANTS
  Session = {s1, s2}
  Ssh = {s2}
  NoSession = NoSession
  MaxCount = 2
INVARIANTS
  TypeOK
  PipeOwned
  NoStaleContext
  NotForgotten
  OwnerTalks
  PopupAlone
  GivenBack
  EndsClean
PROPERTIES
  CommandsEnd
  DeathNoticed
