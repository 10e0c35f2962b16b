CONSTANTS
  Slot = {s1, s2, s3}
  Conn = {c1, c2}
  Pending = Pending
  Poison = Poison
  None = None
SPECIFICATION FairSpec
INVARIANTS
  TypeOK
  ListsWhole
  NoStrayEnd
  ReleaseEndsAll
  OnlyLateOnesLeft
PROPERTIES
  ExitCompletes
CHECK_DEADLOCK FALSE
