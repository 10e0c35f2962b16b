CONSTANTS
  Slot = {s1}
  Reporter = {p1}
  Conn = {c1, c2}
  Creator = c1
  Ops = {"BIUS_WRITE"}
  MaxId = 3
  MaxLen = 1
  Faults = {}
  None = None
SPECIFICATION FairSpec
INVARIANTS
  ReportsAreAnswers
PROPERTIES
  EveryRequestEnds
CHECK_DEADLOCK FALSE
