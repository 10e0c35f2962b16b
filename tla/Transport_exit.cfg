CONSTANTS
  Slot = {s1, s2}
  Reporter = {}
  Conn = {c1, c2}
  Creator = c1
  Ops = {"BIUS_WRITE", "BIUS_INVALID_OP"}
  MaxId = 3
  MaxLen = 1
  Faults = {"exit"}
  None = None
SPECIFICATION FairSpec
PROPERTIES
  ImplementsService
  ExitCompletes
CHECK_DEADLOCK FALSE
