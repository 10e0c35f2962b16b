CONSTANTS
  Slot = {s1}
  Reporter = {p1}
  Conn = {c1, c2}
  Creator = c1
  Ops = {"BIUS_WRITE"}
  MaxId = 2
  MaxLen = 1
  Faults = {"kill"}
  None = None
SPECIFICATION Spec
INVARIANTS
  WaitingAreRequests
CHECK_DEADLOCK FALSE
