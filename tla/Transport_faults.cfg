CONSTANTS
  Slot = {s1, s2}
  Reporter = {p1}
  Conn = {c1, c2}
  Creator = c1
  Ops = {"BIUS_WRITE", "BIUS_READ"}
  MaxId = 2
  MaxLen = 2
  Faults = {"efault", "kill", "exit"}
  None = None
SPECIFICATION Spec
INVARIANTS
  TypeOK
  OnePlace
  EndedOnce
  NoLostRequest
  WakeupsSuffice
  DataPhaseAgrees
  OkMeansServed
  TeardownLeavesNothing
SYMMETRY Symmetry
CHECK_DEADLOCK FALSE
