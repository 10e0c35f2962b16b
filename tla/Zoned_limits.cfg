CONSTANTS
  Thread = {t1, t2}
  num_zones = 4
  num_conventional_zones = 1
  max_open_zones = 1
  max_active_zones = 2
  Capacity = 2
  Ops = {"write", "append", "open", "close", "finish", "reset", "reset_all"}
  MaxOps = 4
  None = None
SPECIFICATION Spec
INVARIANTS
  TypeOK
  OpenCountExact
SYMMETRY Symmetry
CHECK_DEADLOCK FALSE
