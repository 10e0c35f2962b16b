CONSTANTS
  Thread = {t1, t2}
  num_zones = 3
  num_conventional_zones = 0
  max_open_zones = 1
  max_active_zones = 2
  Capacity = 2
  Ops = {"open"}
  MaxOps = 3
  None = None
SPECIFICATION Spec
PROPERTIES
  RefusedOnlyAtLimit
CHECK_DEADLOCK FALSE
