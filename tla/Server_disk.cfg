CONSTANTS
  Thread = {t1, t2}
  num_zones = 2
  num_conventional_zones = 0
  max_open_zones = 2
  max_active_zones = 1
  Capacity = 2
  Ops = {"append", "open", "close", "reset", "reset_all"}
  MaxOps = 3
  None = None
  Ordered = TRUE
  SignalAt = {"idle"}
  MaxAux = 1
SPECIFICATION ServerFairSpec
INVARIANTS
  CountersExact
  CondMatchesWp
  GrantsDisjoint
  SettledOnDisk
  ReportsConsistent
PROPERTIES
  AllReturn
CHECK_DEADLOCK FALSE
