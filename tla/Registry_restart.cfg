CONSTANTS
  Server = {"a", "b", "c"}
  NameOf <- SharedNames
  Threads = 2
  MaxDev = 3
  Overlap = FALSE
  CreateFails = TRUE
SPECIFICATION FairSpec
INVARIANTS
  TypeOK
  InUseListed
  OwnDeviceOnly
  NoDangling
PROPERTIES
  DevicesGo
CHECK_DEADLOCK FALSE
