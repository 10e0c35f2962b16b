CONSTANTS
  Layouts <- AllLayouts
  Chunk = 4
  Iter = 2
  Servers = {"ramdisk", "passthrough"}
  Faults = TRUE
SPECIFICATION FairSpec
INVARIANTS
  RemainMatchesChain
  InOrderPrefix
  VerificationOk
PROPERTIES
  TestEnds
CHECK_DEADLOCK FALSE
