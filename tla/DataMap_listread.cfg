CONSTANTS
  PAGE_SIZE = 3
  Page = {1, 2, 3}
  Layouts <- AllLayouts
  Positions = {0, 1}
  MaxSegs = 3
  MaxReq = 1
  Leftover <- ZerosOrOnes
  Faults = FALSE
SPECIFICATION Spec
INVARIANTS
  ReadsDelivered
CHECK_DEADLOCK FALSE
