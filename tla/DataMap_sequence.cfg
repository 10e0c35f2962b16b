CONSTANTS
  PAGE_SIZE = 3
  Page = {1, 2, 3}
  Layouts <- AllLayouts
  Positions = {0, 1}
  MaxSegs = 3
  MaxReq = 2
  Leftover <- ZerosOrOnes
  Faults = TRUE
SPECIFICATION Spec
INVARIANTS
  WrittenInOrder
  SimpleReadsDelivered
  OthersKept
  
  
CHECK_DEADLOCK FALSE
