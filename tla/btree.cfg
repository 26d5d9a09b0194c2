SPECIFICATION FairSpec
CONSTANTS
  N = 10
  MaxKeys = 3
  Key <- Keys
  Value <- Offsets
  Entries <- EachOnce
  Node <- Nodes
  Null = Null
  MayFail = TRUE
INVARIANTS TypeOK Balanced KeysAscend FreeReachesOnce
PROPERTIES CallReturns ImplementsIdMap
