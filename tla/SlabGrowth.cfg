SPECIFICATION FairSpec
CONSTANTS
  SlabSize = 3
  InitSlabs = 2
  MaxObjects = 13
  WordSize = 65536
  MaxRefills = 4
PROPERTIES GrowthReturns
CHECK_DEADLOCK FALSE
