SPECIFICATION PoolSpec
CONSTANTS
  SlabSize = 3
  InitSlabs = 2
  MaxObjects = 13
  WordSize = 65536
  MaxRefills = 0
  PoolSize = 8
  MinBlock = 2
INVARIANTS MemoryGivenBack
CHECK_DEADLOCK FALSE
