SPECIFICATION PoolSpec
CONSTANTS
  SlabSize = 3
  InitSlabs = 2
  MaxObjects = 13
  WordSize = 65536
  MaxRefills = 4
  PoolSize = 8
  MinBlock = 2
INVARIANTS PoolTypeOK ListsExact CountsAgree BlocksTile ServedByFit
PROPERTIES IsConnPool
CHECK_DEADLOCK FALSE
