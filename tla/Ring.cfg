SPECIFICATION Spec
CONSTANTS
  main = main
  worker = worker
  Main = main
  Threads = {main, worker}
  Entries = 2
  WordSize = 64
  MainOps = 3
  WorkerOps = 2
  MaxRounds = 1
  MaxFails = 1
INVARIANTS TypeOK TakenWhole NoneOverwritten
PROPERTIES IsSubmitQueue
CONSTRAINT UpToRace
CHECK_DEADLOCK FALSE
