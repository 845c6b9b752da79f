SPECIFICATION Spec
CONSTANTS
  main = main
  worker = worker
  Main = main
  Threads = {main, worker}
  Entries = 4
  WordSize = 64
  MainOps = 1
  WorkerOps = 1
  MaxRounds = 0
  MaxFails = 0
INVARIANTS SubmittedAtOnce
CHECK_DEADLOCK FALSE
