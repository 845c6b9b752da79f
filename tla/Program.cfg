SPECIFICATION ProgramFairSpec
CONSTANTS
  w1 = w1
  w2 = w2
  w3 = w3
  t1 = t1
  t2 = t2
  t3 = t3
  NoTask = NoTask
  Workers = {w1, w2, w3}
  Tasks = {t1, t2, t3}
  MaxSignals = 1
  MaxEvents = 3
INVARIANTS ProgramTypeOK NoIdleSleeper InOrder OutlivesUsers
PROPERTIES IsTaskPool JobsDone LoopIsLeft Ends
CHECK_DEADLOCK FALSE
