SPECIFICATION ProgramFairSpec
CONSTANTS
  w1 = w1
  w2 = w2
  w3 = w3
  t1 = t1
  t2 = t2
  t3 = t3
  NoTask = NoTask
  Workers = {w1}
  Tasks = {t1}
  MaxSignals = 1
  MaxEvents = 2
PROPERTIES StopsWhenAsked
CHECK_DEADLOCK FALSE
