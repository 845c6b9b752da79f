SPECIFICATION FairSpec
CONSTANTS
  c1 = c1
  c2 = c2
  c3 = c3
  Conns = {c1, c2, c3}
  NumWorkers = 1
  InitAccepts = 1
  SqEntries = 3
  QueueLimit = 1
  ReadResults = {"zero", "pos"}
  BufferCap = 1
  MaxSessions = 2
  MaxAcceptErrs = 0
  MaxThrows = 0
  MaxSubmitFails = 0
  AllowStop = FALSE
PROPERTIES JobFinishes CloseFinishes AnswerSubmitted
CHECK_DEADLOCK FALSE
