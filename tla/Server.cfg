SPECIFICATION Spec
CONSTANTS
  c1 = c1
  c2 = c2
  c3 = c3
  Conns = {c1, c2, c3}
  NumWorkers = 2
  InitAccepts = 2
  SqEntries = 2
  QueueLimit = 1
  ReadResults = {"neg", "zero", "pos"}
  BufferCap = 2
  MaxSessions = 2
  MaxAcceptErrs = 1
  MaxThrows = 1
  MaxSubmitFails = 1
  AllowStop = TRUE
INVARIANTS TypeOK OneOwner NoOrphan HandlerMatchesOp AcceptCredit SocketOwned OwnBytes ReadAfterDrain
PROPERTIES WorkerExclusive PoolUsed
CONSTRAINT UpToRepeat
SYMMETRY Symmetry
CHECK_DEADLOCK FALSE
