SPECIFICATION Spec
CONSTANTS
  Capacity = 8
  BodyLen = 2
  AnswerSizes = {1}
  ErrorSizes = {1}
  WordSize = 80
  PoolSize = 4
  MinBlock = 1
  Manners = {"loose"}
  Kinds = {"get"}
  MaxRequests = 1
  MaxSessions = 1
  MaxErrors = 0
INVARIANTS ClosedByClientOnly
CHECK_DEADLOCK FALSE
