SPECIFICATION Spec
CONSTANTS
  Capacity = 8
  BodyLen = 2
  AnswerSizes = {1}
  ErrorSizes = {1}
  WordSize = 80
  PoolSize = 4
  MinBlock = 1
  Manners = {"loose"}
  Kinds = {"post"}
  MaxRequests = 1
  MaxSessions = 1
  MaxErrors = 0
INVARIANTS ProcessedIsRemoved
CHECK_DEADLOCK FALSE
