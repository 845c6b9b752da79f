SPECIFICATION FairSpec
CONSTANTS
  Capacity = 6
  BodyLen = 2
  AnswerSizes = {2, 4}
  ErrorSizes = {1}
  WordSize = 60
  PoolSize = 4
  MinBlock = 1
  Manners = {"orderly", "loose"}
  Kinds = {"get", "post", "bad", "chunked", "file", "foreign"}
  MaxRequests = 2
  MaxSessions = 2
  MaxErrors = 1
INVARIANTS TypeOK AnswersWhole AnswersInOnePiece AnswersInOrder ExtraCovers BlocksApart
PROPERTIES Served
CHECK_DEADLOCK FALSE
