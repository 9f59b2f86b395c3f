SPECIFICATION SyncSpec
CONSTANTS
  MessageIds = {"server", "conf"}
  HEAD = 2
  BODY = 3
  Lengths = {0, 2, 3, 7}
  MaxRequests = 4
INVARIANTS
  SocketsAccounted
PROPERTIES
  AnswerIsWhole FailureDisconnects SendReturns
