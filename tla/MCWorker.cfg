SPECIFICATION Spec
CONSTANTS
  Clients = {c1}
  Kinds = {"pid", "none", "long"}
  NoAddr = NoAddr
  NoMessage = NoMessage
  Capacity = 3
  ReceiveTimeout = 1
  Faults = {"thread", "malloc", "socket", "bind", "queue", "file", "realloc", "format"}
  MaxDatagrams = 3
  MaxTicks = 2
  MaxMessages = 2
  WaitFirst = FALSE
INVARIANTS TypeOK Accounted RepliesInOrder AnswerFits LogFitsReplies UsageFits ExitIsClean
CHECK_DEADLOCK FALSE
