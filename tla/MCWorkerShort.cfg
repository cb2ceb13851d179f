SPECIFICATION Spec
CONSTANTS
  Clients = {c1}
  Kinds = {"pid", "short"}
  NoAddr = NoAddr
  NoMessage = NoMessage
  Capacity = 3
  ReceiveTimeout = 1
  Faults = {}
  MaxDatagrams = 2
  MaxTicks = 1
  MaxMessages = 2
  WaitFirst = FALSE
INVARIANT AnswerFits
CHECK_DEADLOCK FALSE
