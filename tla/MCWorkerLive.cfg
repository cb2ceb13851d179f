SPECIFICATION FairSpec
CONSTANTS
  Clients = {c1}
  Kinds = {"empty", "other", "long"}
  NoAddr = NoAddr
  NoMessage = NoMessage
  Capacity = 2
  ReceiveTimeout = 1
  Faults = {"thread", "format"}
  MaxDatagrams = 3
  MaxTicks = 1
  MaxMessages = 1
  WaitFirst = TRUE
INVARIANT Accounted
PROPERTY RequestsLeave
CHECK_DEADLOCK FALSE
