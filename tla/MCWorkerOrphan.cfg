SPECIFICATION FairSpec
CONSTANTS
  Clients = {c1}
  Kinds = {"pid"}
  NoAddr = NoAddr
  NoMessage = NoMessage
  Capacity = 2
  ReceiveTimeout = 1
  Faults = {}
  MaxDatagrams = 3
  MaxTicks = 1
  MaxMessages = 2
  WaitFirst = FALSE
PROPERTY OrphanExits
CHECK_DEADLOCK FALSE
