SPECIFICATION FairSpec
CONSTANTS
  Clients = {c1}
  Kinds = {"pid", "long"}
  NoAddr = NoAddr
  NoMessage = NoMessage
  Capacity = 2
  ReceiveTimeout = 1
  Faults = {"thread", "malloc"}
  MaxDatagrams = 2
INVARIANTS FlagTracksThread DeleteIsLast
PROPERTY StopReturns
CHECK_DEADLOCK FALSE
