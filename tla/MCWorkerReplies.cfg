SPECIFICATION Spec
CONSTANTS
  Clients = {c1, c2}
  Kinds = {"pid"}
  NoAddr = NoAddr
  NoMessage = NoMessage
  Capacity = 3
  ReceiveTimeout = 1
  Faults = {}
  MaxDatagrams = 2
  MaxTicks = 1
  MaxMessages = 2
  WaitFirst = FALSE
SYMMETRY Symmetry
INVARIANT RepliesToSender
CHECK_DEADLOCK FALSE
