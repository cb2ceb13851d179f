SPECIFICATION ServerFairSpec
CONSTANTS
  Main = main_
  Thread = thread_
  Actors = {main_, thread_, w1}
  ProcessOf <- ServerProcesses
  Nobody = Nobody
  HeaderSize = 1
  MaxSize = 3
  Sizes = {1}
  BufferSize = 3
  MaxWrites = 1
  Faults = {"lock", "unlock"}
  Utilities = {u1, u2}
  NoUtility = NoUtility
  Backlog = 0
  SocketBuffer = 1
  TransferFaults = {"listen", "accept", "malloc", "connect", "send", "file"}
  ServerFaults = {"create", "fork", "pthread", "munmap"}
INVARIANTS ServerTypeOK HelloKept SavedFromOneRead SavedBeginsWithHello
PROPERTY UtilityReturns
CHECK_DEADLOCK FALSE
