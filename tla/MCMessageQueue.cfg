SPECIFICATION Spec
CONSTANTS
  Threads = {t1, t2}
  Msgs = {m1, m2, m3}
  NoMsg = NoMsg
  NoThread = NoThread
  Capacity = 3
  Faults = {"lock", "wait", "signal", "unlock"}
SYMMETRY Symmetry
INVARIANTS TypeOK OneOwner
PROPERTIES EnqueueAppends ImplementsDropQueue
CHECK_DEADLOCK FALSE
