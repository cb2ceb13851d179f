SPECIFICATION FairSpec
CONSTANTS
  Threads = {t1, t2, t3}
  Msgs = {m1, m2}
  NoMsg = NoMsg
  NoThread = NoThread
  Capacity = 3
  Faults = {"lock", "wait"}
INVARIANT NoStuckWaiter
PROPERTY QuietQueueSettles
