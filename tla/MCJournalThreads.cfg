SPECIFICATION Spec
CONSTANTS
  Actors = {w1, w2}
  ProcessOf <- OneProcess
  Nobody = Nobody
  HeaderSize = 1
  MaxSize = 5
  Sizes = {1, 2}
  BufferSize = 4
  MaxWrites = 2
  Faults = {"lock", "unlock"}
INVARIANTS TypeOK WithinBounds NothingLost ReadIsSnapshot
PROPERTY NeverShrinks
CHECK_DEADLOCK FALSE
