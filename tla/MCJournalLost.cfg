SPECIFICATION Spec
CONSTANTS
  Actors = {w1, w2}
  ProcessOf <- OwnProcess
  Nobody = Nobody
  HeaderSize = 1
  MaxSize = 5
  Sizes = {1, 2}
  BufferSize = 5
  MaxWrites = 1
  Faults = {}
INVARIANT NothingLost
