SPECIFICATION FairSpec
CONSTANTS
  PortCount = 2
  Capacity = 2
  Modes = {"normal", "fuzz"}
  Faults = {"malloc", "socket", "bind", "queue", "thread", "message"}
INVARIANTS TypeOK OnlyPrinterDangles ReleasedAtExit
PROPERTIES AnswersPrinted ClientEnds
CHECK_DEADLOCK FALSE
