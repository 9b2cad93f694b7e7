SPECIFICATION LiveSpec
CONSTANTS
  MaxId = 3
  MaxObjs = 2
  MaxRx = 1
  MaxW = 2
  Faults = {"ioctl"}
INVARIANTS
  TableOK
PROPERTIES
  SentOrClosed
  GoneIsClosed
  Delivered
CHECK_DEADLOCK FALSE
