SPECIFICATION Spec
CONSTANTS
  MaxId = 2
  MaxObjs = 3
  MaxRx = 1
  MaxW = 2
  Faults = {"acceptex", "assoc", "wsarecv", "wsasend", "wsasocket", "bind", "noread", "closeself"}
INVARIANTS
  TypeOK
  TableOK
  OneSendWhileUnsent
  OneReadWhileLive
  DefinedInFirstLap
CHECK_DEADLOCK FALSE
