SPECIFICATION LiveSpec
CONSTANTS
  MaxId = 4
  MaxObjs = 3
  MaxRx = 0
  MaxW = 0
  Faults = {}
PROPERTIES
  BacklogServed
CHECK_DEADLOCK FALSE
