SPECIFICATION LiveSpec
CONSTANTS
  Threads = {t1}
  Lengths = {126}
  MaxId = 1
  MaxObjs = 2
  MaxItems = 3
  MaxAsks = 1
INVARIANTS
  Inv
  FramesWhole
PROPERTIES
  SilentAfterClose
  ActsOnItsSession
  MessagesTold
CHECK_DEADLOCK FALSE
