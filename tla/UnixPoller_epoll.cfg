SPECIFICATION LiveSpec
CONSTANTS
  Demuxes = {"epoll"}
  MaxId = 2
  MaxFd = 3
  MaxRx = 2
  Backlog = 1
  MaxW = 0
  Faults = {"bind", "connectFull"}
INVARIANTS
  Inv
PROPERTIES
  OnlyGoneClosed
  Delivered
  GoneIsClosed
  BacklogServed
