SPECIFICATION Spec
CONSTANTS
  Demuxes = {"epoll", "kqueue", "select"}
  MaxId = 2
  MaxFd = 3
  MaxRx = 1
  Backlog = 1
  MaxW = 1
  Faults = {"maxSize", "polladd", "noread", "send"}
INVARIANTS
  Inv
  OnlyKqueueCrashes
CHECK_DEADLOCK FALSE
