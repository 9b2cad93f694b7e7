SPECIFICATION LiveSpec
CONSTANTS
  Demuxes = {"epoll"}
  MaxId = 2
  MaxFd = 2
  MaxRx = 1
  Backlog = 1
  MaxW = 1
  Faults = {}
PROPERTIES
  SentOrClosed
