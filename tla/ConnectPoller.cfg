SPECIFICATION LiveSpec
CONSTANTS
  Reqs = {r1, r2, r3}
  Fds = {3, 4}
  Timeout = 3
  Interval = 2
  Exhausts = TRUE
INVARIANTS
  Inv
  TimerWhilePending
  NoSocketLeak
PROPERTIES
  AnsweredOnce
