SPECIFICATION Spec
CONSTANTS
  Timers = {t1, t2, t3, t4, t5, t6}
  Intervals = {1, 2}
  MaxNow = 2
  MaxCrowd = 3
INVARIANTS
  Inv
PROPERTIES
  NoneMissed
  DueShrinks
  ImplementsService
SYMMETRY TimerSymmetry
CHECK_DEADLOCK FALSE
