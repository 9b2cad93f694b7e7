SPECIFICATION Spec
CONSTANTS
  BUFFER_SIZE = 2
  MaxLen = 9
  MaxBytes = 12
  Wrap = 7
INVARIANTS
  TypeOK
  RoomToReceive
  CapacityFollowsPeak
  FifoContent
