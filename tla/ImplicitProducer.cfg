SPECIFICATION Spec
CONSTANTS
  Consumers = {c1, c2}
  Blocks = {b1, b2}
  None = None
  BLOCK_SIZE = 2
  IMPLICIT_INITIAL_INDEX_SIZE = 2
  MaxElems = 7
  MaxCounts = 5
INVARIANTS
  Inv
  EntryFound
PROPERTIES
  ImplementsFifo
CHECK_DEADLOCK FALSE
