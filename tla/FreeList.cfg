SPECIFICATION LiveSpec
CONSTANTS
  Threads = {t1, t2, t3}
  Nodes = {n1, n2}
  Null = Null
  SHOULD_BE_ON_FREELIST = 100
INVARIANTS
  Inv
  SpellsList
PROPERTIES
  PutBack
