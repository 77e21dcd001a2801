SPECIFICATION Spec
CONSTANTS
  Conns = {c1, c2}
  MaxMessages = 3
  NULL = NULL
INVARIANTS TypeOK HandlesAlive NothingMissed
PROPERTIES TableForgets
CHECK_DEADLOCK FALSE
