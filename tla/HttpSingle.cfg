SPECIFICATION Spec
CONSTANTS
  Conns = {c1, c2, c3}
INVARIANTS TypeOK ConnectionsServed NoneAfterStop
PROPERTIES StopEnds
CHECK_DEADLOCK FALSE
