SPECIFICATION Spec
CONSTANTS
  MaxMessages = 3
INVARIANTS TypeOK ShownWasSent
PROPERTIES QuitEnds
CHECK_DEADLOCK FALSE
