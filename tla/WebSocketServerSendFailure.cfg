SPECIFICATION Spec
CONSTANTS
  Conns = {c1, c2}
  MaxMessages = 3
  NULL = NULL
INVARIANTS FailedSendReported
CHECK_DEADLOCK FALSE
