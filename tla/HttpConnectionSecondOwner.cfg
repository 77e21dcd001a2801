SPECIFICATION Spec
CONSTANTS
  Clients <- MCClients
  RawBodyLen <- MCRawBodyLen
  BufSize = 6
  CallbackReplies = TRUE
INVARIANT DestroyedWhenUnreferenced
CHECK_DEADLOCK FALSE
