SPECIFICATION FairSpec
CONSTANTS
  Clients <- MCClients
  RawBodyLen <- MCRawBodyLen
  BufSize = 6
  CallbackReplies = FALSE
INVARIANTS
  TypeOK
  AtMostOneRead
  BodyIntact
  CompleteRequestIsServed
  NoReadOnShutSocket
  ReplyEndsAsBegun
PROPERTIES
  OneShotIsAnExchange
  ReleasedAfterReply
CHECK_DEADLOCK FALSE
