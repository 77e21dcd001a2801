SPECIFICATION FairSpec
CONSTANTS
  MaxSessions = 1
  NULL = NULL
INVARIANTS
  NoWriteDuringClose
  
  WriteHasStream
  ExclusiveSection
PROPERTIES
  OneIsARecording
  StoppedIsClosed
CHECK_DEADLOCK FALSE
