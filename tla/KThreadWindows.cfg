SPECIFICATION FairSpec
CONSTANTS
  WIN32 = TRUE
  MaxThreads = 6
INVARIANTS
  OneThreadAtATime
PROPERTIES
  WaitForStopWaits
  RunningIsAwaited
CHECK_DEADLOCK FALSE
