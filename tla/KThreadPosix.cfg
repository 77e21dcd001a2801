SPECIFICATION FairSpec
CONSTANTS
  WIN32 = FALSE
  MaxThreads = 4
INVARIANT TypeOK
PROPERTIES
  WaitForStopWaits
  RunningIsAwaited
CHECK_DEADLOCK FALSE
