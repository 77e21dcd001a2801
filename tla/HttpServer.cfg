SPECIFICATION FairSpec
CONSTANT MaxThreads = 3
INVARIANT TypeOK
PROPERTIES
  NothingRunsAfterStop
  StopEndsRunningServer
CHECK_DEADLOCK FALSE
