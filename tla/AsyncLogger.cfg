SPECIFICATION FairSpec
CONSTANTS
  Capacity = 2
  DropThreshold = 3
  MaxEvents = 8
  MaxStarts = 2
  NoBuffer = NoBuffer
INVARIANTS
  TypeOK
  NoEventLost
  NoLostWakeup
  CrashOnlyAfterTwoPasses
PROPERTIES
  FirstBatchSettled
  StopReturns
  ImplementsLogPipe
\* The logger may be idle for good, stopped for good, or dead.
CHECK_DEADLOCK FALSE
