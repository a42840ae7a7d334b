SPECIFICATION Spec
CONSTANTS
  Capacity = 1
  DropThreshold = 2
  MaxEvents = 4
  MaxStarts = 1
  NoBuffer = NoBuffer
INVARIANTS
  LoopUntilStop
\* The logger may be idle for good, stopped for good, or dead.
CHECK_DEADLOCK FALSE
