SPECIFICATION FairSpec
CONSTANTS
  Tasks = {t1}
  FiberTasks = {t1}
  Workers = {w}
  Root = r
  UseRoot = TRUE
  Nobody = Nobody
  Owners = {Nobody}
  MaxYields = 0
  MaxWakes = 0
PROPERTIES
  StopReturns
\* After Stop has returned, or after an abort, nothing happens any more.
CHECK_DEADLOCK FALSE
