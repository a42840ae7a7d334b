SPECIFICATION FairSpec
CONSTANTS
  Tasks = {t1, t2, t3}
  FiberTasks = {}
  Workers = {w}
  Root = r
  UseRoot = TRUE
  Nobody = Nobody
  Owners = {Nobody, r}
  MaxYields = 1
  MaxWakes = 1
INVARIANTS
  TypeOK
  CoroutineInOnePlace
  WrongFiberNeedsWake
  ActiveIsExact
  IdleOverMeansStopped
  NoTaskStranded
CHECK_DEADLOCK FALSE
PROPERTIES
  FunctionsStop
