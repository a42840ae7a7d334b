SPECIFICATION Spec
CONSTANTS
  Timers = {1, 2}
  Clients = {c1, c2}
  Pollers = {p1, p2}
  Intervals = {1}
  W = 5
  Hour = 2
  BootTime = 2
  MaxDelay = 1
  MaxTime = 3
SYMMETRY ThreadSymmetry
INVARIANTS
  QueueHoldsArmed
  OneShotSettledOnce
  NoOversleep
  WedgeNeedsDeadTimer
PROPERTIES
  NoEarlyCallback
  ImplementsTimerService
\* With no timer left everybody may sleep for good; a lost lock stops everybody.
CHECK_DEADLOCK FALSE
