SPECIFICATION Spec
CONSTANTS
  Timers = {1}
  Clients = {c1}
  Pollers = {p1, p2}
  Intervals = {1}
  W = 16
  Hour = 5
  BootTime = 2
  MaxDelay = 1
  MaxTime = 4
SYMMETRY ThreadSymmetry
INVARIANTS
  NoRollover
\* With no timer left everybody may sleep for good; a lost lock stops everybody.
CHECK_DEADLOCK FALSE
