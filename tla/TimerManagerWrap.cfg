SPECIFICATION FairSpec
CONSTANTS
  Timers = {1, 2}
  Clients = {c1}
  Pollers = {p1}
  Intervals = {1, 15}
  W = 16
  Hour = 2
  BootTime = 2
  MaxDelay = 3
  MaxTime = 3
INVARIANTS
  TypeOK
PROPERTIES
  DueTimerTaken
\* With no timer left everybody may sleep for good; a lost lock stops everybody.
CHECK_DEADLOCK FALSE
