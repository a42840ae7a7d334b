SPECIFICATION Spec
CONSTANTS
  Threads = {t1, t2}
  Loggers = {o1, o2}
  Root = Root
  Null = Null
  Names = {n1, n2}
  Appenders = {a, b}
  Stdout = a
  Levels = {2, 3}
  Debug = 2
  MaxAppenders = 2
  MaxChanges = 2
  MaxCalls = 2
SYMMETRY Symmetry
INVARIANTS
  TypeOK
  OneLoggerPerName
PROPERTIES
  WholeListServed
  SubmitAsShouldLog
\* When all calls and changes are made nothing is left to do.
CHECK_DEADLOCK FALSE
