SPECIFICATION Spec
CONSTANTS
  Characters <- AllCharacters
  Patterns <- TheDefault
  Keys <- FactoryKeys
  INLINE_CAPACITY = 3
  DateCapacity = 2
  Messages <- SomeMessages
  MaxSecond = 2
  NoRecord = NoRecord
INVARIANTS
  DirectivesKnown
\* A pattern may be refused, and then nothing is formatted.
CHECK_DEADLOCK FALSE
