SPECIFICATION FairSpec
CONSTANTS
  Characters <- AllCharacters
  Patterns <- SomePatterns
  Keys <- FactoryKeys
  INLINE_CAPACITY = 3
  DateCapacity = 2
  Messages <- SomeMessages
  MaxSecond = 2
  NoRecord = NoRecord
INVARIANTS
  TypeOK
  NothingLost
  AcceptsWellFormed
  OutputAsPattern
  DateOfThisSecond
PROPERTIES
  ParseEnds
\* A pattern may be refused, and then nothing is formatted.
CHECK_DEADLOCK FALSE
