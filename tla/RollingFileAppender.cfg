SPECIFICATION Spec
CONSTANTS
  FileMaxSize = 3
  RollInterval = 3
  FlushInterval = 1
  FlushMaxAppends = 3
  Sizes = {1, 2}
  LargestMessage = 2
  FoundSizes = {0, 7}
  MaxTime = 6
  NoFile = NoFile
  Never = Never
INVARIANTS
  TypeOK
  OffsetBounded
  ClosedOnlyByFailure
PROPERTIES
  ChargedToYoungFile
