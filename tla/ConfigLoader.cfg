SPECIFICATION Spec
CONSTANTS
  Loaders = {l1, l2}
  Files = {f1, f2}
  Entries <- ThreeEntries
  Vars <- TwoVars
  MaxVersion = 2
  MaxTime = 2
  NoFile = NoFile
SYMMETRY Symmetry
INVARIANTS
  TypeOK
  NeverForgotten
  UpToDate
PROPERTIES
  ForcedLoadRepairs
