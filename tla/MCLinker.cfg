CONSTANTS
  PageZero = 65536
  ElfBase = 16384
  Inputs <- MCInputs
  DiskMayFill = TRUE
  Modes <- MCModes
SPECIFICATION FairSpec
INVARIANTS
  TypeOK
  ReferencesReachLabels
  ImageIsLoadable
  ExtentsDisjoint
  LoadsDisjoint
PROPERTIES
  PatchesOnlyItsField
  Termination
\* the writer stops when the file is written or refused
CHECK_DEADLOCK FALSE
