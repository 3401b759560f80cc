CONSTANTS
  PageZero = 65536
  ElfBase = 16384
  Inputs <- MCInputs
  DiskMayFill = FALSE
  Modes <- MCModes
SPECIFICATION Spec
INVARIANT EveryLabelIsPlaced
\* the writer stops when the file is written or refused
CHECK_DEADLOCK FALSE
