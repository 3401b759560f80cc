CONSTANTS
  Letters <- MCLetters
  BUFFER_SIZE = 32
  PageZero = 65536
  ElfBase = 16384
  Dashed <- MCDashed
  Commands <- MCCommands
  FileSystems <- MCFileSystems
  DiskMayFill = TRUE
SPECIFICATION MCSpec
INVARIANTS
  TypeOK
  StagesGetWhatTheyNeed
  OutputMeansSource
PROPERTY ImplementsTranslation
\* the program ends
CHECK_DEADLOCK FALSE
