CONSTANTS
  MaxLength = 4
  BUFFER_SIZE = 32
  Letters <- MCLetters
  Texts <- MCTexts
SPECIFICATION FairSpec
INVARIANTS
  TypeOK
  OnlyLongLinesOverrun
  PartsInBuffer
PROPERTY ImplementsSourceLines
\* the loop ends at the NUL behind the source, the model at an overrun
CHECK_DEADLOCK FALSE
