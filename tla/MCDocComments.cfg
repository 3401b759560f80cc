CONSTANTS
  MaxLength = 0
  BUFFER_SIZE = 32
  Letters <- MCLetters
  Texts <- TightComments
SPECIFICATION Spec
INVARIANT CommentsAreIgnored
\* the loop ends at the NUL behind the source
CHECK_DEADLOCK FALSE
