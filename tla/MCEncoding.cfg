CONSTANTS
  Lines <- MCLines
  MaxLines = 1
SPECIFICATION Spec
PROPERTIES
  EncodesMeaning
  AcceptsDocumented
  DataIsStored
  RelativeFieldEndsInstruction
\* lex_source stops after the last line
CHECK_DEADLOCK FALSE
