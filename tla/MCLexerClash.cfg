CONSTANTS
  Lines <- MCLines
  MaxLines = 4
SPECIFICATION Spec
PROPERTY OnlyLabelsClash
\* lex_source stops after the last line
CHECK_DEADLOCK FALSE
