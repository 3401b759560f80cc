CONSTANTS
  Lines <- MCDocumentedLines
  MaxLines = 1
SPECIFICATION Spec
PROPERTY StoreWritesMemory
\* lex_source stops after the last line
CHECK_DEADLOCK FALSE
