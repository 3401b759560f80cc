CONSTANTS
  Lines <- MCLines
  MaxLines = 4
SPECIFICATION Spec
INVARIANTS
  TypeOK
  FieldsInBounds
  FieldsDisjoint
  FieldsAreZero
  LabelsInBounds
  LabelsAscend
  LabelsDistinct
  LabelsRecorded
PROPERTY AppendOnly
\* lex_source stops after the last line
CHECK_DEADLOCK FALSE
