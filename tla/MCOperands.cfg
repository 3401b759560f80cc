CONSTANTS
  MaxLength = 5
  Sources <- MCSources
SPECIFICATION Spec
INVARIANTS
  TypeOK
  UnderstoodAsMeant
  RefusesTheRest
\* parse_source_lvl2 stops after the last line
CHECK_DEADLOCK FALSE
