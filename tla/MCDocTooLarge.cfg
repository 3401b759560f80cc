CONSTANTS
  MaxLength = 1
  Sources <- MCSources
SPECIFICATION Spec
INVARIANT TooLargeIsRefused
\* parse_source_lvl2 stops after the last line
CHECK_DEADLOCK FALSE
