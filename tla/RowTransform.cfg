SPECIFICATION Spec
CONSTANTS
  Char <- MCChar
  Inputs <- MCInputs
  MaxColumns = 3
  MaxText = 6
INVARIANTS
  TypeOK
  ParseLabelsRight
  DocumentFromRecord
  TimestampIsTime
CHECK_DEADLOCK FALSE
