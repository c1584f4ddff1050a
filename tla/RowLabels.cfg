SPECIFICATION Spec
CONSTANTS
  Char <- MCChar
  Inputs <- MCInputs
  MaxColumns = 2
  MaxText = 0
INVARIANT TransformsNamedColumns
CHECK_DEADLOCK FALSE
