SPECIFICATION Spec
CONSTANTS
  N = 1
  MaxBytes = 2
  StderrCap = 1
  PipeCap = 2
  BufCap = 1
  Quirks = {"flood"}
CHECK_DEADLOCK FALSE
PROPERTY
  Returns
