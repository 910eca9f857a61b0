SPECIFICATION FilterSpec
CONSTANTS
  N = 3
  MaxBytes = 1
  StderrCap = 0
  PipeCap = 1
  BufCap = 1
  Quirks = {}
CHECK_DEADLOCK FALSE
PROPERTY
  EofTravels
