SPECIFICATION Spec
CONSTANTS
  N = 1
  MaxBytes = 1
  StderrCap = 1
  PipeCap = 1
  BufCap = 1
  Quirks = {"close"}
CHECK_DEADLOCK FALSE
PROPERTY TimeoutKills
