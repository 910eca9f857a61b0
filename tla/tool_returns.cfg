SPECIFICATION Spec
CONSTANTS
  N = 1
  MaxBytes = 2
  StderrCap = 1
  PipeCap = 2
  BufCap = 1
  Quirks = {}
CHECK_DEADLOCK FALSE
INVARIANTS
  StderrSurfaces
  IInv
PROPERTY
  Returns
