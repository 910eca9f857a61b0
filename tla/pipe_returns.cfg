SPECIFICATION Spec
CONSTANTS
  N = 2
  MaxBytes = 1
  StderrCap = 1
  PipeCap = 1
  BufCap = 1
  Quirks = {"close", "flood"}
CHECK_DEADLOCK FALSE
INVARIANTS
  NoFailureHidden
  IInv
PROPERTY
  Returns
