SPECIFICATION Spec
CONSTANTS
  N = 2
  MaxBytes = 1
  StderrCap = 0
  PipeCap = 1
  BufCap = 2
  Quirks = {"close", "fork", "slow", "cancel"}
CHECK_DEADLOCK FALSE
INVARIANTS
  TypeOK
  NoSilentLoss
  NothingLeftRunning
  EndsClosed
  IInv
PROPERTY
  ImplementsContract
