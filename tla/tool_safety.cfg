SPECIFICATION Spec
CONSTANTS
  N = 1
  MaxBytes = 1
  StderrCap = 1
  PipeCap = 1
  BufCap = 2
  Quirks = {"close", "fork", "flood", "slow", "cancel"}
CHECK_DEADLOCK FALSE
INVARIANTS
  TypeOK
  NoSilentLoss
  NothingLeftRunning
  TrueExitStatus
  IInv
PROPERTY
  ImplementsContract
