SPECIFICATION Spec
CONSTANTS
  Chars <- MCChars
  Keyboards <- MCBlanks
  Registry <- MCRegistry
  PathRules <- MCPathRules
CHECK_DEADLOCK FALSE
INVARIANT BareCallIsLegal
