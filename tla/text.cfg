SPECIFICATION Spec
CONSTANTS
  Chars <- MCChars
  Keyboards <- MCKeyboards
  Registry <- MCRegistry
  PathRules <- MCPathRules
CHECK_DEADLOCK FALSE
INVARIANTS
  SplitAgreesWithShlex
  LegalIsSplittable
  IInv
  FilteredIsRun
  NameIsNotArgument
  NoSpellingEscapes
