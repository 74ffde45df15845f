SPECIFICATION Spec
CONSTANTS
  Length = 2
  MaxEdits = 3
  MaxInt = 4
  NewTexts <- MCNewTexts
CHECK_DEADLOCK FALSE
INVARIANTS
  TypeInvariant
  LengthIsExact
  EditsAreApplied
