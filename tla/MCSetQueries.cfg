SPECIFICATION Spec
CONSTANTS
  Texts <- MCTexts
  TargetsOf <- MCTargetsOf
CHECK_DEADLOCK FALSE
INVARIANTS
  MeaningIsKept
  SpelledForTarget
