SPECIFICATION Spec
CONSTANTS
  NumCases = 2
  Unknown = Unknown
  Names <- MCNames
  Kinds <- MCKinds
  Modifiers <- MCModifiers
  Profiles <- MCProfiles
  Options <- MCOptions
INVARIANTS
  TypeInvariant
  MatchIsEarned
  ReportGateAndBundleAgree
PROPERTIES
  KillIsTimeout
  ImplementsLedger
  RunEnds
CHECK_DEADLOCK FALSE
