SPECIFICATION CallerSpec
CONSTANTS
  Schema <- Declared
  Queries <- AllAsked
  DialectsOf <- RuleDialects
  Catalog <- Tables
  Values <- SomeValues
  MaxRows = 3
  PrimaryKey <- Keys
  Domain <- Few
  MaxTable = 2
INVARIANTS
  NullabilityIsSound
  ValuesFitTheirTypes
  NamesAreComplete
  AcceptedIfItHasAResult
CHECK_DEADLOCK FALSE
