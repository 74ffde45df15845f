SPECIFICATION Spec
CONSTANTS
  Writers = {w1, w2}
  Old = Old
INVARIANTS
  WholeBundle
  FailureLeavesTheFile
  NoTemporaryLeft
CHECK_DEADLOCK FALSE
