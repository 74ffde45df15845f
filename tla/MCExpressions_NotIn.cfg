SPECIFICATION Spec
CONSTANTS
  Atoms <- MCAtoms
  Texts <- NotInArray
  Operands <- MCOperands
  MayBuild <- ByTable
  Steps = 0
CHECK_DEADLOCK FALSE
INVARIANTS
  ReadsByPrecedence
