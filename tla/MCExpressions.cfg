SPECIFICATION Spec
CONSTANTS
  Atoms <- MCAtoms
  Texts <- SourceTexts
  Operands <- MCOperands
  MayBuild <- ByTable
  Steps = 2
CHECK_DEADLOCK FALSE
INVARIANTS
  ReadsByPrecedence
  MeaningIsKept
  PrintingIsStable
