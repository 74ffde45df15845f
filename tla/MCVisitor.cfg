SPECIFICATION Spec
CONSTANTS
  StartHeap <- MCHeap
  StartValues <- MCValues
  MaxValues = 11
  MayCall <- InTheOrderOfWalk
  Walkable <- Newest
  MayPrune <- OnceInside
CHECK_DEADLOCK FALSE
INVARIANTS
  ErrorsStick
  WalkIsAsAsked
  TransformReachesAll
PROPERTIES
  DerivingKeepsValues
  TransformStaysInItsTree
