SPECIFICATION Spec
CONSTANTS
  Operands <- MCOperands
  Start <- MCStart
INVARIANTS
  TypeOK
  CompareOrders
  StepsUndoEachOther
  RotationsLoseNoBit
