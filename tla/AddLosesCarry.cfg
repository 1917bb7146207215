SPECIFICATION Spec
CONSTANTS
  Operands <- MCOperands
  Start <- MCStart
INVARIANT AddReportsCarry
