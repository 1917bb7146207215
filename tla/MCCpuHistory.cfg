SPECIFICATION SpecH
CONSTANT Cartridges <- MCPrograms
CHECK_DEADLOCK FALSE
INVARIANTS
  TypeOK
  SerialExactlyOnce
PROPERTIES
  OnlyTwoEnterOperands
  LoadsSeeIME
  ImplementsUntimed
  InstructionsFinish
  DecoderAgrees
  TimedOpcodeExecuted
  PopsWhatWasPushed
