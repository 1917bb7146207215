SPECIFICATION Spec
CONSTANTS
  Cartridges <- MCCartridges
  Inputs <- MCInputs
  Values <- MCValues
  Probes <- MCProbes
INVARIANTS
  TypeOK
  BankZeroFixed
  ReadsInBounds
  SixteenBitReadsAgree
PROPERTY
  ImplementsAddressSpace
