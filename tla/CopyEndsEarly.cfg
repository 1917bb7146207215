SPECIFICATION Spec
CONSTANTS
  Cartridges <- MCCartridges
  Inputs <- MCInputs
  Values <- MCValues
  Probes <- MCProbes
INVARIANT FirstBanksCopied
