SPECIFICATION SpecE
CONSTANTS
  Cartridges <- MCCartridges
  MaxChanges = 0
CHECK_DEADLOCK FALSE
INVARIANT OnlyImplementedRun
