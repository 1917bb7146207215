SPECIFICATION SpecE
CONSTANTS
  Cartridges <- MCCartridges
  MaxChanges = 2
CHECK_DEADLOCK FALSE
INVARIANTS
  ProcessTypeOK
  RunsTheFile
  NothingLeftOpen
  CartRamUntouched
  ControllerIsByCode
  ExecutesTheFile
PROPERTIES
  ComesCloser
  ImplementsSession
  EndsOrRuns
