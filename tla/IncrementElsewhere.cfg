SPECIFICATION Spec
CONSTANT Cartridges <- MCCartridges
CHECK_DEADLOCK FALSE
PROPERTY IncrementsAtHL
