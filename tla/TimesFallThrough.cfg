SPECIFICATION Spec
CONSTANT Cartridges <- MCCartridges
CHECK_DEADLOCK FALSE
INVARIANT TimesAreDocumented
