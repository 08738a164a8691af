SPECIFICATION Spec
CONSTANTS
  WordBits = 8
  PcBits = 7
  SramSize = 12
  NumRegs = 24
  Inputs <- MCInputs
  Boot <- MCBoot
  MaxStores = 1
INVARIANTS
  ResultOnCurve
  CallerStateKept
PROPERTIES
  ImplementsAddition
CHECK_DEADLOCK FALSE
