SPECIFICATION Spec
CONSTANTS
  WordBits = 8
  PcBits = 6
  SramSize = 11
  NumRegs = 24
  Inputs <- MCInputs
  Boot <- MCBoot
INVARIANTS
  LoopInvariant
PROPERTIES
  ImplementsInverse
CHECK_DEADLOCK FALSE
