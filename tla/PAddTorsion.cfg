SPECIFICATION Spec
CONSTANTS
  WordBits = 8
  PcBits = 7
  SramSize = 12
  NumRegs = 24
  Inputs <- MCTorsionInputs
  Boot <- MCBoot
  MaxStores = 1
INVARIANT TorsionDoublesToZero
