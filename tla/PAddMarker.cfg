SPECIFICATION Spec
CONSTANTS
  WordBits = 8
  PcBits = 7
  SramSize = 12
  NumRegs = 24
  Inputs <- MCMarkerInputs
  Boot <- MCBoot
  MaxStores = 1
INVARIANT MarkerMeansZero
