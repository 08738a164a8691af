SPECIFICATION Spec
CONSTANTS
  WordBits = 8
  PcBits = 6
  SramSize = 11
  NumRegs = 24
  Inputs <- MCLargeInputs
  Boot <- MCBoot
INVARIANT InverseCorrect
