SPECIFICATION Spec
CONSTANTS
  WordBits = 12
  PcBits = 7
  SramSize = 12
  NumRegs = 24
  P = 37
  CurveA = 1
  CurveB = 1
  Base <- MCBase
  MaxMultiple = 9
  InverseInputs <- MCInverseInputs
  Boot <- MCBoot
INVARIANTS
  PointIsMultiple
  InverseBetween
  ListingTells
PROPERTIES
  CallsReturn
CHECK_DEADLOCK FALSE
