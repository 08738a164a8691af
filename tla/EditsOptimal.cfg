SPECIFICATION Spec
CONSTANTS
  kExponentBitCount = 3
  kFractionBitCount = 2
  kMaxUlps = 4
  FlagFiles <- MCFlagFiles
INVARIANT EditsOptimal
CHECK_DEADLOCK FALSE
