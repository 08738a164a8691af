SPECIFICATION Spec
CONSTANTS
  kExponentBitCount = 3
  kFractionBitCount = 2
  kMaxUlps = 4
  FlagFiles <- MCFlagFiles
INVARIANTS PatternsMatch DiffApplies ReportIsWritten TextReadsBack Utf8IsUnicode
  UlpsAreSteps FlagsAreTaken AllInstantiated
CHECK_DEADLOCK FALSE
