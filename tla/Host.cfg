SPECIFICATION MCSpec
CONSTANTS
  WordBits = 8
  PcBits = 7
  SramSize = 24
  NumRegs = 11
  Programs <- MCPrograms
  HostWrites <- MCWrites
  Boot <- MCBoot
INVARIANTS
  TypeOK
  TestsPass
  LabelsCurrent
  LabelsHaveOrigin
  ArithmeticLaws
PROPERTIES
  RunsEnd
  JumpsLandOnLabel
  FieldOpsReduce
CHECK_DEADLOCK FALSE
