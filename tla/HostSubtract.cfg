SPECIFICATION MCSpec
CONSTANTS
  WordBits = 8
  PcBits = 7
  SramSize = 24
  NumRegs = 11
  Programs <- MCPrograms
  HostWrites <- MCWrites
  Boot <- MCBoot
PROPERTIES
  FieldOpsClosed
CHECK_DEADLOCK FALSE
