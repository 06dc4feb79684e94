SPECIFICATION PartsSpec
CONSTANTS
  REGWIDTHBYTES = 1
  n_regs = 3
  pointers = {0, 1}
  write_masks <- MCMasks
  initial_values <- MCInitial
  hardware_bits <- MCHardware
  Configs <- MCConfigs
  Requests <- MCRequests
  Chars <- MCChars
  ErrorCopyLen = 5
  BadData <- MCBadData
  BufferLen = 7
  Widths = {16, 32, 64}
  Blocks <- MCBlocks
  MaxBytes = 3
  Range = 8
  LowRange = 8
  Rels <- MCRels
  MaxTime = 16
INVARIANTS
  TypeOK
  TimerTypeOK
  ChecksumsFit
  ChecksumIsTheRemainder
  ChecksumsReadBack
PROPERTIES
  WritesKeepTheRest
  ImplementsRegisterFile
  NeverEarly
  NeverMissed
