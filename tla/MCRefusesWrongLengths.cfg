SPECIFICATION Spec
CONSTANTS
  REGWIDTHBYTES = 1
  n_regs = 3
  pointers = {0, 1}
  write_masks <- MCMasks
  initial_values <- MCInitial
  hardware_bits <- MCHardware
  Configs <- MCConfigs
  Requests <- MCNoLongRequests
  Chars <- MCChars
  ErrorCopyLen = 5
  BadData <- MCBadData
  BufferLen = 7
PROPERTY RefusesWrongLengths
