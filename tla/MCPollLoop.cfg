SPECIFICATION Spec
CONSTANTS
  MAXMESSAGELEN = 16
  MAXDATALEN = 9
  NCHARCHECKSUM = 1
  Crc <- MCCrc
  Garbage <- MCGarbage
  CounterRange = 1
  ErrorCopyLen = 1
  Setups <- MCSetups
  Reply <- MCReply
INVARIANTS
  TypeOK
PROPERTIES
  ReadsKeepFrames
  WholeFramesAreTakenWithoutException
  OutputIsWritten
  HangUpEndsTheProgram
  HangUpLeavesEmptyBuffers
CHECK_DEADLOCK FALSE
