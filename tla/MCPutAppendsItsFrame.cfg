SPECIFICATION Spec
CONSTANTS
  MAXMESSAGELEN = 16
  MAXDATALEN = 9
  NCHARCHECKSUM = 1
  Crc <- MCCrc
  Puts <- MCPuts
  Payloads <- MCPayloads
  Errors <- MCErrors
  Garbage <- MCGarbage
  CounterRange = 2
  ErrorCopyLen = 1
PROPERTY PutAppendsItsFrame
CHECK_DEADLOCK FALSE
