SPECIFICATION Spec
CONSTANTS
  MAXMESSAGELEN = 20
  MAXDATALEN = 13
  NCHARCHECKSUM = 1
  Crc <- MCCrc
  Garbage <- MCGarbage
  CounterRange = 1
  ErrorCopyLen = 1
  Setups <- MCSetups
  Reply <- MCReply
  ExtraSize = 2
  Payload <- MCPayload
INVARIANTS
  TypeOK
  BytesInOrder
  StreamingStartsTheTimer
PROPERTIES
  StreamsAreWhole
  TransmissionGoesOn
  ReceivedBytesAreMoved
  WholeFramesAreTaken
  StreamingGoesOn
CHECK_DEADLOCK FALSE
