SPECIFICATION Spec
CONSTANTS
  MAXMESSAGELEN = 16
  MAXDATALEN = 9
  NCHARCHECKSUM = 1
  Crc <- MCCrc
  Messages <- MCMessages
  NoiseBytes <- MCNoise
  MaxErrors = 1
INVARIANTS
  TypeOK
  CleanLineIsUnderstood
PROPERTIES
  UnpackedIsAFrame
  GoodFramesKept
  CleanLineIsUnpackedAtOnce
  CallsMakeProgress
  UnrefusedFramesAreUnpacked
