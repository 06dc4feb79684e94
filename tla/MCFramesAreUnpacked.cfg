SPECIFICATION Spec
CONSTANTS
  MAXMESSAGELEN = 16
  MAXDATALEN = 9
  NCHARCHECKSUM = 1
  Crc <- MCCrc
  Messages <- MCMessages
  NoiseBytes <- MCNoise
  MaxErrors = 1
PROPERTY FramesAreUnpacked
