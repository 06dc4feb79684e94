SPECIFICATION Spec
CONSTANTS
  at = at
  gt = gt
  nl = nl
  Capacity = 4
  Values <- MCValues
  Fill = at
  SizeRange = 16
  Sources <- MCSources
PROPERTY ReadsStopWhenFull
