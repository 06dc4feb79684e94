SPECIFICATION TimerSpec
CONSTANTS
  Range = 16
  LowRange = 4
  Rels <- MCRels
  MaxTime = 16
PROPERTY NeverEarly
