SPECIFICATION AirSpec
CONSTANTS
  Volts = {5, 300, 700, 900}
  Samples = 2
  Duty = 1
  Word = 2048
INVARIANTS
  AirTypeOK
  VerdictIsRight
  JudgedOnce
PROPERTIES
  StandardIsMean
