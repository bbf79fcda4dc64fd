SPECIFICATION PathSpec
CONSTANTS
  p = p
  q = q
  x = x
  y = y
  Char = {p, q, x, y}
  Nul = Nul
  Newline = Newline
  Erased = Erased
  Cells = 8
  ReadLength = 5
  Texts <- MCTexts
  MaxFailures = 2
  PayloadLength = 2
  Imei <- MCImei
  Readings <- MCReadings
INVARIANTS
  TypeOK
  TokenSurvivesRestart
  NodePacketIsReadable
  WholeTokenIsMeasured
  OnlyWholeTokenIsMeasured
  NoNodeIsIgnored
PROPERTIES
  StoredTextIsToken
  InterruptedResetIsClean
  InterruptedTextIsSpliced
