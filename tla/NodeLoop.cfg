SPECIFICATION LoopSpec
CONSTANTS
  Period = 10
  Interval = 3
  MaxSend = 2
  MaxSize = 8
  SendSize = 7
  Capacity = 13
  ByteRange = 13
  MaxMessage = 40
  Credentials <- MCCredentials
  Worlds <- MCWorlds
  Garbage <- MCGarbage
  Values <- MCValues
  Names <- MCNames
  Entries <- MCEntries
  MapSizes <- MCMapSizes
  Fixes <- MCFixes
  Axes <- MCAxes
  Messages <- MCMessages
INVARIANTS
  LoopTypeOK
  BufferIsBounded
  CborIsReadable
  FrameIsWhole
  MeasurementIsSample
  TemperatureIsTrue
PROPERTIES
  SpacedUnlessSumWraps
  SendsAgainUnlessLast
