SPECIFICATION FairEchoSpec
CONSTANTS
  BufferSize = 2
  HeaderLimit = 2
  MaxHead = 3
  MaxBody = 3
  MaxResponse = 5
  ResponseHead = 3
  HandlerMayStall = FALSE
  MaxText = 2
  MaxMessage = 2
INVARIANTS
  OffsetIsValid
  EchoIsWhole
  ParkedForAReason
PROPERTIES
  EchoImplementsProcessor
  SessionEnds
