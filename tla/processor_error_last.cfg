SPECIFICATION Spec
CONSTANTS
  BufferSize = 3
  HeaderLimit = 3
  MaxHead = 4
  MaxBody = 2
  MaxResponse = 2
  ResponseHead = 2
  HandlerMayStall = FALSE
PROPERTY ErrorResponseIsLast
