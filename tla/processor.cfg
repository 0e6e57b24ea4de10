SPECIFICATION Spec
CONSTANTS
  BufferSize = 3
  HeaderLimit = 3
  MaxHead = 4
  MaxBody = 3
  MaxResponse = 3
  ResponseHead = 4
  HandlerMayStall = TRUE
INVARIANTS
  BodyIsFramed
  HeaderIsLimited
  ResponseIsFramed
PROPERTIES
  RefusalWindsDown
  HandlerSeesProtocol
