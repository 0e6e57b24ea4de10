SPECIFICATION FairServerSpec
CONSTANTS
  h = h
  c = c
  o = o
  Fds = {h, c, o}
  HttpServices = {h}
  AdmServices = {}
  Sources = {}
  Conn = c
  InactivityPeriod = 1
  StallBound = 0
  EnrollErrorCaught = FALSE
  BufferSize = 1
  HeaderLimit = 1
  MaxHead = 1
  MaxBody = 1
  MaxResponse = 1
  ResponseHead = 1
  HandlerMayStall = FALSE
INVARIANTS
  WatchedForItsState
  EndIsAgreed
PROPERTIES
  ServerImplementsRegistry
  StoppedClientIsClosed
