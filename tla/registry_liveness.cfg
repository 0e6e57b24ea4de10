SPECIFICATION FairSpec
CONSTANTS
  h = h
  a = a
  s = s
  c1 = c1
  c2 = c2
  Fds = {h, s, c1}
  HttpServices = {h}
  AdmServices = {}
  Sources = {s}
  InactivityPeriod = 2
  StallBound = 1
  EnrollErrorCaught = FALSE
PROPERTIES
  SilentSessionExpires
  EndedSessionCloses
  ShutdownEndsLoop
  ServicesStay
  ClosedOnlyByFlush
