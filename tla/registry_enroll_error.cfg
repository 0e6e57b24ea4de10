SPECIFICATION Spec
CONSTANTS
  h = h
  a = a
  s = s
  c1 = c1
  c2 = c2
  Fds = {h, s}
  HttpServices = {h}
  AdmServices = {}
  Sources = {s}
  InactivityPeriod = 2
  StallBound = 1
  EnrollErrorCaught = TRUE
INVARIANT IdleFindsListener
