SPECIFICATION Spec
CONSTANTS
  h = h
  a = a
  s = s
  c1 = c1
  c2 = c2
  Fds = {h, c1, c2}
  HttpServices = {h}
  AdmServices = {}
  Sources = {}
  InactivityPeriod = 2
  StallBound = 2
  EnrollErrorCaught = FALSE
INVARIANT FlushFindsListener
