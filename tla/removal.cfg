SPECIFICATION FairRemovalSpec
CONSTANTS
  h = h
  c1 = c1
  c2 = c2
  Fds = {h, c1, c2}
  HttpServices = {h}
  AdmServices = {}
  Sources = {}
  Server = h
  InactivityPeriod = 2
  StallBound = 1
  EnrollErrorCaught = FALSE
  MaxShutdowns = 1
INVARIANTS
  RemovalIsSafe
  NoEarlyExpiry
PROPERTY RemovalEndsLoop
