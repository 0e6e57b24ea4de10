SPECIFICATION Spec
CONSTANTS
  h = h
  a = a
  s = s
  c1 = c1
  c2 = c2
  Fds = {h, a, c1, c2}
  HttpServices = {h}
  AdmServices = {a}
  Sources = {}
  InactivityPeriod = 2
  StallBound = 1
  EnrollErrorCaught = FALSE
SYMMETRY ConnectionSymmetry
INVARIANTS
  EventsAreLive
  TimersMatchListeners
  TimersSorted
  FlushFindsListener
  NoIdleAfterTermination
  InterestMatchesSession
