SPECIFICATION FairSpec
CONSTANTS
  Fds = {1, 2, 3, 4}
  NumServers = 2
  Limited = {1}
  FirstPort = 2
  EndPort = 4
  PortSpace = 4
  Other = 9
INVARIANTS
  NoDescriptorLeaks
  PortIsOurs
PROPERTY SetUpEnds
