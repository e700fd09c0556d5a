SPECIFICATION FairSpec
CONSTANTS
  Jobs <- MCJobs
  Ports = {p1, p2, p3}
  GivenPort = p1
  MaxPolls = 2
  MaxRuns = 2
  MaxKills = 1
  MaxOthers = 1
  Foreign = Foreign
  Other = Other
  None = None
INVARIANTS
  TypeOK
  NoServerLeft
  OwnServerReplays
PROPERTIES
  RunsEnd
  ServersStop
