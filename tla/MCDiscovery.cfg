SPECIFICATION SpecOne
CONSTANTS
  Brokers = {a, b}
  None = None
  Terms = 2
  MaxResults = 2
  MaxFaults = 1
  MaxRebuilds = 1
  EndKills = TRUE
  Calls = {c1, c2}
  Queries = 2
  MaxIncidents = 1
  Hosts = {g, h}
  Cdn = cdn
  Reconnects = FALSE
  MaxJobs = 2
  MaxCrashes = 1
  MaxChanges = 1
CHECK_DEADLOCK FALSE
INVARIANTS
  CensusIsSound
  FoundIsExact
  EndpointIsSound
PROPERTIES
  OnlyUnreachable
  CallsReturn
