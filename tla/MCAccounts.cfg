SPECIFICATION SpecOne
CONSTANTS
  Clis = {c1}
  Hosts = {h1, h2}
  None = None
  MaxRestarts = 1
  MaxCommands = 3
  MaxIncidents = 2
  KillsTree = TRUE
  Logins = {1, 2}
  MaxCandidates = 2
  Labelled = TRUE
  Supervised = TRUE
  MaxJobs = 4
  MaxFailures = 2
CHECK_DEADLOCK FALSE
INVARIANTS
  HostsAreSound
  AccountIsWhole
PROPERTIES
  FailedIsAbsorbing
  CommandsEnd
  ConnectedIsKept
  HandlerEnds
