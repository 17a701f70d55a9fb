SPECIFICATION Spec
CONSTANTS
  Brokers = {a}
  Hosts = {g, h}
  Cdn = cdn
  None = None
  Reconnects = FALSE
  MaxJobs = 2
  MaxFaults = 0
  MaxCrashes = 0
  MaxChanges = 1
CHECK_DEADLOCK FALSE
PROPERTIES
  OnlyDisproved
