SPECIFICATION SpecOne
CONSTANTS
  OldDeals = 1
  MaxDeals = 3
  MaxSeq = 4
  MaxJobs = 2
  MaxFailures = 2
  Position = {p, q}
  None = none
  CloseBy = closeby
  MaxVolume = 1
  MaxRows = 5
  MaxArchived = 1
  Distance = 1
  MaxMoves = 2
  MaxPolls = 3
  MaxInterrupts = 1
  Agent = {a1, a2}
  LeaseTicks = 5
  IntervalTicks = 2
  PostTicks = 1
  MaxPosts = 2
  MaxLeases = 2
  MaxFaults = 1
  MaxCrashes = 1
  Servers = {s, t}
  MaxCalls = 2
  MaxSessions = 3
  MaxHostFaults = 1
SYMMETRY Interchangeable
CHECK_DEADLOCK FALSE
INVARIANTS
  HandoffIsWhole
  ReconstructionIsExact
  ExtremaAreKept
  RecordedIsTrue
  KeepsLease
  CallsAreSound
PROPERTIES
  NeverTwice
  RemovedOnlyWhenReported
