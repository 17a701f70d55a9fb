SPECIFICATION SpecOne
CONSTANTS
  MaxSeq = 3
  MaxAttempts = 2
  MaxInterrupts = 2
  Agent = {a1}
  LeaseTicks = 5
  IntervalTicks = 1
  PostTicks = 1
  MaxPosts = 1
  MaxLeases = 3
  MaxFaults = 1
  MaxCrashes = 1
CHECK_DEADLOCK FALSE
INVARIANTS
  CausalPrefix
  RememberedIsApplied
  IInv
PROPERTIES
  SettledStaysSettled
  DeadLetterBlocks
  ImplementsChannel
  EventuallyApplied
  JobEnds
