SPECIFICATION Spec
CONSTANTS
  OldDeals = 1
  MaxDeals = 2
  MaxSeq = 7
  MaxJobs = 2
  MaxFailures = 1
INVARIANT
  NoHistoryInLive
