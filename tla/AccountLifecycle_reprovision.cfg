SPECIFICATION Spec
CONSTANTS
  Logins = {1}
  MaxCandidates = 0
  Labelled = TRUE
  Supervised = TRUE
  MaxJobs = 3
  MaxFailures = 1
PROPERTY ActivatedSurvives
CHECK_DEADLOCK FALSE
