SPECIFICATION SpecOne
CONSTANTS
  None = None
  MaxDeals = 1
  MaxSeq = 2
  MaxKills = 1
  MaxFailures = 1
  Releases = {r1, r2, r3}
  MaxJobs = 4
  MaxUpgrades = 2
  MaxFaults = 4
CHECK_DEADLOCK FALSE
INVARIANTS
  OneBundle
  CertifiedLedger
  AnchorSeparates
  SwitchedMeansLive
  IInv
  RotationIsSound
