SPECIFICATION FairSpec
CONSTANTS
  Slots = {s1, s2, s3}
  Conns = {c1}
  Claimers = {p1, p2}
  Releases = {r1, r2}
  TargetSize = 1
  None = None
  MaxClaims = 2
  MaxEvents = 2
CHECK_DEADLOCK FALSE
INVARIANTS
  OnePlace
  ReservedIsHeld
  IInv
PROPERTIES
  PoolKeepsItsSize
