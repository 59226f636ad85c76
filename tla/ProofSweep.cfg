CONSTANTS
  Proof = {p1, p2}
  MaxKills = 1
  None = None
SPECIFICATION FairSpec
INVARIANTS
  NothingLost
PROPERTIES
  OkIsHonest
  DamageIsReported
