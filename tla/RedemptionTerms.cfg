SPECIFICATION Spec
CONSTANTS
  Hash = {h1, h2}
  Digest = {d1, d2}
  Price = {1, 2}
  Client = {c1}
  Sweeper = sweeper
  CacheMax = 1
  MaxAttempts = 2
  None = None
SYMMETRY Symmetry
INVARIANTS
  ServedIsPaidAndOwed
  SettledIsHonoured
PROPERTIES
  ImplementsProofDuty
