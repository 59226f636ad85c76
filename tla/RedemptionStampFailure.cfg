SPECIFICATION Spec
CONSTANTS
  Hash = {h1}
  Digest = {d1}
  Price = {1}
  Client = {c1}
  Sweeper = sweeper
  CacheMax = 1
  MaxAttempts = 1
  None = None
SYMMETRY Symmetry
INVARIANTS
  StampFailureLeavesRowOwed
