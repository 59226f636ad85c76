SPECIFICATION Spec
CONSTANTS
  Hash = {h1, h2}
  Digest = {d1}
  Price = {1}
  Client = {c1, c2}
  Sweeper = sweeper
  CacheMax = 1
  MaxAttempts = 1
  None = None
SYMMETRY Symmetry
INVARIANTS
  TypeOK
  StampedIsCommitted
  CommittedIsOwed
PROPERTIES
  RowsOnlyAdvance
