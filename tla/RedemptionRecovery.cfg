SPECIFICATION RestartedSpec
CONSTANTS
  Hash = {h1, h2, h3}
  Digest = {d1}
  Price = {1}
  Client = {c1}
  Sweeper = sweeper
  CacheMax = 1
  MaxAttempts = 1
  None = None
INVARIANTS
  CacheOvershoot
PROPERTIES
  OwedIsDischarged
