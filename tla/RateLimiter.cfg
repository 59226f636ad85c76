SPECIFICATION Spec
CONSTANTS
  Peer = {p1, p2, p3}
  Worker = {w1, w2}
  PerMinute = 2
  BucketsMax = 1
  Grain = 2
  MaxClock = 4
  MaxRequests = 5
  None = None
SYMMETRY Symmetry
CHECK_DEADLOCK FALSE
INVARIANTS
  BucketsOvershoot
  BurstThenRate
  DeniedForCause
  RetryAfterSuffices
