SPECIFICATION FairSpec
CONSTANTS
  Worker = {w1, w2, w3}
  TTL = 2
  MaxClock = 3
  None = None
CHECK_DEADLOCK FALSE
INVARIANTS
  SingleFlight
  NobodyIsAnsweredNothing
PROPERTIES
  RendersAreSpaced
  ResultsOnlyGetNewer
  EveryCallerIsAnswered
