SPECIFICATION FairSpec
CONSTANTS
  Balance = {1, 2, 4, 10}
  Cap = 2
  MinSats = 4
  None = None
INVARIANTS
  LostReadingIsLoud
PROPERTIES
  OkMeansNotStopped
  OkMeansFunded
  DrainIsNoticed
  AutoPauseEnds
