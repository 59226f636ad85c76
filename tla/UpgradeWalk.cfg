SPECIFICATION FairSpec
CONSTANTS
  Commitment = {c1, c2, c3}
  MaxQueries = 2
  MaxSeconds = 2
  MaxStamps = 2
CHECK_DEADLOCK FALSE
INVARIANTS
  LookupsAreBounded
  NeverWaitsPastBudget
  UnavailableMeansSilence
  AnswerMatchesProof
  NoneSkippedInSilence
PROPERTIES
  RequestEnds
