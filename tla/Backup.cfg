SPECIFICATION Spec
CONSTANTS
  MaxRows = 2
  Torn = Torn
INVARIANTS
  SuccessHoldsNewestRow
  SuccessIsNotHot
  RestartedOrReported
