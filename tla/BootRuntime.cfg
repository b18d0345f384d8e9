SPECIFICATION Spec
CONSTANTS
  NumSteps = 3
  TotalTimeout = 2
  Retry = 1
  FinishDelay = 1
  MaxSpurious = 2
INVARIANTS
  ProgressAgrees
  FinishOnlyAfterPass
  FailureIsShown
  NoLateFinish
PROPERTIES
  UserReached
