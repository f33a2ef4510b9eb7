SPECIFICATION MCSpec
CONSTANTS
  Waiters = {1, 2, 3}
  Amount <- Amounts
  StartRate = 2
  Rates = {0, 1, 2, 4}
  PerSecond = 2
  MaxSets = 2
  MaxRefills = 0
  Unlimited = 9
INVARIANTS
  WaitersHaveRefill WrittenSurvives HaveIsReal ProgressKept ReadsWhatWasWritten
  SelectedComplete DrainNotStalled  RemovalPersists DecodesExactly
PROPERTIES
  StateKept 
CHECK_DEADLOCK FALSE
