SPECIFICATION PageSpec
CONSTANTS
  None = None
  MaxRuns = 2
  MaxFaults = 1
  LateAnswers = FALSE
  Tasks = {t1, t2, t3}
  Limit = 1
  Keep = 3
  MaxWrites = 2
  MaxId = 5
  LoadsDuringRefetch = FALSE
INVARIANTS RunningIsRecorded NoGaps BoardIsExact
PROPERTIES OperationEnds OwnRunIsFollowed PagesConverge
