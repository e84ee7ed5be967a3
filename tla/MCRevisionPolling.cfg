SPECIFICATION LoadedSpec
CONSTANTS
  Pages = {{"list"}, {"workflow"}, {"sessions"}, {"detail"}, {"dashboard"}, {"git"}}
  None = None
  MaxWrites = 2
  MaxFaults = 1
  LateAnswers = FALSE
INVARIANT ETagDescribesBody
PROPERTY CoveredConverges
