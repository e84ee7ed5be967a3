SPECIFICATION LoadedSpec
CONSTANTS
  Pages = {{"list", "sessions"}}
  None = None
  MaxWrites = 1
  MaxFaults = 0
  LateAnswers = FALSE
PROPERTY PhasesConverge
