SPECIFICATION Spec
CONSTANTS
  None = None
  PollEdits = 4
  EventEdits = 6
  MaxFaults = 1
INVARIANTS UnknownIsAnnounced NothingMissed
PROPERTY ChangesAreReported
CHECK_DEADLOCK FALSE
