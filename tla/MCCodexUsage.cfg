SPECIFICATION Spec
CONSTANTS
  Sessions = {s1}
  Callers = {c1, c2}
  None = None
  Damaged = Damaged
  MaxSize = 4
  MaxFaults = 2
INVARIANTS EntriesAreTrue AnswersAreCurrent
SYMMETRY Symmetry
