SPECIFICATION ServiceSpec
CONSTANTS
  None = None
  Snaps = {s1}
  Files = {f1, f2}
  LastTree = 2
  Slots = 2
  MaxEdits = 1
  MaxFaults = 1
  Branches = {main, topic}
  Refs = {origin, fork}
  Pushers = {first}
  MaxCommits = 2
  Roots = {r1}
  Reqs = {q1, q2}
  MaxEntries = 1
  MaxTreeEdits = 1
  MaxRecreates = 1
INVARIANTS QuietIsExact FirstErrorWins PushedIsThere OneLoad AnswersAreFresh
PROPERTIES SnapshotEnds RequestsEnd
