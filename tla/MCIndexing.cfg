SPECIFICATION MCSpec
CONSTANTS
  Tasks = {t1}
  Versions = {1, 2}
  Runs = {run}
  None = None
  NoHash = NoHash
  Incremental = Incremental
  MaxEdits = 2
  MaxFaults = 1
  Names = {a}
  MaxMonth = 1
  Statuses = {"planning"}
  Targets = {"f"}
  Manifests <- MCManifests
  NSessions = 2
  MaxTime = 1
  RunTexts <- MCRunTexts
  Linked = FALSE
  MaxChanges = 2
INVARIANTS HashesDescribeCache KeysAreUnique IncrementalAgrees
PROPERTIES ChangesAreAnnounced FactsComeTrue
