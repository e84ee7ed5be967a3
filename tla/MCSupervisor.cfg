SPECIFICATION FairSpec
CONSTANTS
  Ids = {p1}
  Roots = {a}
  Callers = {c1, c2}
  NoCaller = NoCaller
  MaxRunners = 2
INVARIANTS TypeOK AtMostOneWorker UnmappedIsQuiet StoppedIsQuiet AcceptedIsAnswered
PROPERTIES CallsReturn RegisteredRuns
