SPECIFICATION LifeSpec
CONSTANTS
  p1 = p1
  blank = blank
  a = a
  b = b
  main = main
  c1 = c1
  c2 = c2
  Ids = {p1, blank}
  Roots = {a, b}
  Callers = {main, c1, c2}
  NoCaller = NoCaller
  Main = main
  None = None
  ZeroProject <- MCZeroProject
  MaxRunners = 2
  Requests = {"create", "delete", "rescan", "disconnect"}
INVARIANTS CachedFromOwnRoot DeletedStaysQuiet StoredIsObserved
SYMMETRY ClientSymmetry
