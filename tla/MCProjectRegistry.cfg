SPECIFICATION RegistrySpec
CONSTANTS
  Ids = {a, b}
  Roots = {r1, r2}
  Nothing = Nothing
  Absent = Absent
  MaxOps = 3
  MaxFailures = 1
PROPERTY KeepsPromise
