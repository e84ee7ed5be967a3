SPECIFICATION FairSpec
CONSTANTS
  Reqs = {page}
  Page = page
  None = None
  MaxCommits = 2
  MaxFaults = 1
INVARIANTS NotOlderThanAsked CacheIsTrue
PROPERTY PageFollows
CHECK_DEADLOCK FALSE
