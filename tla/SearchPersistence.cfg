\* Two Searches of one page in local mode; storing it may fail.
SPECIFICATION PersistenceSpec
CONSTANTS
  Urls = {"page"}
  Containers = {}
  Links <- MCLinks
  Says <- MCSays
  Seeded = {"page"}
  MaxRows = 2
  Modes = {"local"}
  MaxRuns = 2
  CallBudgets = {3}
  MaxFetches = 1
  MaxPages = 1
INVARIANT KeptWasIndexed
CHECK_DEADLOCK FALSE
