SPECIFICATION SearchSpec
CONSTANTS
  Urls = {"page", "next", "feed"}
  Containers = {"feed"}
  Links <- MCLinks
  Says <- MCSays
  Seeded = {"page", "feed"}
  MaxRows = 3
  Modes = {"external", "local"}
  MaxRuns = 1
  CallBudgets = {4, 5}
  MaxFetches = 2
  MaxPages = 2
INVARIANTS
  CacheIsSound
  BudgetsHold
  RunsAgree
CHECK_DEADLOCK FALSE
