SPECIFICATION FairSpec
CONSTANTS
  MaxRuns = 3
  MaxReports = 1
  a = a
  b = b
  Paths <- MCPaths
  EpochCounts <- MCFewEpochs
INVARIANTS FlagHasChild OneChild RunsAreToldTruly
PROPERTIES DeathIsNoticed
CHECK_DEADLOCK FALSE
