SPECIFICATION FairSpec
CONSTANTS
  MaxRuns = 3
  LastEpoch = 2
INVARIANTS FlagFollowsWorkers ProgressIsTrue
PROPERTIES StopsWithinAnEpoch TrainingEnds
CHECK_DEADLOCK FALSE
