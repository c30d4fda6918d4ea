SPECIFICATION FairSpec
CONSTANTS
  MaxGen = 2
  PoolSize = 1
  TokenLimits <- MCShortAnswers
  PromptSizes <- MCPromptSizes
  NCtx = 3
INVARIANT
  AnswerIsWhole
PROPERTIES
  StopIsFinal
  AnswerEnds
CHECK_DEADLOCK FALSE
