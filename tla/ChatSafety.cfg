SPECIFICATION Spec
CONSTANTS
  MaxGen = 3
  PoolSize = 2
  TokenLimits <- MCOneToken
  PromptSizes <- MCPromptSizes
  NCtx = 3
INVARIANTS NoStuckChat OneGenerationUnlessFault LabelIsTrue UndefinedOnlyAfterMishap
PROPERTIES KeepsContract
CHECK_DEADLOCK FALSE
