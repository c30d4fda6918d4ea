SPECIFICATION Spec
CONSTANTS
  MaxGen = 1
  PoolSize = 2
  TokenLimits <- MCOneToken
  PromptSizes <- MCOnePrompt
  NCtx = 3
INVARIANTS
  StopInterrupts
CHECK_DEADLOCK FALSE
