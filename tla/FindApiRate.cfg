SPECIFICATION FairSpec
CONSTANTS
  openai = openai
  custom = custom
  k = k
  Providers <- MCProviders
  Named <- MCNamed
  NeedsKey <- MCNamed
  Timed <- MCNamed
  Keys <- MCKeys
  Limits <- MCOneLimit
  MaxNested = 1
  MaxToggles = 0
PROPERTY LimitIsLifted
CHECK_DEADLOCK FALSE
