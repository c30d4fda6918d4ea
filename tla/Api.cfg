SPECIFICATION FairSpec
CONSTANTS
  openai = openai
  custom = custom
  k = k
  Providers <- MCProviders
  Named <- MCNamed
  NeedsKey <- MCNamed
  Timed <- MCNamed
  Keys <- MCKeys
  Limits <- MCLimits
  MaxNested = 2
  MaxToggles = 2
INVARIANTS KeysAreSafe LimitIsKept
PROPERTIES TestsEnd
CHECK_DEADLOCK FALSE
