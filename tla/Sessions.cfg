SPECIFICATION FairSpec
CONSTANTS
  n1 = n1
  gui = gui
  worker = worker
  Names <- MCNames
  Threads <- MCThreads
  Owner = gui
  Unnamed = Unnamed
  NoOne = NoOne
  NoSession = NoSession
  Damaged = Damaged
  MaxVersion = 3
  Seconds = {0}
  MaxExits = 1
INVARIANT NewestIsKept
PROPERTIES KeepsStore CallsReturn AutosaveArrives
CHECK_DEADLOCK FALSE
