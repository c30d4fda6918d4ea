INIT Init
NEXT Next
CONSTANTS
  MaxStarts = 2
  StepsToFull = 20
INVARIANT StopIsFinal
CHECK_DEADLOCK FALSE
