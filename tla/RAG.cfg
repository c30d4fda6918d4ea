SPECIFICATION FairSpec
CONSTANTS
  a = a
  b = b
  Titles <- MCTitles
  ChunkCounts <- MCChunkCounts
  MaxAdds = 2
  MaxCrashes = 1
INVARIANTS IndexIsTrue OnlyHasteIsUndefined
PROPERTIES AcceptedIsStored KeepsKnowledge
CHECK_DEADLOCK FALSE
