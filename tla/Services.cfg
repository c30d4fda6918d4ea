SPECIFICATION Spec
CONSTANTS
  s1 = s1
  s2 = s2
  Streams <- MCStreams
  NoStream = NoStream
  ReplyKinds <- MCKinds
  MaxTokens = 1
  MaxChecks = 2
  MaxWaits = 2
  MaxStarts = 3
  Models = {gguf, hf}
  NoItem = NoItem
  MaxAdds = 3
  MaxTimers = 2
  so = so
  dll = dll
  other = other
  Files <- MCFiles
  Plugins = {"tool", "skin"}
  BaseName <- MCBaseName
  NoFile = NoFile
  MaxLoads = 2
  Clients = {client}
  ChunkSizes = {1, 3, 5}
  MaxSentences = 4
  MaxLength = 3
  MaxTrainings = 4
  StepsToFull = 4
INVARIANTS ChildIsKnown RepliesAreTrue ListedIsResident RequestsAreAnswered ChunksAreRight TimersAgree
PROPERTIES TimersTakeTheirOwn EverythingEnds
CHECK_DEADLOCK FALSE
